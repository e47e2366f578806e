CONSTANTS
    c1 = c1
    c12 = c12
    f1 = f1
    f2 = f2
    t1 = t1
    f3 = f3
    a1 = a1
    a2 = a2
    Courses = {c1, c12}
    Items = {f1, t1, f3}
    CourseOf <- MCCourseOf
    ActivityOf <- MCActivityOf
    Texts = {t1}
    Unhashed = {f3}
    Under <- Apart
    Workers = {1}
    MaxVersion = 2
    MaxEdits = 2
    MaxFaults = 1
SPECIFICATION Spec
INVARIANTS ManifestNotAhead
PROPERTIES SkippedIsCurrent  
CHECK_DEADLOCK FALSE
