-------------------------------- MODULE Chat --------------------------------
(***************************************************************************)
(* A conversation with a chatbot, in the web application or over the       *)
(* OpenAI-compatible API: the PII filter on the way to the language model, *)
(* the query against the vector index, and the stream of the answer back.  *)
(*                                                                         *)
(* A text is a sequence of characters, of which a name is one: personal    *)
(* data that the filter recognises.  The placeholder that replaces it,     *)
(* [TYPE_n], is <<"[", "N", n, "]">>, and a citation is <<"[", n, "]">>.    *)
(* There is one type of personal data; types only split the numbering.     *)
(*                                                                         *)
(* Other conversations are seen by the permits they hold, and the syncs of *)
(* the knowledge base (IndexSync) by the configs they leave.               *)
(***************************************************************************)
EXTENDS Naturals, FiniteSets, SequencesExt

CONSTANTS
    Names,      \* personal data
    Questions,  \* the texts users send
    Digits,     \* the numerals, as a sequence
    Permits,    \* answers streamed at a time (HAYSTACK_INFERENCE_SEMAPHORE)
    MaxDeployed,  \* bound on the embedding configs
    MaxAhead,   \* bound on the requests that wait for a permit already
    MaxTurns,   \* bound on the questions
    Chars,      \* the characters of an answer
    MaxChunk,   \* bound on the characters of a chunk of it
    MaxSteps    \* bound on the characters of all answers, syncs and deployments

ASSUME PermitsArePositive == Permits \in Nat \ {0}
ASSUME BoundsAreNumbers == {MaxDeployed, MaxAhead, MaxTurns, MaxChunk, MaxSteps} \subseteq Nat
ASSUME EnoughDigits == IsFiniteSet(Names) /\ Cardinality(Names) <= Len(Digits)

VARIABLES
    bot,      \* [filter |-> pii_filter_enabled, web |-> not over the API]
    kb,       \* status and manifest of the KB, its collection and the settings
    history,  \* the messages as the client has them
    stage,    \* how far the request is
    sent,     \* the messages as they go to the rag-pipeline
    names,    \* the name of each placeholder
    config,   \* the embedding config of the query
    used,     \* the config of the query and of the collection it was put to
    overtaken, \* history: the collection was recreated after config was read
    mine,     \* this request holds a permit
    others,   \* permits held by other requests
    ahead,    \* requests that wait for a permit before this one
    answer,   \* what the model has answered so far
    buf,      \* StreamUnredactor._buf
    shown,    \* what the client has received
    steps     \* characters of all answers, syncs and deployments so far

botVars == <<bot, history, sent, names>>
queryVars == <<config, used, overtaken>>
permitVars == <<mine, others, ahead>>
answerVars == <<answer, buf, shown>>
chatVars == <<botVars, kb, stage, queryVars, permitVars, answerVars, steps>>

None == 0

-----------------------------------------------------------------------------
(* Texts.                                                                  *)

Placeholder(n) == <<"[", "N", Digits[n], "]">>
PlaceholderAt(text, i, n) == i + 3 <= Len(text) /\ SubSeq(text, i, i + 3) = Placeholder(n)

Characters == Names \union Range(Digits) \union {"[", "N", "]"} \union Chars
                  \union UNION {Range(q) : q \in Questions}

ASSUME TextsAreSequences == Questions \subseteq Seq(Characters) /\ Digits \in Seq(Characters)

\* What placeholders are made of is told apart, and none of it is a name.
ASSUME PlaceholdersAreClear ==
    /\ IsInjective(Digits)
    /\ Range(Digits) \intersect {"[", "N", "]"} = {}
    /\ Names \intersect (Range(Digits) \union {"[", "N", "]"}) = {}

\* A placeholder that a user types would be taken for one of the filter's.
ASSUME NoneIsTyped ==
    \A q \in Questions, n \in DOMAIN Digits : \A i \in DOMAIN q : ~PlaceholderAt(q, i, n)

\* What a regular expression makes of a text that replaces the placeholders of
\* the first Len(by) numbers.
Substitute(text, by) ==
    LET known == DOMAIN by
        starts == {i \in DOMAIN text : \E n \in known : PlaceholderAt(text, i, n)}
        piece(i) == IF i \in starts THEN by[CHOOSE n \in known : PlaceholderAt(text, i, n)]
                    ELSE IF \E d \in 1 .. 3 : i - d \in starts THEN <<>>
                    ELSE <<text[i]>>
    IN  FlattenSeq([i \in DOMAIN text |-> piece(i)])

\* redact_with_placeholders numbers the names of one text as they first come.
FirstUses(text) ==
    {i \in DOMAIN text : text[i] \in Names /\ \A j \in 1 .. i - 1 : text[j] # text[i]}
NthUse(text, n) ==
    CHOOSE i \in FirstUses(text) : Cardinality({j \in FirstUses(text) : j <= i}) = n
LocalNames(text) ==
    [n \in 1 .. Cardinality(FirstUses(text)) |-> text[NthUse(text, n)]]
NumberOf(name, seq) == CHOOSE n \in DOMAIN seq : seq[n] = name
LocalText(text) ==
    FlattenSeq([i \in DOMAIN text |->
        IF text[i] \in Names THEN Placeholder(NumberOf(text[i], LocalNames(text)))
                             ELSE <<text[i]>>])

\* redact_messages numbers them anew for the conversation ...
ConversationNames(messages) ==
    LocalNames(FlattenSeq([i \in DOMAIN messages |->
        IF messages[i].role = "user" THEN messages[i].text ELSE <<>>]))

\* Mutant of Redacted: every message keeps the numbers of the filter service.
RedactedLocally(m, global) ==
    IF m.role = "user" THEN [m EXCEPT !.text = LocalText(@)] ELSE m

\* ... and rewrites the numbers in what users wrote; answers stay as they are.
Redacted(m, global) ==
    LET local == LocalNames(m.text)
        renumbered == [n \in DOMAIN local |-> Placeholder(NumberOf(local[n], global))]
    IN  IF m.role = "user" THEN [m EXCEPT !.text = Substitute(LocalText(@), renumbered)]
                           ELSE m

\* StreamUnredactor._replace.
Restored(text) == Substitute(text, [n \in DOMAIN names |-> <<names[n]>>])

Body == {"N"} \union Range(Digits)

\* Mutant of SafeLength: nothing is held back.
SafeLengthAll(text) == Len(text)

\* StreamUnredactor._partial_start: a last bracket that is open and may still
\* become a placeholder is held back, with what follows it.
SafeLength(text) ==
    LET open == {i \in DOMAIN text : /\ text[i] = "["
                                     /\ \A j \in i + 1 .. Len(text) : text[j] \in Body}
    IN  IF open = {} THEN Len(text) ELSE CHOOSE n \in 0 .. Len(text) : n + 1 \in open

-----------------------------------------------------------------------------

ChatInit ==
    /\ bot \in [filter : BOOLEAN, web : BOOLEAN]
    /\ kb = [status |-> "processing", manifest |-> None, built |-> None, desired |-> 1,
             target |-> 1]
    /\ history = <<>>
    /\ stage = "idle"
    /\ sent = <<>> /\ names = <<>>
    /\ config = None /\ used = <<>> /\ overtaken = FALSE
    /\ mine = FALSE /\ ahead = 0 /\ others \in 0 .. Permits
    /\ answer = <<>> /\ buf = <<>> /\ shown = <<>>
    /\ steps = 0

-----------------------------------------------------------------------------
(* The request.                                                            *)

Turns == Cardinality({i \in DOMAIN history : history[i].role = "user"})

Ask ==
    /\ stage = "idle"
    /\ Turns < MaxTurns
    /\ \E q \in Questions : history' = Append(history, [role |-> "user", text |-> q])
    /\ stage' = "redact"
    /\ UNCHANGED <<bot, sent, names, kb, queryVars, permitVars, answerVars, steps>>

\* chat_with_chatbot_stream refuses a KB that is not ready ...
AskInBrowser == bot.web /\ kb.status = "ready" /\ Ask

\* ... and chat_completions leaves that to the stream it has begun.
AskOverApi == ~bot.web /\ Ask

\* Over the API the names are not kept: the answer has its placeholders.
Redact ==
    /\ stage = "redact"
    /\ stage' = "load"
    /\ LET global == ConversationNames(history) IN
       IF bot.filter
       THEN /\ sent' = [i \in DOMAIN history |-> Redacted(history[i], global)]
            /\ names' = IF bot.web THEN global ELSE <<>>
       ELSE sent' = history /\ UNCHANGED names
    /\ UNCHANGED <<bot, history, kb, queryVars, permitVars, answerVars, steps>>

\* Mutant of WireConfig: what is desired now.
WireConfigDesired == kb.desired

\* wire_config_for_manifest.
WireConfig == IF kb.manifest = None THEN kb.desired ELSE kb.manifest

\* The KB is read again, now that the messages are redacted, and the request
\* queues for a permit.
LoadKb ==
    /\ stage = "load"
    /\ kb.status = "ready"
    /\ config' = WireConfig
    /\ IF others < Permits /\ ~mine
       THEN stage' = "query" /\ mine' = TRUE /\ UNCHANGED ahead
       ELSE stage' = "queue" /\ ahead' \in 0 .. MaxAhead /\ UNCHANGED mine
    /\ UNCHANGED <<botVars, kb, used, overtaken, others, answerVars, steps>>

\* The pipeline embeds the (rewritten) question and retrieves from whatever the
\* collection is by now.  Documents are stored before the answer begins.
Query ==
    /\ stage = "query"
    /\ kb.built # None
    /\ stage' = "stream"
    /\ used' = [config |-> config, built |-> kb.built]
    /\ UNCHANGED <<botVars, kb, config, overtaken, permitVars, answerVars, steps>>

Unredacts == bot.filter /\ bot.web

\* A chunk of the answer arrives ...
Answered(chunk) ==
    /\ stage = "stream"
    /\ chunk # <<>>
    /\ steps' = steps + Len(chunk)
    /\ steps' <= MaxSteps
    /\ answer' = answer \o chunk
    /\ UNCHANGED <<botVars, kb, stage, queryVars, permitVars>>

\* ... and goes through StreamUnredactor.feed ...
Feed(chunk) ==
    LET text == buf \o chunk IN
    /\ Unredacts
    /\ Answered(chunk)
    /\ shown' = shown \o Restored(SubSeq(text, 1, SafeLength(text)))
    /\ buf' = SubSeq(text, SafeLength(text) + 1, Len(text))

\* ... or on to the client as it is.
PassOn(chunk) ==
    /\ ~Unredacts
    /\ Answered(chunk)
    /\ shown' = shown \o chunk
    /\ UNCHANGED buf

Deliver == \E chunk \in BoundedSeq(Chars, MaxChunk) : Feed(chunk) \/ PassOn(chunk)

\* Mutant of Release: the permit is kept.
ReleaseNot == UNCHANGED mine

\* "async with" gives the permit back however the request ends.
Release == mine' = FALSE

\* [DONE], or the end of the stream without it: what is held back is flushed.
Flush ==
    /\ stage = "stream"
    /\ stage' = "trailer"
    /\ shown' = shown \o Restored(buf)
    /\ buf' = <<>>
    /\ Release
    /\ UNCHANGED <<botVars, kb, queryVars, others, ahead, answer, steps>>

Forget ==
    /\ stage' = "idle"
    /\ sent' = <<>> /\ names' = <<>>
    /\ config' = None /\ used' = <<>> /\ overtaken' = FALSE
    /\ answer' = <<>> /\ buf' = <<>> /\ shown' = <<>>
    /\ UNCHANGED <<bot, kb, others, ahead, steps>>

IsName(c) == c \in Names

\* The citations follow, when their session is found.  The client keeps the
\* answer, of which only the names matter to the requests that follow.
Finish ==
    /\ stage = "trailer"
    /\ history' = Append(history, [role |-> "assistant", text |-> SelectSeq(shown, IsName)])
    /\ Forget
    /\ UNCHANGED mine

\* The question is left without an answer.
Ends == Release /\ Forget /\ UNCHANGED history

\* The filter or the pipeline fails or times out, the KB is not ready or gone.
RequestFails == stage \in {"redact", "load", "query", "stream"} /\ Ends

\* The generator is closed where it is.
ClientGoes == stage \in {"redact", "load", "queue", "query", "stream"} /\ Ends

-----------------------------------------------------------------------------
(* Other requests and the knowledge base.  What becomes of them after the   *)
(* retrieval does not matter to the answer.                                *)

Unanswered == stage \in {"idle", "redact", "load", "queue", "query"}

\* asyncio.Semaphore hands its permits out in order.
OtherTakes ==
    /\ Unanswered /\ stage # "queue"
    /\ others + (IF mine THEN 1 ELSE 0) < Permits
    /\ others' = others + 1
    /\ UNCHANGED <<botVars, kb, stage, queryVars, mine, ahead, answerVars, steps>>

OtherEnds ==
    /\ others > 0
    /\ IF stage # "queue" THEN others' = others - 1 /\ UNCHANGED <<stage, mine, ahead>>
       ELSE IF ahead > 0 THEN ahead' = ahead - 1 /\ UNCHANGED <<stage, mine, others>>
       ELSE /\ stage' = "query" /\ mine' = TRUE /\ others' = others - 1
            /\ UNCHANGED ahead
    /\ UNCHANGED <<botVars, kb, queryVars, answerVars, steps>>

KbBecomes(new) ==
    /\ Unanswered
    /\ kb' = new
    /\ UNCHANGED <<botVars, stage, config, used, permitVars, answerVars>>

Event == steps < MaxSteps /\ steps' = steps + 1

DeployConfig ==
    /\ kb.status # "processing" /\ kb.desired < MaxDeployed
    /\ Event
    /\ KbBecomes([kb EXCEPT !.desired = @ + 1])
    /\ UNCHANGED overtaken

\* Drift makes a sync a rebuild, and so does the user's wish.  (IndexSync has the
\* deployments that come while one runs.)
BeginSync ==
    /\ kb.status # "processing"
    /\ Event
    /\ \E target \in {None, kb.desired} :
          /\ kb.manifest # kb.desired => target # None
          /\ KbBecomes([kb EXCEPT !.status = "processing", !.target = target])
    /\ UNCHANGED overtaken

\* The first file of a rebuild recreates the collection.
Recreate ==
    /\ kb.status = "processing" /\ kb.target # None
    /\ KbBecomes([kb EXCEPT !.built = kb.target])
    /\ overtaken' = (config # None)
    /\ UNCHANGED steps

CompleteSync ==
    /\ kb.status = "processing"
    /\ kb.target \in {None, kb.built}
    /\ KbBecomes([kb EXCEPT !.status = "ready", !.target = None,
                            !.manifest = IF kb.target = None THEN @ ELSE kb.desired])
    /\ UNCHANGED <<overtaken, steps>>

FailSync ==
    /\ kb.status = "processing"
    /\ KbBecomes([kb EXCEPT !.status = "error", !.target = None])
    /\ UNCHANGED <<overtaken, steps>>

-----------------------------------------------------------------------------

ChatNext ==
    \/ AskInBrowser \/ AskOverApi \/ Redact \/ LoadKb \/ Query \/ Deliver \/ Flush \/ Finish
    \/ RequestFails \/ ClientGoes
    \/ OtherTakes \/ OtherEnds
    \/ DeployConfig \/ BeginSync \/ Recreate \/ CompleteSync \/ FailSync

\* The calls of a request have timeouts, so it goes on or fails, and so do the
\* other requests.  The wait for a permit has none.
ChatFairness == WF_chatVars(RequestFails) /\ WF_chatVars(Finish) /\ WF_chatVars(OtherEnds)

ChatSpec == ChatInit /\ [][ChatNext]_chatVars /\ ChatFairness

-----------------------------------------------------------------------------
\* However the answer is cut into chunks, the user has read the beginning of
\* what it says with the placeholders restored, never a part of a placeholder,
\* and all of it when the stream is over (StreamUnredactor: "Placeholders can
\* arrive split across stream chunks").
AnswerIsRestored ==
    LET meant == IF Unredacts THEN Restored(answer) ELSE answer IN
    /\ stage = "stream" => IsPrefix(shown, meant)
    /\ stage = "trailer" => shown = meant

\* With the filter on, what users wrote goes to the pipeline without any name,
\* and the map that goes with it says exactly what they wrote: a placeholder
\* stands for one name in all messages and a name has one placeholder
\* ("unambiguous keys", redact_messages).
RedactionIsReversible ==
    bot.filter /\ stage \notin {"idle", "redact"} =>
        \A i \in DOMAIN sent : history[i].role = "user" =>
            /\ Range(sent[i].text) \intersect Names = {}
            /\ bot.web => Restored(sent[i].text) = history[i].text

\* "A collection must be served with the embedding model it was built with"
\* (index_manifest.py), through syncs that rebuild it or fail midway, unless a
\* rebuild recreates it while the request that has read its config waits.
QueryMatchesCollection ==
    used # <<>> /\ ~overtaken => used.config = used.built

\* Whatever fails and however many requests there are, a request that has begun
\* ends, and the next one is not kept from its permit.
ChatEnds == stage # "idle" ~> stage = "idle"

=============================================================================
