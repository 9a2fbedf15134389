----------------------------- MODULE McpClient ------------------------------
(***************************************************************************)
(* The MCP server (mcp/collasco-mcp.ts) as a client of the API: messages   *)
(* arrive on stdin or by HTTP, and a tool call asks the API with an access *)
(* token, refreshes the tokens once when it is refused, and asks again.    *)
(* The API's side of a refresh is RefreshTokens.                           *)
(*                                                                         *)
(* On stdin each chunk of data starts a reader: a loop that takes one      *)
(* message after the other out of the common buffer and awaits its         *)
(* handling.  A chunk that ends within a message is left out.  Access      *)
(* tokens are numbered in the order they are issued; that of the           *)
(* environment, or of the HTTP caller, is the first.                       *)
(***************************************************************************)
EXTENDS RefreshTokens, Sequences

CONSTANT MaxExpired    \* bound: the access tokens that may expire

\* The messages, in the order of their arrival, are the requests.
ASSUME MessagesAssumption == Requests \subseteq Nat /\ MaxExpired \in Nat

VARIABLES
  transport,  \* "stdio" or "http"
  buffer,     \* messages that have arrived on stdin and are not taken
  readers,    \* readers that are about to take a message
  state,      \* of each message: none, buffered, what its call does next, or its answer
  token,      \* the access token a call asks with
  refreshed,  \* refreshedTokens.accessToken, 0 before the first refresh
  given,      \* the token of the environment or the caller: 1, or 0 without
  issued,     \* API: access tokens issued
  expired,    \* API: those up to this one have expired
  stopped,    \* history: the message that was taken last was invalid
  excused     \* history: calls during which a session ended, a token expired, or two refreshes met

clientVars == <<transport, buffer, readers, state, token, refreshed, given, issued, expired,
                stopped, excused>>
serverVars == <<rows, created, opened, pc, seen>>

\* "first" refreshes because there is no access token, "refresh" because it was refused.
Calling == {"first", "ask", "refresh", "rotateFirst", "rotate", "answerFirst", "answer", "retry"}
Answers == {"done", "invalid", "unauthorized", "broken"}
\* A message without a Content-Length exists on stdin alone.
Messages == {"call", "quick", "bad"}
StdinMessages == Messages \cup {"headless"}
MessageStates == {"none"} \cup StdinMessages \cup Calling \cup Answers

ClientTypeOK ==
  /\ TypeOK
  /\ transport \in {"stdio", "http"}
  /\ \A n \in DOMAIN buffer : state[buffer[n]] \in StdinMessages
  /\ readers \in 0..Cardinality(Requests)
  /\ state \in [Requests -> MessageStates]
  /\ refreshed \in 0..issued /\ given \in {0, 1} /\ expired \in 0..issued
  /\ token \in [Requests -> 0..issued]
  /\ stopped \in BOOLEAN
  /\ excused \subseteq Requests

ClientInit ==
  /\ Init
  /\ transport \in {"stdio", "http"} /\ given \in {0, 1}
  /\ buffer = <<>> /\ readers = 0
  /\ state = [m \in Requests |-> "none"]
  /\ token = [m \in Requests |-> 0]
  /\ refreshed = 0 /\ issued = 0 /\ expired = 0
  /\ stopped = FALSE /\ excused = {}

BufferUnchanged == UNCHANGED <<transport, given, buffer, readers, stopped>>
TokensUnchanged == UNCHANGED <<token, refreshed, issued, expired, excused>>

\* refreshedTokens first, then the token that was given, and else a refresh.
Resolved == IF refreshed # 0 THEN refreshed ELSE given
CallFrom(s) == IF s = "call" THEN IF Resolved = 0 THEN "first" ELSE "ask"
               ELSE IF s = "quick" THEN "done" ELSE "invalid"

-----------------------------------------------------------------------------
\* The login script opens a session and starts the server with its tokens.
LoginScript ==
  /\ issued = 0
  /\ rows' = WithNew({}, 1, 1) /\ created' = 1 /\ opened' = 1 /\ issued' = 1
  /\ UNCHANGED <<pc, seen, state, token, refreshed, expired, excused>> /\ BufferUnchanged

\* Messages are numbered in the order they arrive.
ArrivesNext(m) ==
  issued > 0 /\ state[m] = "none" /\ \A n \in Requests : n < m => state[n] # "none"

\* A chunk brings one message or two, and starts a reader.
DataArrives(m, kind) ==
  /\ transport = "stdio" /\ ArrivesNext(m)
  /\ \E more \in SUBSET {m + 1} :
       /\ more \subseteq Requests
       /\ \E other \in StdinMessages :
            /\ more = {} => other = kind
            /\ state' = [n \in Requests |->
                 IF n = m THEN kind ELSE IF n \in more THEN other ELSE state[n]]
       /\ buffer' = buffer \o <<m>> \o (IF more = {} THEN <<>> ELSE <<m + 1>>)
  /\ readers' = readers + 1
  /\ UNCHANGED <<serverVars, transport, given, stopped>> /\ TokensUnchanged

ReadsHead == readers > 0 /\ buffer # <<>>

\* Wrong variant of TakeMessage: a reader takes one message.
TakeOnlyOne ==
  /\ ReadsHead /\ state[Head(buffer)] # "headless"
  /\ LET m == Head(buffer) IN
       /\ state' = [state EXCEPT ![m] = CallFrom(@)]
       /\ token' = [token EXCEPT ![m] = Resolved]
       /\ stopped' = (state[m] = "bad")
  /\ buffer' = Tail(buffer)
  /\ readers' = readers - 1
  /\ UNCHANGED <<serverVars, transport, given, refreshed, issued, expired, excused>>

\* A call is awaited, and an invalid message ends its reader with an error: what
\* is behind it stays in the buffer.
TakeMessage ==
  /\ ReadsHead /\ state[Head(buffer)] # "headless"
  /\ LET m == Head(buffer) IN
       /\ state' = [state EXCEPT ![m] = CallFrom(@)]
       /\ token' = [token EXCEPT ![m] = Resolved]
       /\ stopped' = (state[m] = "bad")
       /\ readers' = IF state[m] = "quick" THEN readers ELSE readers - 1
  /\ buffer' = Tail(buffer)
  /\ UNCHANGED <<serverVars, transport, given, refreshed, issued, expired, excused>>

\* A header without Content-Length ends its reader before the message is removed:
\* it stays at the head, and every later reader ends on it as well.
LengthMissing ==
  /\ ReadsHead /\ state[Head(buffer)] = "headless"
  /\ readers' = readers - 1
  /\ UNCHANGED <<serverVars, transport, given, buffer, state, stopped>> /\ TokensUnchanged

ReadersReturn ==
  /\ readers > 0 /\ buffer = <<>>
  /\ readers' = 0
  /\ UNCHANGED <<serverVars, transport, given, buffer, state, stopped>> /\ TokensUnchanged

\* By HTTP each message is a request of its own.
HttpArrives(m, kind) ==
  /\ transport = "http" /\ ArrivesNext(m)
  /\ state' = [state EXCEPT ![m] = CallFrom(kind)]
  /\ token' = [token EXCEPT ![m] = Resolved]
  /\ BufferUnchanged
  /\ UNCHANGED <<serverVars, refreshed, issued, expired, excused>>

-----------------------------------------------------------------------------
\* A call goes on; when it has its answer its reader takes the next message.
GoesOn(m, s) ==
  /\ state' = [state EXCEPT ![m] = s]
  /\ readers' = IF s \in Answers /\ transport = "stdio" THEN readers + 1 ELSE readers
  /\ UNCHANGED <<transport, given, buffer, stopped>>

Valid(t) == t > expired

\* A call is refused once; the second time it fails.
Ask(m) ==
  /\ state[m] \in {"ask", "retry"}
  /\ GoesOn(m, IF Valid(token[m]) THEN "done" ELSE IF state[m] = "ask" THEN "refresh" ELSE "unauthorized")
  /\ UNCHANGED serverVars /\ TokensUnchanged

\* POST /auth/refresh: its two steps are those of the API.
AskRefresh(m) ==
  /\ state[m] \in {"first", "refresh"}
  /\ IF rows = {}
     THEN GoesOn(m, "unauthorized") /\ UNCHANGED serverVars
     ELSE RefreshRead(m) /\ GoesOn(m, IF state[m] = "first" THEN "rotateFirst" ELSE "rotate")
  /\ TokensUnchanged

Rotates(m) ==
  /\ state[m] \in {"rotateFirst", "rotate"}
  /\ RefreshCommit(m)
  /\ IF seen[m].row \in rows
     THEN /\ issued' = issued + 1
          /\ token' = [token EXCEPT ![m] = issued + 1]
          /\ excused' = excused \cup {n \in Requests \ {m} : pc[n] = "rotate"}
          /\ GoesOn(m, IF state[m] = "rotateFirst" THEN "answerFirst" ELSE "answer")
     ELSE /\ GoesOn(m, "unauthorized")
          /\ UNCHANGED <<issued, token, excused>>
  /\ UNCHANGED <<refreshed, expired>>

\* Wrong variant of RefreshAnswered: the call is asked again with the token it had.
RefreshAnsweredKeeping(m) ==
  /\ state[m] \in {"answerFirst", "answer"}
  /\ refreshed' = token[m]
  /\ token' = [token EXCEPT ![m] = Resolved]
  /\ GoesOn(m, IF state[m] = "answerFirst" THEN "ask" ELSE "retry")
  /\ UNCHANGED <<serverVars, issued, expired, excused>>

\* The tokens are kept for the calls to come, whichever of two arrives last.
RefreshAnswered(m) ==
  /\ state[m] \in {"answerFirst", "answer"}
  /\ refreshed' = token[m]
  /\ GoesOn(m, IF state[m] = "answerFirst" THEN "ask" ELSE "retry")
  /\ UNCHANGED <<serverVars, token, issued, expired, excused>>

\* Wrong variant of ConnectionBreaks: the call is asked again.
ConnectionRetried(m) ==
  /\ state[m] \in Calling \ {"rotateFirst", "rotate"}
  /\ GoesOn(m, "ask")
  /\ UNCHANGED serverVars /\ TokensUnchanged

\* The connection breaks, before the API has begun or after it is done: no retry.
ConnectionBreaks(m) ==
  /\ state[m] \in Calling \ {"rotateFirst", "rotate"}
  /\ GoesOn(m, "broken")
  /\ UNCHANGED serverVars /\ TokensUnchanged

-----------------------------------------------------------------------------
Under == {m \in Requests : state[m] \in Calling}

\* The access tokens issued so far expire.
TokensExpire ==
  /\ expired < issued /\ issued <= MaxExpired
  /\ expired' = issued
  /\ excused' = excused \cup {m \in Requests : state[m] \in {"answer", "retry"}}
  /\ UNCHANGED <<serverVars, state, token, refreshed, issued>> /\ BufferUnchanged

\* The user logs out elsewhere.
SessionEnds ==
  /\ rows # {}
  /\ rows' = {}
  /\ excused' = Requests
  /\ UNCHANGED <<created, opened, pc, seen, state, token, refreshed, issued, expired>>
  /\ BufferUnchanged

CallSteps(m) ==
  Ask(m) \/ AskRefresh(m) \/ Rotates(m) \/ RefreshAnswered(m) \/ ConnectionBreaks(m)

ClientNext ==
  \/ \E m \in Requests :
       \/ \E kind \in StdinMessages : DataArrives(m, kind)
       \/ \E kind \in Messages : HttpArrives(m, kind)
       \/ CallSteps(m)
  \/ LoginScript \/ TakeMessage \/ LengthMissing \/ ReadersReturn
  \/ TokensExpire \/ SessionEnds

ClientSpec == ClientInit /\ [][ClientNext]_<<clientVars, vars>>

\* The event loop runs what is ready, and the API answers or the connection breaks.
ClientFairness ==
  /\ WF_<<clientVars, vars>>(TakeMessage)
  /\ WF_<<clientVars, vars>>(LengthMissing)
  /\ \A m \in Requests : WF_<<clientVars, vars>>(CallSteps(m))

-----------------------------------------------------------------------------
Stranded == buffer # <<>> /\ readers = 0 /\ Under = {}

\* Messages stay unread in the buffer only after an invalid one, which the next
\* chunk gets past, or from one without a Content-Length on, which nothing gets
\* past, whatever chunks they came in and however long calls before them take
\* (flushBuffer, start).
StrandedBehindInvalid == Stranded => stopped \/ state[Head(buffer)] = "headless"

\* A call is refused for good only when the session ended, the new token expired
\* before it was used, or another refresh came between the read and the write of
\* its own: an expired access token alone never shows (authenticatedRequest).
RefusedForAReason == \A m \in Requests : state[m] = "unauthorized" => m \in excused

\* Every message is answered, or waits at or behind an invalid one: no call waits
\* on another, and none refreshes and retries without end.
MessagesAnswered ==
  \A m \in Requests : state[m] # "none" ~> (state[m] \in Answers \/ Stranded)
=============================================================================
