--------------------------- MODULE ControlRequests ---------------------------
(***************************************************************************)
(* The requests a process sends over stdout and waits on: tool             *)
(* permissions, elicitations, hook callbacks, MCP messages and diffs.  The *)
(* server tracks them in Channel (ControlRequestTracker.meta, mcpTimeouts) *)
(* and shows them in every window that has joined the channel; the first   *)
(* decision is written to the process and dismissed everywhere else.  A    *)
(* window that joins later is replayed what the raw-event store says is    *)
(* still pending: the store and the tracker are two accounts of the same   *)
(* requests, kept independently.                                           *)
(*                                                                         *)
(* One channel, whose process runs throughout.  What the server emits to a *)
(* window that is in the channel is there at once; what a window sends     *)
(* takes its time (inFlight) and may be lost with the connection.  A       *)
(* window keeps its connection during its own join.  The payloads of       *)
(* requests and answers, the diff shown for an open_diff (no window can    *)
(* answer it) and the rest of the history are left out.                    *)
(***************************************************************************)
EXTENDS Naturals

CONSTANTS
  Requests,    \* ids of control requests
  Windows,     \* browser clients
  NoRequest,   \* null
  Kinds        \* bound: what the process may raise

AllKinds == {"permission", "elicitation", "hook_callback", "mcp_message", "open_diff"}

ASSUME ConstantsAssumption == NoRequest \notin Requests /\ Kinds \subseteq AllKinds

VARIABLES
  (* the process *)
  kind,          \* of a request raised, "none" before
  cancelled,     \* requests the process withdrew
  answers,       \* control_responses written to the process, per request
  (* Channel and the handlers *)
  bound,         \* isBound
  meta,          \* keys of ControlRequestTracker.meta
  mcpTimeouts,   \* requests whose timer runs
  reading,       \* open_diff requests whose files are being read
  (* windows *)
  tab,           \* where a window is in its life and in session:join
  controls,      \* pending controls a window shows
  elicitation,   \* the one elicitation a window shows
  inFlight,      \* <<window, request>>: a decision under way, a chat:respond or,
                 \* for a hook callback, a chat:hook_respond
  (* history *)
  heard,         \* <<"request" or "cancel", q>> that reached the handlers
  withdrawn,     \* requests a cancel took out of meta
  stale          \* windows that may have missed a change since they joined

processVars == <<kind, cancelled, answers>>
serverVars == <<bound, meta, mcpTimeouts, reading>>
windowVars == <<tab, controls, elicitation, inFlight>>
historyVars == <<heard, withdrawn, stale>>
vars == <<processVars, serverVars, windowVars, historyVars>>

\* "joining" has called ensureBound, "replayed" has been sent what is pending, "in" is
\* in channelSockets, "away" has lost its connection.
Tabs == {"closed", "joining", "replayed", "in", "away"}

OfKind(k, S) == {q \in S : kind[q] = k}

TypeOK ==
  /\ kind \in [Requests -> Kinds \cup {"none"}]
  /\ cancelled \subseteq Requests
  /\ answers \in [Requests -> Nat]
  /\ bound \in BOOLEAN
  /\ meta \subseteq Requests
  /\ mcpTimeouts \subseteq OfKind("mcp_message", Requests)
  /\ reading \subseteq OfKind("open_diff", Requests)
  /\ tab \in [Windows -> Tabs]
  /\ controls \in [Windows -> SUBSET (OfKind("permission", Requests)
                                       \cup OfKind("hook_callback", Requests))]
  /\ elicitation \in [Windows -> OfKind("elicitation", Requests) \cup {NoRequest}]
  /\ inFlight \subseteq Windows \X Requests
  /\ heard \subseteq {"request", "cancel"} \X Requests
  /\ withdrawn \subseteq Requests
  /\ stale \subseteq Windows

\* One window has launched the session.
Init ==
  /\ kind = [q \in Requests |-> "none"]
  /\ cancelled = {}
  /\ answers = [q \in Requests |-> 0]
  /\ bound = TRUE
  /\ meta = {} /\ mcpTimeouts = {} /\ reading = {}
  /\ \E w \in Windows : tab = [v \in Windows |-> IF v = w THEN "in" ELSE "closed"]
  /\ controls = [w \in Windows |-> {}]
  /\ elicitation = [w \in Windows |-> NoRequest]
  /\ inFlight = {}
  /\ heard = {} /\ withdrawn = {} /\ stale = {}

-----------------------------------------------------------------------------
\* The sockets of the channel.
Members == {w \in Windows : tab[w] = "in"}

\* Joins that have read the store and are not in the channel yet.
Joining == {w \in Windows : tab[w] = "replayed"}

Show(q) == controls' = [w \in Windows |-> controls[w] \cup (IF w \in Members THEN {q} ELSE {})]

\* chat:cancel_request to the members: pending controls drop q, the elicitation
\* stays.
Dismiss(q) == controls' = [w \in Windows |-> controls[w] \ (IF w \in Members THEN {q} ELSE {})]

\* respondToRequest: a line on the stdin of the process.
Respond(q) == answers' = [answers EXCEPT ![q] = @ + 1]

Prompt(q) == kind[q] \in {"permission", "elicitation"}

\* What the raw recorder has been given about prompts so far.
Written ==
  {f \in {"request", "cancel", "answer"} \X {q \in Requests : Prompt(q)} :
     CASE f[1] = "request" -> TRUE
       [] f[1] = "cancel"  -> f[2] \in cancelled
       [] f[1] = "answer"  -> answers[f[2]] > 0}

-----------------------------------------------------------------------------
(* The process *)

\* The process raises q: the line is recorded, whoever listens.
Raise(q, k) ==
  /\ kind[q] = "none" /\ k \in Kinds
  /\ kind' = [kind EXCEPT ![q] = k]
  /\ stale' = stale \cup Joining
  /\ UNCHANGED <<cancelled, bound, tab, withdrawn>>

\* A request raised while the runner is bound reaches the handlers.
Hear(q, k) == bound /\ Raise(q, k) /\ heard' = heard \cup {<<"request", q>>}

\* ... and one raised while it is unbound is only recorded.
Unheard(q) ==
  /\ ~bound
  /\ \E k \in Kinds : Raise(q, k)
  /\ UNCHANGED <<answers, meta, mcpTimeouts, reading, controls, elicitation, inFlight, heard>>

onPermission(q) ==
  /\ Hear(q, "permission")
  /\ meta' = meta \cup {q}
  /\ Show(q)
  /\ UNCHANGED <<answers, mcpTimeouts, reading, elicitation, inFlight>>

\* A window shows one elicitation, the latest.
onElicitation(q) ==
  /\ Hear(q, "elicitation")
  /\ meta' = meta \cup {q}
  /\ elicitation' = [w \in Windows |-> IF w \in Members THEN q ELSE elicitation[w]]
  /\ UNCHANGED <<answers, mcpTimeouts, reading, controls, inFlight>>

\* No handler of the server tracks a hook callback.
onHookCallback(q) ==
  /\ Hear(q, "hook_callback")
  /\ Show(q)
  /\ UNCHANGED <<answers, meta, mcpTimeouts, reading, elicitation, inFlight>>

onMcpControlUnanswered(q) ==  \* (mutant: nobody there, nothing answered)
  /\ Hear(q, "mcp_message")
  /\ mcpTimeouts' = mcpTimeouts \cup (IF Members = {} THEN {} ELSE {q})
  /\ meta' = meta \cup {q}
  /\ inFlight' = inFlight \cup (Members \X {q})
  /\ UNCHANGED <<answers, reading, controls, elicitation>>

\* An MCP message is refused when nobody is there; otherwise its timer is armed
\* and every member answers it unasked.
onMcpControl(q) ==
  /\ Hear(q, "mcp_message")
  /\ \/ /\ Members = {}
        /\ Respond(q)
        /\ UNCHANGED <<meta, mcpTimeouts, inFlight>>
     \/ /\ Members # {}
        /\ mcpTimeouts' = mcpTimeouts \cup {q}
        /\ meta' = meta \cup {q}
        /\ inFlight' = inFlight \cup (Members \X {q})
        /\ UNCHANGED answers
  /\ UNCHANGED <<reading, controls, elicitation>>

onOpenDiff(q) ==
  /\ Hear(q, "open_diff")
  /\ reading' = reading \cup {q}
  /\ UNCHANGED <<answers, meta, mcpTimeouts, controls, elicitation, inFlight>>

\* The files of an open_diff have been read: only now is it tracked, also when the
\* process has withdrawn it meanwhile.
FilesRead(q) ==
  /\ q \in reading
  /\ reading' = reading \ {q}
  /\ meta' = meta \cup {q}
  /\ UNCHANGED <<processVars, bound, mcpTimeouts, windowVars, historyVars>>

FilesUnreadable(q) ==
  /\ q \in reading
  /\ reading' = reading \ {q}
  /\ Respond(q)
  /\ UNCHANGED <<kind, cancelled, bound, meta, mcpTimeouts, windowVars, historyVars>>

\* The process withdraws q (control_cancel_request); nobody clears the timer of an
\* MCP message, which is answered all the same.
onCancel(q) ==
  /\ kind[q] # "none" /\ q \notin cancelled
  /\ cancelled' = cancelled \cup {q}
  /\ stale' = stale \cup Joining
  /\ \/ /\ bound
        /\ heard' = heard \cup {<<"cancel", q>>}
        /\ meta' = meta \ {q}
        /\ withdrawn' = withdrawn \cup ((meta \ mcpTimeouts) \cap {q})
        /\ Dismiss(q)
     \/ /\ ~bound
        /\ UNCHANGED <<heard, meta, withdrawn, controls>>
  /\ UNCHANGED <<kind, answers, bound, mcpTimeouts, reading,
                 tab, elicitation, inFlight>>

McpTimeout(q) ==
  /\ q \in mcpTimeouts
  /\ mcpTimeouts' = mcpTimeouts \ {q}
  /\ meta' = meta \ {q}
  /\ Respond(q)
  /\ UNCHANGED <<kind, cancelled, bound, reading, windowVars, historyVars>>

-----------------------------------------------------------------------------
(* The windows *)

\* The user decides: the window forgets the prompt and sends the decision, at once or
\* when it is connected again.
Decide(w, q) ==
  /\ tab[w] # "closed"
  /\ \/ /\ q \in controls[w]
        /\ controls' = [controls EXCEPT ![w] = @ \ {q}]
        /\ UNCHANGED elicitation
     \/ /\ q = elicitation[w]
        /\ elicitation' = [elicitation EXCEPT ![w] = NoRequest]
        /\ UNCHANGED controls
  /\ inFlight' = inFlight \cup {<<w, q>>}
  /\ UNCHANGED <<processVars, serverVars, tab, historyVars>>

\* respondAndDismiss: an answer for a request that is tracked goes to the process.
RespondAndDismiss(q) ==
  /\ q \in meta
  /\ meta' = meta \ {q}
  /\ Respond(q)
  /\ Dismiss(q)
  /\ stale' = stale \cup Joining
  /\ UNCHANGED <<kind, cancelled, bound, reading, tab, elicitation,
                 heard, withdrawn>>

HandleRespondKeepsTimer(w, q) ==  \* (mutant: the timer of an MCP message still runs)
  /\ <<w, q>> \in inFlight /\ tab[w] # "away"
  /\ inFlight' = inFlight \ {<<w, q>>}
  /\ \/ RespondAndDismiss(q) /\ UNCHANGED mcpTimeouts
     \/ /\ q \notin meta
        /\ UNCHANGED <<processVars, serverVars, tab, controls, elicitation, historyVars>>

\* chat:respond arrives; an answer for a request that is not tracked is dropped.
HandleRespond(w, q) ==
  /\ <<w, q>> \in inFlight /\ tab[w] # "away"
  /\ inFlight' = inFlight \ {<<w, q>>}
  /\ \/ /\ RespondAndDismiss(q)
        /\ mcpTimeouts' = IF kind[q] = "mcp_message" THEN mcpTimeouts \ {q} ELSE mcpTimeouts
     \/ /\ q \notin meta
        /\ UNCHANGED <<processVars, serverVars, tab, controls, elicitation, historyVars>>

\* chat:hook_respond arrives: it goes to the process unseen, also when another window
\* has answered or the process has withdrawn the callback, and no other window is told.
HandleHookRespond(w, q) ==
  /\ <<w, q>> \in inFlight /\ tab[w] # "away"
  /\ kind[q] = "hook_callback"
  /\ inFlight' = inFlight \ {<<w, q>>}
  /\ Respond(q)
  /\ UNCHANGED <<kind, cancelled, serverVars, tab, controls, elicitation, historyVars>>

\* chat:cancel_request arrives from a window that shows q.
HandleCancelRequest(w, q) ==
  /\ tab[w] = "in" /\ q \in controls[w]
  /\ RespondAndDismiss(q)
  /\ UNCHANGED <<mcpTimeouts, inFlight>>

\* removeSocketFromAll for the connection of w.
RemoveSocketFromAll(w) == bound' = (bound /\ ~(tab[w] = "in" /\ Members = {w}))

\* The connection of w is gone, and with it some of what was on its way.
Drop(w) ==
  /\ tab[w] = "in"
  /\ tab' = [tab EXCEPT ![w] = "away"]
  /\ RemoveSocketFromAll(w)
  /\ \E lost \in SUBSET (inFlight \cap ({w} \X Requests)) : inFlight' = inFlight \ lost
  /\ stale' = stale \cup {w}
  /\ UNCHANGED <<processVars, meta, mcpTimeouts, reading, controls, elicitation,
                 heard, withdrawn>>

\* w is back within the TTL: reattachSocket.
Return(w) ==
  /\ tab[w] = "away"
  /\ tab' = [tab EXCEPT ![w] = "in"]
  /\ UNCHANGED <<processVars, serverVars, controls, elicitation, inFlight, historyVars>>

\* The window is closed, or reloaded.
Close(w) ==
  /\ tab[w] \in {"in", "away"}
  /\ tab' = [tab EXCEPT ![w] = "closed"]
  /\ RemoveSocketFromAll(w)
  /\ controls' = [controls EXCEPT ![w] = {}]
  /\ elicitation' = [elicitation EXCEPT ![w] = NoRequest]
  /\ inFlight' = inFlight \ ({w} \X Requests)
  /\ stale' = stale \ {w}
  /\ UNCHANGED <<processVars, meta, mcpTimeouts, reading, heard, withdrawn>>

\* session:join of a window just opened, or of one whose TTL had expired
\* (state:refresh_required).
JoinStart(w) ==
  /\ tab[w] \in {"closed", "away"}
  /\ tab' = [tab EXCEPT ![w] = "joining"]
  /\ bound' = TRUE
  /\ UNCHANGED <<processVars, meta, mcpTimeouts, reading, controls, elicitation,
                 inFlight, historyVars>>

\* (mutant: what the process has withdrawn is replayed)
PendingOrCancelled(facts) ==
  {q \in Requests : <<"request", q>> \in facts /\ <<"answer", q>> \notin facts}

\* extractPendingControlRequests on what the store has: a request without a cancel
\* and without a control_response.
Pending(facts) ==
  {q \in Requests : /\ <<"request", q>> \in facts
                    /\ <<"cancel", q>> \notin facts
                    /\ <<"answer", q>> \notin facts}

\* What is pending is replayed under the name of its event.
Replayed(k, facts) == OfKind(k, Pending(facts))

\* The store answers and what it finds pending is emitted to the socket of w alone;
\* what was written last may not have reached the store.
JoinReplay(w) ==
  \E late \in SUBSET Written :
    LET pending(k) == Replayed(k, Written \ late)
    IN /\ tab[w] = "joining"
       /\ tab' = [tab EXCEPT ![w] = "replayed"]
       /\ controls' = [controls EXCEPT ![w] = @ \cup pending("permission")]
       /\ \E q \in IF pending("elicitation") = {} THEN {elicitation[w]}
                   ELSE pending("elicitation") :
            elicitation' = [elicitation EXCEPT ![w] = q]
       /\ stale' = IF late = {} THEN stale ELSE stale \cup {w}
       /\ UNCHANGED <<processVars, serverVars, inFlight, heard, withdrawn>>

\* The history has been streamed: the socket is added to the channel.
JoinEnd(w) ==
  /\ tab[w] = "replayed"
  /\ tab' = [tab EXCEPT ![w] = "in"]
  /\ UNCHANGED <<processVars, serverVars, controls, elicitation, inFlight, historyVars>>

-----------------------------------------------------------------------------
Next ==
  \/ \E q \in Requests :
       \/ Unheard(q) \/ onPermission(q) \/ onElicitation(q) \/ onHookCallback(q)
       \/ onMcpControl(q) \/ onOpenDiff(q) \/ FilesRead(q) \/ FilesUnreadable(q)
       \/ onCancel(q) \/ McpTimeout(q)
       \/ \E w \in Windows : \/ Decide(w, q) \/ HandleRespond(w, q)
                             \/ HandleHookRespond(w, q) \/ HandleCancelRequest(w, q)
  \/ \E w \in Windows :
       \/ Drop(w) \/ Return(w) \/ Close(w)
       \/ JoinStart(w) \/ JoinReplay(w) \/ JoinEnd(w)

Spec == Init /\ [][Next]_vars

\* A timer that is armed fires.
FairSpec == Spec /\ \A q \in Requests : WF_vars(McpTimeout(q))

-----------------------------------------------------------------------------
(* Properties *)

\* What the process may count on (ControlContract): with several windows deciding
\* at once, decisions lost or late, timers, joins and cancels in any order, a
\* request is answered at most once, and never after a cancel has taken it out of
\* the tracker.  A withdrawn MCP message is still answered by its timer, and a hook
\* callback, which nobody tracks, as often as windows send chat:hook_respond.
status ==
  [q \in Requests |->
     IF kind[q] = "none" THEN "unsent"
     ELSE IF answers[q] = 0 THEN (IF q \in withdrawn THEN "withdrawn" ELSE "open")
     ELSE IF (answers[q] = 1 \/ kind[q] = "hook_callback") /\ q \notin withdrawn
          THEN "answered"
     ELSE "answered again"]

Contract == INSTANCE ControlContract
KeepsContract == Contract!Spec

\* The two accounts agree: a window that missed nothing since it joined shows the
\* permission requests the tracker holds, but those it has just decided, whether it
\* was shown them live or had them replayed from the store (for requests and
\* cancels that reached the handlers).
HeardOf(q) ==
  /\ <<"request", q>> \in heard
  /\ q \in cancelled => <<"cancel", q>> \in heard

ReplayAgrees ==
  \A w \in Members \ stale, q \in Requests :
    kind[q] = "permission" /\ HeardOf(q) =>
      (q \in controls[w] <=> q \in meta /\ <<w, q>> \notin inFlight)

\* An MCP message that reached its handler is answered, whether or not there is a
\* window, and whatever becomes of the windows that should answer it.
McpSettles ==
  \A q \in Requests :
    kind[q] = "mcp_message" /\ <<"request", q>> \in heard ~> answers[q] > 0

=============================================================================
