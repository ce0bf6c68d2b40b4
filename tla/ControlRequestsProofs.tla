------------------------- MODULE ControlRequestsProofs -------------------------
(***************************************************************************)
(* Theorems about ControlRequests, for every set of requests and windows.  *)
(***************************************************************************)
EXTENDS ControlRequests, TLAPS

-----------------------------------------------------------------------------
(* The inductive invariant *)

\* Nothing is known of a request before it is raised.
Fresh ==
  \A q \in Requests : kind[q] = "none" =>
    /\ answers[q] = 0
    /\ q \notin meta \cup withdrawn \cup cancelled
    /\ <<"request", q>> \notin heard
    /\ \A w \in Windows : <<w, q>> \notin inFlight

\* Only a request that is neither answered nor withdrawn can still be answered, and
\* in one way; a hook callback is none of those the server keeps.
Settled ==
  \A q \in Requests :
    /\ answers[q] \in {0, 1} \/ kind[q] = "hook_callback"
    /\ kind[q] = "hook_callback" => q \notin meta \cup mcpTimeouts \cup reading \cup withdrawn
    /\ q \in withdrawn => answers[q] = 0
    /\ q \in meta \cup mcpTimeouts \cup reading => answers[q] = 0 /\ q \notin withdrawn
    /\ q \in reading => q \notin meta

\* Of the permission requests that reached the handlers, the tracker holds those
\* that the record calls pending.
Account ==
  \A q \in Requests :
    /\ <<"cancel", q>> \in heard => q \in cancelled
    /\ kind[q] = "permission" /\ HeardOf(q) =>
         (q \in meta <=> q \notin cancelled /\ answers[q] = 0)

\* A window has missed something, or knows nothing yet, or shows what it should.
View(w) ==
  /\ tab[w] = "away" => w \in stale
  /\ tab[w] \in {"closed", "joining"} /\ w \notin stale =>
       /\ controls[w] = {}
       /\ elicitation[w] = NoRequest
       /\ \A q \in Requests : <<w, q>> \notin inFlight
  /\ tab[w] = "closed" => w \notin stale
  /\ tab[w] \in {"replayed", "in"} /\ w \notin stale =>
       \A q \in Requests :
         kind[q] = "permission" /\ HeardOf(q) =>
           (q \in controls[w] <=> q \in meta /\ <<w, q>> \notin inFlight)

Views == \A w \in Windows : View(w)

IInv == TypeOK /\ Fresh /\ Settled /\ Account /\ Views

-----------------------------------------------------------------------------
(* Every step keeps the invariant *)

\* A request nobody hears changes what was raised and nothing the server knows.
LEMMA UnheardStep ==
  ASSUME IInv, NEW q \in Requests, Unheard(q) PROVE IInv'
<1> USE DEF IInv, processVars, serverVars, windowVars, historyVars
<1>1. TypeOK'
  BY DEF TypeOK, OfKind, Tabs, AllKinds, Members, Joining, Unheard, Raise
<1>2. Fresh'
  BY DEF Fresh, TypeOK, OfKind, Members, Unheard, Raise
<1>3. Settled'
  BY DEF Fresh, Settled, TypeOK, OfKind, Unheard, Raise
<1>4. Account'
  BY DEF Fresh, Settled, Account, HeardOf, TypeOK, OfKind, Unheard, Raise
<1>5. Views'
  BY DEF Fresh, Settled, Account, Views, View, HeardOf, TypeOK, OfKind, Members, Joining,
     Unheard, Raise
<1> QED
  BY <1>1, <1>2, <1>3, <1>4, <1>5

\* A permission request is tracked and shown to the members in one step.
LEMMA OnPermissionStep ==
  ASSUME IInv, NEW q \in Requests, onPermission(q) PROVE IInv'
<1> USE DEF IInv, processVars, serverVars, windowVars, historyVars
<1>1. TypeOK'
  BY DEF TypeOK, OfKind, Tabs, AllKinds, Members, Joining, onPermission, Hear, Raise, Show
<1>2. Fresh'
  BY DEF Fresh, TypeOK, OfKind, Members, onPermission, Hear, Raise, Show
<1>3. Settled'
  BY DEF Fresh, Settled, TypeOK, OfKind, onPermission, Hear, Raise, Show
<1>4. Account'
  BY DEF Fresh, Settled, Account, HeardOf, TypeOK, OfKind, onPermission, Hear, Raise, Show
<1>5. Views'
  BY DEF Fresh, Settled, Account, Views, View, HeardOf, TypeOK, OfKind, Members, Joining,
     onPermission, Hear, Raise, Show
<1> QED
  BY <1>1, <1>2, <1>3, <1>4, <1>5

\* An elicitation is tracked, and takes the one slot of every member.
LEMMA OnElicitationStep ==
  ASSUME IInv, NEW q \in Requests, onElicitation(q) PROVE IInv'
<1> USE DEF IInv, processVars, serverVars, windowVars, historyVars
<1>1. TypeOK'
  BY DEF TypeOK, OfKind, Tabs, AllKinds, Members, Joining, onElicitation, Hear, Raise
<1>2. Fresh'
  BY DEF Fresh, TypeOK, OfKind, Members, onElicitation, Hear, Raise
<1>3. Settled'
  BY DEF Fresh, Settled, TypeOK, OfKind, onElicitation, Hear, Raise
<1>4. Account'
  BY DEF Fresh, Settled, Account, HeardOf, TypeOK, OfKind, onElicitation, Hear, Raise
<1>5. Views'
  BY DEF Fresh, Settled, Account, Views, View, HeardOf, TypeOK, OfKind, Members, Joining,
     onElicitation, Hear, Raise
<1> QED
  BY <1>1, <1>2, <1>3, <1>4, <1>5

\* A hook callback is shown and not tracked.
LEMMA OnHookCallbackStep ==
  ASSUME IInv, NEW q \in Requests, onHookCallback(q) PROVE IInv'
<1> USE DEF IInv, processVars, serverVars, windowVars, historyVars
<1>1. TypeOK'
  BY DEF TypeOK, OfKind, Tabs, AllKinds, Members, Joining, onHookCallback, Hear, Raise, Show
<1>2. Fresh'
  BY DEF Fresh, TypeOK, OfKind, Members, onHookCallback, Hear, Raise, Show
<1>3. Settled'
  BY DEF Fresh, Settled, TypeOK, OfKind, onHookCallback, Hear, Raise, Show
<1>4. Account'
  BY DEF Fresh, Settled, Account, HeardOf, TypeOK, OfKind, onHookCallback, Hear, Raise, Show
<1>5. Views'
  BY DEF Fresh, Settled, Account, Views, View, HeardOf, TypeOK, OfKind, Members, Joining,
     onHookCallback, Hear, Raise, Show
<1> QED
  BY <1>1, <1>2, <1>3, <1>4, <1>5

\* An MCP message is answered at once or tracked with its timer.
LEMMA OnMcpControlStep ==
  ASSUME IInv, NEW q \in Requests, onMcpControl(q) PROVE IInv'
<1> USE DEF IInv, processVars, serverVars, windowVars, historyVars
<1>1. TypeOK'
  BY DEF TypeOK, OfKind, Tabs, AllKinds, Members, Joining, onMcpControl, Hear, Raise, Respond
<1>2. Fresh'
  BY DEF Fresh, TypeOK, OfKind, Members, onMcpControl, Hear, Raise, Respond
<1>a. /\ kind[q] = "none" /\ kind' = [kind EXCEPT ![q] = "mcp_message"]
      /\ UNCHANGED <<cancelled, withdrawn, reading>>
      /\ heard' = heard \cup {<<"request", q>>}
  BY DEF onMcpControl, Hear, Raise
<1>b. \/ answers' = [answers EXCEPT ![q] = @ + 1] /\ UNCHANGED <<meta, mcpTimeouts>>
      \/ /\ mcpTimeouts' = mcpTimeouts \cup {q} /\ meta' = meta \cup {q}
         /\ UNCHANGED answers
  BY DEF onMcpControl, Respond
<1>c. answers[q] = 0 /\ q \notin meta \cup mcpTimeouts \cup reading \cup withdrawn
  BY <1>a DEF Fresh, TypeOK, OfKind
<1>d. /\ answers \in [Requests -> Nat] /\ kind \in [Requests -> Kinds \cup {"none"}]
      /\ mcpTimeouts \subseteq Requests /\ reading \subseteq Requests
  BY DEF TypeOK, OfKind
<1>3. Settled'
  <2> SUFFICES ASSUME NEW p \in Requests
               PROVE /\ answers'[p] \in {0, 1} \/ kind'[p] = "hook_callback"
                     /\ kind'[p] = "hook_callback" =>
                          p \notin (meta \cup mcpTimeouts \cup reading \cup withdrawn)'
                     /\ p \in withdrawn' => answers'[p] = 0
                     /\ p \in (meta \cup mcpTimeouts \cup reading)' =>
                          answers'[p] = 0 /\ p \notin withdrawn'
                     /\ p \in reading' => p \notin meta'
    BY DEF Settled
  <2>1. CASE p = q
    BY <2>1, <1>a, <1>b, <1>c, <1>d
  <2>2. CASE p # q
    BY <2>2, <1>a, <1>b, <1>d DEF Settled
  <2> QED
    BY <2>1, <2>2
<1>4. Account'
  <2> SUFFICES ASSUME NEW p \in Requests
               PROVE /\ <<"cancel", p>> \in heard' => p \in cancelled'
                     /\ kind'[p] = "permission" /\ HeardOf(p)' =>
                          (p \in meta' <=> p \notin cancelled' /\ answers'[p] = 0)
    BY DEF Account
  <2>1. CASE p = q
    BY <2>1, <1>a, <1>d DEF Account
  <2>2. CASE p # q
    BY <2>2, <1>a, <1>b, <1>d DEF Account, HeardOf
  <2> QED
    BY <2>1, <2>2
<1>5. Views'
  BY DEF Fresh, Settled, Account, Views, View, HeardOf, TypeOK, OfKind, Members, Joining,
     onMcpControl, Hear, Raise, Respond
<1> QED
  BY <1>1, <1>2, <1>3, <1>4, <1>5

\* An open_diff waits for its files.
LEMMA OnOpenDiffStep ==
  ASSUME IInv, NEW q \in Requests, onOpenDiff(q) PROVE IInv'
<1> USE DEF IInv, processVars, serverVars, windowVars, historyVars
<1>1. TypeOK'
  BY DEF TypeOK, OfKind, Tabs, AllKinds, Members, Joining, onOpenDiff, Hear, Raise
<1>2. Fresh'
  BY DEF Fresh, TypeOK, OfKind, Members, onOpenDiff, Hear, Raise
<1>3. Settled'
  BY DEF Fresh, Settled, TypeOK, OfKind, onOpenDiff, Hear, Raise
<1>4. Account'
  BY DEF Fresh, Settled, Account, HeardOf, TypeOK, OfKind, onOpenDiff, Hear, Raise
<1>5. Views'
  BY DEF Fresh, Settled, Account, Views, View, HeardOf, TypeOK, OfKind, Members, Joining,
     onOpenDiff, Hear, Raise
<1> QED
  BY <1>1, <1>2, <1>3, <1>4, <1>5

\* What was waiting for its files had no answer yet.
LEMMA FilesReadStep ==
  ASSUME IInv, NEW q \in Requests, FilesRead(q) PROVE IInv'
<1> USE DEF IInv, processVars, serverVars, windowVars, historyVars
<1>1. TypeOK'
  BY DEF TypeOK, OfKind, Tabs, AllKinds, Members, Joining, FilesRead
<1>2. Fresh'
  BY DEF Fresh, TypeOK, OfKind, Members, FilesRead
<1>3. Settled'
  BY DEF Fresh, Settled, TypeOK, OfKind, FilesRead
<1>4. Account'
  BY DEF Fresh, Settled, Account, HeardOf, TypeOK, OfKind, FilesRead
<1>5. Views'
  BY DEF Fresh, Settled, Account, Views, View, HeardOf, TypeOK, OfKind, Members, Joining, FilesRead
<1> QED
  BY <1>1, <1>2, <1>3, <1>4, <1>5

\* An open_diff that cannot be shown was not tracked, so nobody else answers it.
LEMMA FilesUnreadableStep ==
  ASSUME IInv, NEW q \in Requests, FilesUnreadable(q) PROVE IInv'
<1> USE DEF IInv, processVars, serverVars, windowVars, historyVars
<1>1. TypeOK'
  BY DEF TypeOK, OfKind, Tabs, AllKinds, Members, Joining, FilesUnreadable, Respond
<1>2. Fresh'
  BY DEF Fresh, TypeOK, OfKind, Members, FilesUnreadable, Respond
<1>3. Settled'
  BY DEF Fresh, Settled, TypeOK, OfKind, FilesUnreadable, Respond
<1>4. Account'
  BY DEF Fresh, Settled, Account, HeardOf, TypeOK, OfKind, FilesUnreadable, Respond
<1>5. Views'
  BY DEF Fresh, Settled, Account, Views, View, HeardOf, TypeOK, OfKind, Members, Joining,
     FilesUnreadable, Respond
<1> QED
  BY <1>1, <1>2, <1>3, <1>4, <1>5

\* A cancel takes the request out of the tracker and out of every member's prompts.
LEMMA OnCancelStep ==
  ASSUME IInv, NEW q \in Requests, onCancel(q) PROVE IInv'
<1> USE DEF IInv, processVars, serverVars, windowVars, historyVars
<1>1. TypeOK'
  BY DEF TypeOK, OfKind, Tabs, AllKinds, Members, Joining, onCancel, Dismiss
<1>2. Fresh'
  BY DEF Fresh, TypeOK, OfKind, Members, onCancel, Dismiss
<1>3. Settled'
  BY DEF Fresh, Settled, TypeOK, OfKind, onCancel, Dismiss
<1>4. Account'
  <2> SUFFICES ASSUME NEW p \in Requests
               PROVE /\ <<"cancel", p>> \in heard' => p \in cancelled'
                     /\ kind'[p] = "permission" /\ HeardOf(p)' =>
                          (p \in meta' <=> p \notin cancelled' /\ answers'[p] = 0)
    BY DEF Account
  <2>1. CASE p = q
    <3>1. p \in cancelled' /\ kind' = kind /\ answers' = answers
      BY <2>1 DEF onCancel
    <3>2. CASE bound
      BY <2>1, <3>1, <3>2 DEF onCancel
    <3>3. CASE ~bound
      BY <2>1, <3>1, <3>3 DEF onCancel, Account, HeardOf
    <3> QED
      BY <3>2, <3>3
  <2>2. CASE p # q
    BY <2>2 DEF onCancel, Account, HeardOf
  <2> QED
    BY <2>1, <2>2
<1>5. Views'
  BY DEF Fresh, Settled, Account, Views, View, HeardOf, TypeOK, OfKind, Members, Joining,
     onCancel, Dismiss
<1> QED
  BY <1>1, <1>2, <1>3, <1>4, <1>5

\* A timer that fires answers a request that had no answer.
LEMMA McpTimeoutStep ==
  ASSUME IInv, NEW q \in Requests, McpTimeout(q) PROVE IInv'
<1> USE DEF IInv, processVars, serverVars, windowVars, historyVars
<1>1. TypeOK'
  BY DEF TypeOK, OfKind, Tabs, AllKinds, Members, Joining, McpTimeout, Respond
<1>2. Fresh'
  BY DEF Fresh, TypeOK, OfKind, Members, McpTimeout, Respond
<1>3. Settled'
  BY DEF Fresh, Settled, TypeOK, OfKind, McpTimeout, Respond
<1>4. Account'
  BY DEF Fresh, Settled, Account, HeardOf, TypeOK, OfKind, McpTimeout, Respond
<1>5. Views'
  BY DEF Fresh, Settled, Account, Views, View, HeardOf, TypeOK, OfKind, Members, Joining,
     McpTimeout, Respond
<1> QED
  BY <1>1, <1>2, <1>3, <1>4, <1>5

\* A decision only moves a prompt from what a window shows to what it has sent.
LEMMA DecideStep ==
  ASSUME IInv, NEW w \in Windows, NEW q \in Requests, Decide(w, q) PROVE IInv'
<1> USE DEF IInv, processVars, serverVars, windowVars, historyVars
<1>1. TypeOK'
  BY DEF TypeOK, OfKind, Tabs, AllKinds, Members, Joining, Decide
<1>a. /\ UNCHANGED <<kind, cancelled, answers, bound, meta, mcpTimeouts, reading, tab,
                     heard, withdrawn, stale>>
      /\ tab[w] # "closed"
      /\ inFlight' = inFlight \cup {<<w, q>>}
  BY DEF Decide
<1>b. \/ /\ q \in controls[w]
         /\ controls' = [controls EXCEPT ![w] = @ \ {q}]
         /\ UNCHANGED elicitation
      \/ /\ q = elicitation[w] /\ kind[q] = "elicitation"
         /\ elicitation' = [elicitation EXCEPT ![w] = NoRequest]
         /\ UNCHANGED controls
  BY ConstantsAssumption DEF ConstantsAssumption, Decide, TypeOK, OfKind
<1>c. kind[q] # "none"
  BY <1>b DEF TypeOK, OfKind
<1>2. Fresh'
  BY <1>a, <1>c DEF Fresh
<1>3. Settled'
  BY <1>a DEF Settled
<1>4. Account'
  BY <1>a DEF Account, HeardOf
<1>5. Views'
  <2> SUFFICES ASSUME NEW v \in Windows PROVE View(v)'
    BY DEF Views
  <2>1. CASE v # w
    BY <1>a, <1>b, <2>1 DEF Views, View, HeardOf, TypeOK
  <2>2. CASE v = w
    <3>1. tab[w] \in {"closed", "joining"} => w \in stale
      BY <1>b, ConstantsAssumption DEF ConstantsAssumption, Views, View
    <3>2. ASSUME NEW p \in Requests, tab[w] \in {"replayed", "in"}, w \notin stale,
                 kind[p] = "permission", HeardOf(p)
          PROVE p \in controls'[w] <=> p \in meta /\ <<w, p>> \notin inFlight'
      BY <1>a, <1>b, <3>2 DEF Views, View, TypeOK
    <3>3. \A p \in Requests : HeardOf(p)' <=> HeardOf(p)
      BY <1>a DEF HeardOf
    <3> QED
      BY <1>a, <2>2, <3>1, <3>2, <3>3 DEF Views, View
  <2> QED
    BY <2>1, <2>2
<1> QED
  BY <1>1, <1>2, <1>3, <1>4, <1>5

\* chat:hook_respond answers a request that nobody tracks.
LEMMA HandleHookRespondStep ==
  ASSUME IInv, NEW w \in Windows, NEW q \in Requests, HandleHookRespond(w, q) PROVE IInv'
<1> USE DEF IInv
<1>a. /\ kind[q] = "hook_callback" /\ tab[w] # "away"
      /\ inFlight' = inFlight \ {<<w, q>>} /\ <<w, q>> \in inFlight
      /\ answers' = [answers EXCEPT ![q] = @ + 1]
      /\ UNCHANGED <<kind, cancelled, bound, meta, mcpTimeouts, reading, tab, controls,
                     elicitation, heard, withdrawn, stale>>
  BY DEF HandleHookRespond, Respond, serverVars, historyVars
<1>1. TypeOK'
  BY <1>a DEF TypeOK, OfKind, Tabs
<1>2. Fresh'
  BY <1>a DEF Fresh, TypeOK
<1>3. Settled'
  BY <1>a DEF Settled, TypeOK
<1>4. Account'
  BY <1>a DEF Account, HeardOf, TypeOK
<1>5. Views'
  BY <1>a DEF Views, View, HeardOf
<1> QED
  BY <1>1, <1>2, <1>3, <1>4, <1>5

\* A decision that arrives answers a tracked request, or nothing.
LEMMA HandleRespondStep ==
  ASSUME IInv, NEW w \in Windows, NEW q \in Requests, HandleRespond(w, q) PROVE IInv'
<1> USE DEF IInv, processVars, serverVars, windowVars, historyVars
<1>1. TypeOK'
  BY DEF TypeOK, OfKind, Tabs, AllKinds, Members, Joining, HandleRespond, RespondAndDismiss,
     Respond, Dismiss
<1>2. Fresh'
  BY DEF Fresh, TypeOK, OfKind, Members, HandleRespond, RespondAndDismiss, Respond, Dismiss
<1>3. Settled'
  BY DEF Fresh, Settled, TypeOK, OfKind, HandleRespond, RespondAndDismiss, Respond, Dismiss
<1>4. Account'
  <2> SUFFICES ASSUME NEW p \in Requests
               PROVE /\ <<"cancel", p>> \in heard' => p \in cancelled'
                     /\ kind'[p] = "permission" /\ HeardOf(p)' =>
                          (p \in meta' <=> p \notin cancelled' /\ answers'[p] = 0)
    BY DEF Account
  <2>1. /\ UNCHANGED <<kind, cancelled, heard>>
        /\ \/ /\ q \in meta /\ meta' = meta \ {q}
              /\ answers' = [answers EXCEPT ![q] = @ + 1]
           \/ UNCHANGED <<meta, answers>>
    BY DEF HandleRespond, RespondAndDismiss, Respond
  <2>2. HeardOf(p)' <=> HeardOf(p)
    BY <2>1 DEF HeardOf
  <2>3. CASE p = q /\ q \in meta /\ meta' = meta \ {q}
                   /\ answers' = [answers EXCEPT ![q] = @ + 1]
    <3>1. answers'[p] = 1
      BY <2>3 DEF Settled, TypeOK
    <3> QED
      BY <2>1, <2>3, <3>1 DEF Account
  <2>4. CASE p # q \/ UNCHANGED <<meta, answers>>
    BY <2>1, <2>2, <2>4 DEF Account, TypeOK
  <2> QED
    BY <2>1, <2>3, <2>4
<1>5. Views'
  BY DEF Fresh, Settled, Account, Views, View, HeardOf, TypeOK, OfKind, Members, Joining,
     HandleRespond, RespondAndDismiss, Respond, Dismiss
<1> QED
  BY <1>1, <1>2, <1>3, <1>4, <1>5

\* So does a refusal; what a window shows has no timer.
LEMMA HandleCancelRequestStep ==
  ASSUME IInv, NEW w \in Windows, NEW q \in Requests, HandleCancelRequest(w, q) PROVE IInv'
<1> USE DEF IInv, processVars, serverVars, windowVars, historyVars
<1>1. TypeOK'
  BY DEF TypeOK, OfKind, Tabs, AllKinds, Members, Joining, HandleCancelRequest,
     RespondAndDismiss, Respond, Dismiss
<1>2. Fresh'
  BY DEF Fresh, TypeOK, OfKind, Members, HandleCancelRequest, RespondAndDismiss, Respond, Dismiss
<1>3. Settled'
  BY DEF Fresh, Settled, TypeOK, OfKind, HandleCancelRequest, RespondAndDismiss, Respond, Dismiss
<1>4. Account'
  <2> SUFFICES ASSUME NEW p \in Requests
               PROVE /\ <<"cancel", p>> \in heard' => p \in cancelled'
                     /\ kind'[p] = "permission" /\ HeardOf(p)' =>
                          (p \in meta' <=> p \notin cancelled' /\ answers'[p] = 0)
    BY DEF Account
  <2>1. /\ UNCHANGED <<kind, cancelled, heard>>
        /\ \/ /\ q \in meta /\ meta' = meta \ {q}
              /\ answers' = [answers EXCEPT ![q] = @ + 1]
           \/ UNCHANGED <<meta, answers>>
    BY DEF HandleCancelRequest, RespondAndDismiss, Respond
  <2>2. HeardOf(p)' <=> HeardOf(p)
    BY <2>1 DEF HeardOf
  <2>3. CASE p = q /\ q \in meta /\ meta' = meta \ {q}
                   /\ answers' = [answers EXCEPT ![q] = @ + 1]
    <3>1. answers'[p] = 1
      BY <2>3 DEF Settled, TypeOK
    <3> QED
      BY <2>1, <2>3, <3>1 DEF Account
  <2>4. CASE p # q \/ UNCHANGED <<meta, answers>>
    BY <2>1, <2>2, <2>4 DEF Account, TypeOK
  <2> QED
    BY <2>1, <2>3, <2>4
<1>5. Views'
  BY DEF Fresh, Settled, Account, Views, View, HeardOf, TypeOK, OfKind, Members, Joining,
     HandleCancelRequest, RespondAndDismiss, Respond, Dismiss
<1> QED
  BY <1>1, <1>2, <1>3, <1>4, <1>5

\* A window that loses its connection counts as stale.
LEMMA DropStep ==
  ASSUME IInv, NEW w \in Windows, Drop(w) PROVE IInv'
<1> USE DEF IInv, processVars, serverVars, windowVars, historyVars
<1>1. TypeOK'
  BY DEF TypeOK, OfKind, Tabs, AllKinds, Members, Joining, Drop, RemoveSocketFromAll
<1>2. Fresh'
  BY DEF Fresh, TypeOK, OfKind, Members, Drop, RemoveSocketFromAll
<1>3. Settled'
  BY DEF Fresh, Settled, TypeOK, OfKind, Drop, RemoveSocketFromAll
<1>4. Account'
  BY DEF Fresh, Settled, Account, HeardOf, TypeOK, OfKind, Drop, RemoveSocketFromAll
<1>5. Views'
  BY DEF Fresh, Settled, Account, Views, View, HeardOf, TypeOK, OfKind, Members, Joining, Drop,
     RemoveSocketFromAll
<1> QED
  BY <1>1, <1>2, <1>3, <1>4, <1>5

\* ... and stays so when it comes back.
LEMMA ReturnStep ==
  ASSUME IInv, NEW w \in Windows, Return(w) PROVE IInv'
<1> USE DEF IInv, processVars, serverVars, windowVars, historyVars
<1>1. TypeOK'
  BY DEF TypeOK, OfKind, Tabs, AllKinds, Members, Joining, Return
<1>2. Fresh'
  BY DEF Fresh, TypeOK, OfKind, Members, Return
<1>3. Settled'
  BY DEF Fresh, Settled, TypeOK, OfKind, Return
<1>4. Account'
  BY DEF Fresh, Settled, Account, HeardOf, TypeOK, OfKind, Return
<1>5. Views'
  BY DEF Fresh, Settled, Account, Views, View, HeardOf, TypeOK, OfKind, Members, Joining, Return
<1> QED
  BY <1>1, <1>2, <1>3, <1>4, <1>5

\* A closed window knows nothing.
LEMMA CloseStep ==
  ASSUME IInv, NEW w \in Windows, Close(w) PROVE IInv'
<1> USE DEF IInv, processVars, serverVars, windowVars, historyVars
<1>1. TypeOK'
  BY DEF TypeOK, OfKind, Tabs, AllKinds, Members, Joining, Close, RemoveSocketFromAll
<1>2. Fresh'
  BY DEF Fresh, TypeOK, OfKind, Members, Close, RemoveSocketFromAll
<1>3. Settled'
  BY DEF Fresh, Settled, TypeOK, OfKind, Close, RemoveSocketFromAll
<1>4. Account'
  BY DEF Fresh, Settled, Account, HeardOf, TypeOK, OfKind, Close, RemoveSocketFromAll
<1>5. Views'
  BY DEF Fresh, Settled, Account, Views, View, HeardOf, TypeOK, OfKind, Members, Joining,
     Close, RemoveSocketFromAll
<1> QED
  BY <1>1, <1>2, <1>3, <1>4, <1>5

\* A join starts from a window that knows nothing, or a stale one.
LEMMA JoinStartStep ==
  ASSUME IInv, NEW w \in Windows, JoinStart(w) PROVE IInv'
<1> USE DEF IInv, processVars, serverVars, windowVars, historyVars
<1>1. TypeOK'
  BY DEF TypeOK, OfKind, Tabs, AllKinds, Members, Joining, JoinStart
<1>2. Fresh'
  BY DEF Fresh, TypeOK, OfKind, Members, JoinStart
<1>3. Settled'
  BY DEF Fresh, Settled, TypeOK, OfKind, JoinStart
<1>4. Account'
  BY DEF Fresh, Settled, Account, HeardOf, TypeOK, OfKind, JoinStart
<1>5. Views'
  BY DEF Fresh, Settled, Account, Views, View, HeardOf, TypeOK, OfKind, Members, Joining, JoinStart
<1> QED
  BY <1>1, <1>2, <1>3, <1>4, <1>5

\* What the store calls pending is what the tracker holds (Account), so a window that
\* has read all of it shows what it should.
LEMMA JoinReplayStep ==
  ASSUME IInv, NEW w \in Windows, JoinReplay(w) PROVE IInv'
<1> USE DEF IInv, processVars, serverVars, windowVars, historyVars
<1>a. PICK late \in SUBSET Written :
        /\ tab[w] = "joining"
        /\ tab' = [tab EXCEPT ![w] = "replayed"]
        /\ controls' = [controls EXCEPT ![w] =
                          @ \cup Replayed("permission", Written \ late)]
        /\ \E q \in IF Replayed("elicitation", Written \ late) = {} THEN {elicitation[w]}
                    ELSE Replayed("elicitation", Written \ late) :
             elicitation' = [elicitation EXCEPT ![w] = q]
        /\ stale' = IF late = {} THEN stale ELSE stale \cup {w}
        /\ UNCHANGED <<processVars, serverVars, inFlight, heard, withdrawn>>
  BY DEF JoinReplay
<1>b. \A k : Replayed(k, Written \ late) \subseteq OfKind(k, Requests)
  BY DEF Replayed, Pending, OfKind
<1>1. TypeOK'
  <2>1. controls' \in [Windows -> SUBSET (OfKind("permission", Requests)
                                          \cup OfKind("hook_callback", Requests))]
    BY <1>a, <1>b DEF TypeOK
  <2>2. elicitation' \in [Windows -> OfKind("elicitation", Requests) \cup {NoRequest}]
    <3>1. PICK q \in OfKind("elicitation", Requests) \cup {NoRequest} :
                 elicitation' = [elicitation EXCEPT ![w] = q]
      BY <1>a, <1>b DEF TypeOK
    <3> QED
      BY <3>1 DEF TypeOK
  <2>3. tab' \in [Windows -> Tabs] /\ stale' \subseteq Windows
    BY <1>a DEF TypeOK, Tabs
  <2> QED
    BY <1>a, <2>1, <2>2, <2>3 DEF TypeOK, OfKind
<1>2. Fresh'
  BY <1>a DEF Fresh
<1>3. Settled'
  BY <1>a DEF Settled
<1>c. \A p \in Requests : HeardOf(p)' <=> HeardOf(p)
  BY <1>a DEF HeardOf
<1>4. Account'
  BY <1>a, <1>c DEF Account
<1>5. Views'
  <2> SUFFICES ASSUME NEW v \in Windows PROVE View(v)'
    BY DEF Views
  <2>1. CASE v # w
    <3>1. /\ tab'[v] = tab[v] /\ controls'[v] = controls[v]
          /\ elicitation'[v] = elicitation[v] /\ (v \in stale' <=> v \in stale)
      BY <1>a, <2>1 DEF TypeOK
    <3> QED
      BY <1>a, <1>c, <3>1 DEF Views, View
  <2>2. CASE v = w
    <3>1. tab'[w] = "replayed"
      BY <1>a DEF TypeOK
    <3>2. ASSUME NEW p \in Requests, w \notin stale', kind[p] = "permission", HeardOf(p)
          PROVE p \in controls'[w] <=> p \in meta /\ <<w, p>> \notin inFlight
      <4>1. late = {} /\ w \notin stale
        BY <1>a, <3>2
      <4>2. controls[w] = {} /\ <<w, p>> \notin inFlight
        BY <1>a, <4>1 DEF Views, View
      <4>3. controls'[w] = Replayed("permission", Written)
        BY <1>a, <4>1, <4>2 DEF TypeOK
      <4>4. p \in Replayed("permission", Written) <=> p \notin cancelled /\ answers[p] = 0
        <5>1. Prompt(p)
          BY <3>2 DEF Prompt
        <5>2. <<"request", p>> \in Written
          BY <5>1 DEF Written
        <5>3. <<"cancel", p>> \in Written <=> p \in cancelled
          BY <5>1 DEF Written
        <5>4. <<"answer", p>> \in Written <=> answers[p] > 0
          BY <5>1 DEF Written
        <5>5. answers[p] > 0 <=> answers[p] # 0
          BY DEF TypeOK
        <5> HIDE DEF IInv
        <5> QED
          BY <3>2, <5>2, <5>3, <5>4, <5>5 DEF Replayed, OfKind, Pending
      <4>5. p \in meta <=> p \notin cancelled /\ answers[p] = 0
        BY <3>2 DEF Account
      <4> QED
        BY <4>2, <4>3, <4>4, <4>5
    <3> QED
      BY <1>a, <1>c, <2>2, <3>1, <3>2 DEF View
  <2> QED
    BY <2>1, <2>2
<1> QED
  BY <1>1, <1>2, <1>3, <1>4, <1>5

\* Nothing has changed since the replay, or the window is stale.
LEMMA JoinEndStep ==
  ASSUME IInv, NEW w \in Windows, JoinEnd(w) PROVE IInv'
<1> USE DEF IInv, processVars, serverVars, windowVars, historyVars
<1>1. TypeOK'
  BY DEF TypeOK, OfKind, Tabs, AllKinds, Members, Joining, JoinEnd
<1>2. Fresh'
  BY DEF Fresh, TypeOK, OfKind, Members, JoinEnd
<1>3. Settled'
  BY DEF Fresh, Settled, TypeOK, OfKind, JoinEnd
<1>4. Account'
  BY DEF Fresh, Settled, Account, HeardOf, TypeOK, OfKind, JoinEnd
<1>5. Views'
  BY DEF Fresh, Settled, Account, Views, View, HeardOf, TypeOK, OfKind, Members, Joining, JoinEnd
<1> QED
  BY <1>1, <1>2, <1>3, <1>4, <1>5

\* The window that launched the session has nothing to show.
LEMMA InitInvariant == Init => IInv
<1> SUFFICES ASSUME Init PROVE IInv
  OBVIOUS
<1>1. TypeOK
  BY DEF Init, TypeOK, Tabs, OfKind
<1>2. Fresh /\ Settled /\ Account
  BY DEF Init, Fresh, Settled, Account, HeardOf
<1>3. Views
  BY DEF Init, Views, View, HeardOf
<1> QED
  BY <1>1, <1>2, <1>3 DEF IInv

\* Every step keeps the invariant.
LEMMA NextInvariant == IInv /\ [Next]_vars => IInv'
<1> SUFFICES ASSUME IInv, [Next]_vars PROVE IInv'
  OBVIOUS
<1>1. CASE UNCHANGED vars
  <2>1. UNCHANGED <<kind, cancelled, answers, bound, meta, mcpTimeouts, reading, tab,
                    controls, elicitation, inFlight, heard, withdrawn, stale>>
    BY <1>1 DEF vars, processVars, serverVars, windowVars, historyVars
  <2> QED
    BY <2>1 DEF IInv, TypeOK, OfKind, Fresh, Settled, Account, HeardOf, Views, View
<1>2. ASSUME NEW q \in Requests,
             \/ Unheard(q) \/ onPermission(q) \/ onElicitation(q)
             \/ onHookCallback(q) \/ onMcpControl(q) \/ onOpenDiff(q)
             \/ FilesRead(q) \/ FilesUnreadable(q) \/ onCancel(q)
             \/ McpTimeout(q)
      PROVE IInv'
  BY <1>2, UnheardStep, OnPermissionStep, OnElicitationStep, OnHookCallbackStep,
     OnMcpControlStep, OnOpenDiffStep, FilesReadStep, FilesUnreadableStep,
     OnCancelStep, McpTimeoutStep
<1>3. ASSUME NEW q \in Requests, NEW w \in Windows,
             \/ Decide(w, q) \/ HandleRespond(w, q)
             \/ HandleHookRespond(w, q) \/ HandleCancelRequest(w, q)
      PROVE IInv'
  BY <1>3, DecideStep, HandleRespondStep, HandleHookRespondStep, HandleCancelRequestStep
<1>4. ASSUME NEW w \in Windows,
             \/ Drop(w) \/ Return(w) \/ Close(w)
             \/ JoinStart(w) \/ JoinReplay(w) \/ JoinEnd(w)
      PROVE IInv'
  BY <1>4, DropStep, ReturnStep, CloseStep, JoinStartStep, JoinReplayStep, JoinEndStep
<1> QED
  BY <1>1, <1>2, <1>3, <1>4 DEF Next

\* The invariant holds of every reachable state.
THEOREM Invariance == Spec => []IInv
BY InitInvariant, NextInvariant, PTL DEF Spec

\* Every variable keeps its type; so a window never shows a prompt of the wrong
\* sort.
THEOREM TypeCorrect == Spec => []TypeOK
<1>1. IInv => TypeOK
  BY DEF IInv
<1> QED
  BY Invariance, <1>1, PTL

\* A window that missed nothing shows exactly the permission requests that can
\* still be answered, but those it has just decided: the replay from the store and
\* the tracker agree, for any number of requests and windows.
THEOREM ReplayMatchesTracker == Spec => []ReplayAgrees
<1>1. IInv => ReplayAgrees
  BY DEF IInv, Views, View, ReplayAgrees, Members
<1> QED
  BY Invariance, <1>1, PTL

-----------------------------------------------------------------------------
(* ControlRequests implements ControlContract *)

\* status depends on three variables only.
LEMMA SameStatus ==
  ASSUME UNCHANGED <<kind, answers, withdrawn>> PROVE UNCHANGED status
BY DEF status

\* A step that concerns one request moves the status of that one.
LEMMA OneMoves ==
  ASSUME NEW q \in Requests,
         \A p \in Requests \ {q} : /\ kind'[p] = kind[p] /\ answers'[p] = answers[p]
                                   /\ p \in withdrawn' <=> p \in withdrawn
  PROVE status' = [status EXCEPT ![q] = status'[q]]
<1>1. \A p \in Requests \ {q} : status'[p] = status[p]
  BY DEF status
<1>2. DOMAIN status = Requests /\ status = [p \in DOMAIN status |-> status[p]]
  BY DEF status
<1>3. DOMAIN status' = Requests /\ status' = [p \in DOMAIN status' |-> status'[p]]
  BY DEF status
<1>4. status' = [p \in Requests |-> IF p = q THEN status'[q] ELSE status[p]]
  BY <1>1, <1>3
<1> QED
  BY <1>2, <1>4

\* The status of a request not raised.
LEMMA UnsentStatus ==
  ASSUME NEW q \in Requests, kind[q] = "none" PROVE status[q] = "unsent"
BY DEF status

\* The status of a request without an answer.
LEMMA OpenStatus ==
  ASSUME NEW q \in Requests, kind[q] # "none", answers[q] = 0, q \notin withdrawn
  PROVE status[q] = "open"
BY DEF status

\* Raising a request opens it.
LEMMA RaiseMoves ==
  ASSUME IInv, NEW q \in Requests, NEW k \in Kinds, Raise(q, k), UNCHANGED answers
  PROVE Contract!Raise(q)
<1>1. /\ kind[q] = "none" /\ kind' = [kind EXCEPT ![q] = k] /\ k # "none"
      /\ UNCHANGED <<answers, withdrawn>>
  BY ConstantsAssumption DEF Raise, ConstantsAssumption, AllKinds
<1>2. answers[q] = 0 /\ q \notin withdrawn
  BY <1>1 DEF IInv, Fresh
<1>3. status[q] = "unsent"
  BY <1>1, UnsentStatus
<1>4. status'[q] = "open"
  BY <1>1, <1>2 DEF status, IInv, TypeOK
<1>5. status' = [status EXCEPT ![q] = "open"]
  <2>1. status' = [status EXCEPT ![q] = status'[q]]
    BY <1>1, OneMoves DEF IInv, TypeOK
  <2> QED
    BY <2>1, <1>4
<1> QED
  BY <1>3, <1>5 DEF Contract!Raise, Contract!Move

\* A request is answered: unsent and refused on the spot, or open.
LEMMA AnswerMoves ==
  ASSUME IInv, NEW q \in Requests, kind'[q] # "none",
         answers[q] = 0, q \notin withdrawn,
         answers' = [answers EXCEPT ![q] = @ + 1], UNCHANGED withdrawn,
         \A p \in Requests \ {q} : kind'[p] = kind[p]
  PROVE Contract!Answer(q)
<1>1. status[q] \in {"unsent", "open"}
  BY UnsentStatus, OpenStatus
<1>2. answers'[q] = 1
  BY DEF IInv, TypeOK
<1>3. status'[q] = "answered"
  BY <1>2 DEF status
<1>4. status' = [status EXCEPT ![q] = "answered"]
  <2>1. status' = [status EXCEPT ![q] = status'[q]]
    BY OneMoves DEF IInv, TypeOK
  <2> QED
    BY <2>1, <1>3
<1> QED
  BY <1>1, <1>4 DEF Contract!Answer, Contract!Move

\* A cancel withdraws a tracked request, or leaves its status alone.
LEMMA CancelMoves ==
  ASSUME IInv, NEW q \in Requests, onCancel(q)
  PROVE Contract!Withdraw(q) \/ UNCHANGED status
<1>1. CASE q \in withdrawn' /\ q \notin withdrawn
  <2>1. q \in meta /\ kind[q] # "none" /\ UNCHANGED <<kind, answers>>
        /\ withdrawn' = withdrawn \cup {q}
    BY <1>1 DEF onCancel
  <2>2. answers[q] = 0
    BY <2>1 DEF IInv, Settled
  <2>3. status[q] = "open"
    BY <1>1, <2>1, <2>2, OpenStatus
  <2>4. status'[q] = "withdrawn"
    BY <2>1, <2>2 DEF status
  <2>5. status' = [status EXCEPT ![q] = status'[q]]
    BY <2>1, OneMoves
  <2> QED
    BY <2>3, <2>4, <2>5 DEF Contract!Withdraw, Contract!Move
<1>2. CASE ~(q \in withdrawn' /\ q \notin withdrawn)
  <2>1. UNCHANGED <<kind, answers, withdrawn>>
    BY <1>2 DEF onCancel
  <2> QED
    BY <2>1, SameStatus
<1> QED
  BY <1>1, <1>2

\* The first answer to a hook callback is an answer, another one changes nothing that
\* the contract speaks of.
LEMMA HookRespondMoves ==
  ASSUME IInv, NEW q \in Requests, NEW w \in Windows, HandleHookRespond(w, q)
  PROVE Contract!Answer(q) \/ UNCHANGED status
<1>1. /\ UNCHANGED <<kind, withdrawn>> /\ answers' = [answers EXCEPT ![q] = @ + 1]
      /\ kind[q] = "hook_callback" /\ q \notin withdrawn
  BY DEF HandleHookRespond, Respond, historyVars, IInv, Settled
<1>2. CASE answers[q] = 0
  BY <1>1, <1>2, AnswerMoves
<1>3. CASE answers[q] # 0
  <2>1. answers'[q] # 0
    BY <1>1 DEF IInv, TypeOK
  <2>2. status[q] = "answered" /\ status'[q] = "answered"
    BY <1>1, <1>3, <2>1 DEF status
  <2>3. status' = [status EXCEPT ![q] = status'[q]]
    BY <1>1, OneMoves DEF IInv, TypeOK
  <2>4. status = [p \in DOMAIN status |-> status[p]]
    BY DEF status
  <2> QED
    BY <2>2, <2>3, <2>4
<1> QED
  BY <1>2, <1>3

\* Every step is one of the contract or leaves status alone.
LEMMA StepKeepsContract == IInv /\ [Next]_vars => [Contract!Next]_status
<1> SUFFICES ASSUME IInv, [Next]_vars PROVE Contract!Next \/ UNCHANGED status
  OBVIOUS
<1> USE DEF processVars, serverVars, windowVars, historyVars
<1>1. CASE UNCHANGED vars
  BY <1>1, SameStatus DEF vars
<1>2. ASSUME NEW q \in Requests,
             \/ Unheard(q) \/ onPermission(q) \/ onElicitation(q)
             \/ onHookCallback(q) \/ onOpenDiff(q)
      PROVE Contract!Next
  <2>1. PICK k \in Kinds : Raise(q, k) /\ UNCHANGED answers
    BY <1>2 DEF Unheard, onPermission, onElicitation, onHookCallback, onOpenDiff, Hear, Raise
  <2> QED
    BY <2>1, RaiseMoves DEF Contract!Next
<1>3. ASSUME NEW q \in Requests, onMcpControl(q) PROVE Contract!Next
  <2>1. Raise(q, "mcp_message") /\ "mcp_message" \in Kinds
    BY <1>3 DEF onMcpControl, Hear, Raise
  <2>2. CASE UNCHANGED answers
    BY <2>1, <2>2, RaiseMoves DEF Contract!Next
  <2>3. CASE answers' = [answers EXCEPT ![q] = @ + 1]
    <3>1. answers[q] = 0 /\ q \notin withdrawn /\ UNCHANGED withdrawn
      BY <2>1 DEF Raise, IInv, Fresh
    <3>2. kind'[q] # "none" /\ \A p \in Requests \ {q} : kind'[p] = kind[p]
      BY <2>1 DEF Raise, IInv, TypeOK
    <3> QED
      BY <2>3, <3>1, <3>2, AnswerMoves DEF Contract!Next
  <2> QED
    BY <1>3, <2>2, <2>3 DEF onMcpControl, Respond
<1>4. ASSUME NEW q \in Requests, FilesUnreadable(q) \/ McpTimeout(q) PROVE Contract!Next
  <2>1. /\ UNCHANGED <<kind, withdrawn>> /\ answers' = [answers EXCEPT ![q] = @ + 1]
        /\ q \in reading \cup mcpTimeouts
    BY <1>4 DEF FilesUnreadable, McpTimeout, Respond
  <2>2. kind[q] # "none" /\ answers[q] = 0 /\ q \notin withdrawn
    BY <2>1 DEF IInv, TypeOK, OfKind, Settled
  <2> QED
    BY <2>1, <2>2, AnswerMoves DEF Contract!Next
<1>5. ASSUME NEW q \in Requests, RespondAndDismiss(q) PROVE Contract!Next
  <2>1. /\ UNCHANGED <<kind, withdrawn>> /\ answers' = [answers EXCEPT ![q] = @ + 1]
        /\ q \in meta
    BY <1>5 DEF RespondAndDismiss, Respond
  <2>2. kind[q] # "none" /\ answers[q] = 0 /\ q \notin withdrawn
    BY <2>1 DEF IInv, Fresh, Settled
  <2> QED
    BY <2>1, <2>2, AnswerMoves DEF Contract!Next
<1>6. ASSUME NEW q \in Requests, onCancel(q) PROVE Contract!Next \/ UNCHANGED status
  BY <1>6, CancelMoves DEF Contract!Next
<1>7. ASSUME NEW q \in Requests, NEW w \in Windows,
             Decide(w, q) \/ HandleRespond(w, q) \/ HandleCancelRequest(w, q)
      PROVE Contract!Next \/ UNCHANGED status
  <2>1. RespondAndDismiss(q) \/ UNCHANGED <<kind, answers, withdrawn>>
    BY <1>7 DEF Decide, HandleRespond, HandleCancelRequest
  <2> QED
    BY <2>1, <1>5, SameStatus
<1>8. ASSUME NEW w \in Windows,
             \/ Drop(w) \/ Return(w) \/ Close(w)
             \/ JoinStart(w) \/ JoinReplay(w) \/ JoinEnd(w)
      PROVE UNCHANGED status
  <2>1. UNCHANGED <<kind, answers, withdrawn>>
    BY <1>8 DEF Drop, Return, Close, JoinStart, JoinReplay, JoinEnd
  <2> QED
    BY <2>1, SameStatus
<1>9. ASSUME NEW q \in Requests, FilesRead(q) PROVE UNCHANGED status
  BY <1>9, SameStatus DEF FilesRead
<1>10. ASSUME NEW q \in Requests, NEW w \in Windows, HandleHookRespond(w, q)
       PROVE Contract!Next \/ UNCHANGED status
  BY <1>10, HookRespondMoves DEF Contract!Next
<1> QED
  BY <1>1, <1>2, <1>3, <1>4, <1>6, <1>7, <1>8, <1>9, <1>10 DEF Next

\* A request is answered at most once, and not after the server has taken note that
\* the process withdrew it, whatever the windows, the timers and the joins do; a hook
\* callback may be answered by several windows.
THEOREM ImplementsContract == Spec => KeepsContract
<1>1. Init => Contract!Init
  BY DEF Init, Contract!Init, status
<1> QED
  BY <1>1, Invariance, StepKeepsContract, PTL DEF Spec, KeepsContract, Contract!Spec
=============================================================================
