---------------------------- MODULE SessionProofs ----------------------------
(***************************************************************************)
(* Proofs about AgentSessions, for any sets of identities, subagents and   *)
(* reset times and for either provider.                                    *)
(*                                                                         *)
(* The four safety properties are proved together from one inductive       *)
(* invariant.  What it adds to them: subagents are known only to a session *)
(* that heard a plugin event, and such a session has a listener and an     *)
(* identity; so the first event of a session without a listener finds no   *)
(* subagents.  Nor does a session that never heard one stop at a limit.    *)
(***************************************************************************)
EXTENDS AgentSessions, TLAPS

\* What holds of a session s while the interrupt guess about it is g.
SessionOK(s, g) ==
  /\ s \in Sessions
  /\ s.deferred => s.subs # {}
  /\ s.stop.limit => s.status = "done" \/ (s.deferred /\ s.status = "working")
  /\ s.status = "done" /\ s.subs # {} => g # "none"
  /\ g = "fresh" => s.interrupted
  /\ s.rich => s.listener /\ s.id # NoId
  /\ ~s.rich => s.subs = {} /\ ~s.stop.limit

\* The inductive invariant.
SessionInv ==
  /\ SessionTypeOK
  /\ sess = NoSession => guess = "none"
  /\ sess # NoSession => SessionOK(sess, guess)

\* Concatenations of event lists are event lists.
LEMMA EventLists ==
  /\ <<>> \in Seq(EventNames)
  /\ \A x \in EventNames : <<x>> \in Seq(EventNames)
  /\ \A e, f \in Seq(EventNames) : e \o f \in Seq(EventNames)
<1>1. \A e, f \in Seq(EventNames) : e \o f \in Seq(EventNames)
  OBVIOUS
<1> QED BY <1>1

\* Requesting the prompt history changes nothing that the invariant speaks of.
LEMMA LoadKeeps ==
  ASSUME NEW s, NEW g, SessionOK(s, g)
  PROVE  SessionOK(Load(s), g) /\ LoadEvents(s) \in Seq(EventNames)
<1>1. SessionOK([s EXCEPT !.loaded = TRUE], g)
  BY DEF SessionOK, Sessions
<1>2. <<"updated">> \in Seq(EventNames) /\ <<>> \in Seq(EventNames)
  BY EventLists DEF EventNames
<1> QED BY <1>1, <1>2 DEF Load, LoadEvents

\* A new session is in order.
LEMMA FreshOK ==
  ASSUME SessionTypeOK, NEW id \in Ids \cup {NoId}
  PROVE  SessionOK(Fresh(id), "none")
<1>1. NoStop \in Stops
  BY DEF NoStop, Stops
<1>2. Fresh(id) \in Sessions
  BY <1>1 DEF Fresh, Sessions, Statuses
<1> QED BY <1>2 DEF SessionOK, Fresh, NoStop

\* Forgetting what belongs to another identity keeps a session in order.
LEMMA ResetKeeps ==
  ASSUME NEW s, NEW g, SessionOK(s, g), NEW id \in Ids
  PROVE  /\ SessionOK([Reset(s) EXCEPT !.id = id], g)
         /\ SessionOK([Reset(s) EXCEPT !.status = "working", !.id = id], g)
         /\ SessionOK(Seeded(s, id), g)
         /\ Reset(s).rich = s.rich
<1>1. NoStop \in Stops /\ ~NoStop.limit
  BY DEF NoStop, Stops
<1>2. Reset(s) \in Sessions
  BY <1>1 DEF Reset, SessionOK, Sessions
<1>3. /\ [Reset(s) EXCEPT !.id = id] \in Sessions
      /\ [Reset(s) EXCEPT !.status = "working", !.id = id] \in Sessions
  BY <1>2 DEF Sessions, Statuses
<1>i. id # NoId
  BY SessionAssumption
<1>4. SessionOK([Reset(s) EXCEPT !.id = id], g)
  BY <1>1, <1>3, <1>i DEF Reset, SessionOK, Sessions
<1>5. SessionOK([Reset(s) EXCEPT !.status = "working", !.id = id], g)
  BY <1>1, <1>3, <1>i DEF Reset, SessionOK, Sessions
<1> QED BY <1>4, <1>5 DEF Seeded, Reset, SessionOK, Sessions

\* The guess as an event finds it: a session without a listener has none.
Unsettled == IF Registers THEN "none" ELSE guess

\* A session as an event finds it is in order, and has a listener and a plugin.
LEMMA HeardOK ==
  ASSUME SessionInv, NEW id \in Ids, NEW plugin \in BOOLEAN
  PROVE  /\ SessionOK(Heard(id, plugin), Unsettled)
         /\ Heard(id, plugin).rich /\ Heard(id, plugin).listener
         /\ RegistrationEvents(id, plugin) \in Seq(EventNames)
<1> DEFINE r == Registered(id, plugin)
<1>1. SessionOK(r, Unsettled) /\ r.listener
  <2>1. CASE sess = NoSession
    <3>1. SessionOK(Fresh(id), "none")
      BY FreshOK DEF SessionInv
    <3>2. SessionOK([Fresh(id) EXCEPT !.listener = TRUE, !.plugin = plugin], "none")
      BY <3>1 DEF SessionOK, Sessions
    <3> QED BY <2>1, <3>1, <3>2 DEF Registered, Unsettled, Registers, SessionOK, Sessions
  <2>2. CASE sess # NoSession /\ sess.listener
    BY <2>2 DEF Registered, Unsettled, Registers, SessionInv
  <2>3. CASE sess # NoSession /\ ~sess.listener
    <3>1. SessionOK(sess, guess) /\ sess.subs = {}
      BY <2>3 DEF SessionInv, SessionOK
    <3>2. SessionOK(sess, "none")
      BY <3>1 DEF SessionOK
    <3> DEFINE base == IF id # NoId /\ id # sess.id
                       THEN [Reset(sess) EXCEPT !.status = "working", !.id = id] ELSE sess
    <3>3. SessionOK(base, "none")
      BY <3>2, ResetKeeps
    <3>4. r = [base EXCEPT !.listener = TRUE, !.plugin = plugin]
      BY <2>3 DEF Registered
    <3>5. Unsettled = "none"
      BY <2>3 DEF Unsettled, Registers
    <3> HIDE DEF base, r
    <3>6. SessionOK(r, "none") /\ r.listener
      BY <3>3, <3>4 DEF SessionOK, Sessions
    <3> QED BY <3>5, <3>6
  <2> QED BY <2>1, <2>2, <2>3
<1> DEFINE t == IF Registers THEN Load(r) ELSE r
<1> HIDE DEF r
<1>2. SessionOK(t, Unsettled) /\ t.listener /\ LoadEvents(r) \in Seq(EventNames)
  BY <1>1, LoadKeeps DEF Load, SessionOK, Sessions
<1>3. Heard(id, plugin) = [t EXCEPT !.rich = TRUE, !.id = IF @ = NoId THEN id ELSE @]
  BY DEF Heard, r
<1> HIDE DEF t
<1>4. /\ SessionOK(Heard(id, plugin), Unsettled)
      /\ Heard(id, plugin).rich /\ Heard(id, plugin).listener
  <2>1. ASSUME NEW x \in Ids PROVE SessionOK([t EXCEPT !.rich = TRUE, !.id = x], Unsettled)
    <3>1. x # NoId
      BY SessionAssumption
    <3>2. [t EXCEPT !.rich = TRUE, !.id = x] \in Sessions
      BY <1>2 DEF SessionOK, Sessions
    <3> QED BY <1>2, <3>1, <3>2 DEF SessionOK, Sessions
  <2>2. PICK x \in Ids : Heard(id, plugin) = [t EXCEPT !.rich = TRUE, !.id = x]
    BY <1>2, <1>3 DEF SessionOK, Sessions
  <2>3. Heard(id, plugin).rich /\ Heard(id, plugin).listener
    BY <1>2, <2>2 DEF SessionOK, Sessions
  <2> QED BY <2>1, <2>2, <2>3
<1>5. RegistrationEvents(id, plugin) \in Seq(EventNames)
  BY <1>2, EventLists DEF RegistrationEvents, r, EventNames
<1> QED BY <1>4, <1>5

\* An event whose handler leaves a session in order keeps the invariant.
LEMMA EventKeeps ==
  ASSUME SessionInv, NEW id \in Ids, NEW plugin \in BOOLEAN, NEW s,
         NEW changed \in BOOLEAN, NEW updated \in BOOLEAN, NEW load \in BOOLEAN,
         Event(id, plugin, s, changed, updated, load),
         guess' \in Guesses, SessionOK(s, guess'), rollout' \in SUBSET Ids
  PROVE  SessionInv'
<1>1. sess' = (IF load THEN Load(s) ELSE s) /\ UNCHANGED <<provider, settling, idles>>
  BY DEF Event
<1>2. SessionOK(sess', guess')
  BY <1>1, LoadKeeps
<1>3. emitted' \in Seq(EventNames)
  <2>1. RegistrationEvents(id, plugin) \in Seq(EventNames) /\ LoadEvents(s) \in Seq(EventNames)
    BY HeardOK, LoadKeeps
  <2>2. \A b \in BOOLEAN : /\ (IF b THEN <<"status">> ELSE <<>>) \in Seq(EventNames)
                           /\ (IF b THEN <<"updated">> ELSE <<>>) \in Seq(EventNames)
    BY EventLists DEF EventNames
  <2>3. (IF load THEN LoadEvents(s) ELSE <<>>) \in Seq(EventNames)
    BY <2>1, EventLists
  <2> QED BY <2>1, <2>2, <2>3, EventLists DEF Event
<1>4. titles' \in Titles
  <2> DEFINE t == IF sess = NoSession THEN NoTitles ELSE titles
  <2>1. t \in Titles
    BY SessionAssumption DEF NoTitles, Titles, SessionInv, SessionTypeOK
  <2>2. titles' = IF changed
                  THEN [t EXCEPT !.since = 0, !.blockedIdle = IF s.status = "blocked" THEN FALSE ELSE @]
                  ELSE t
    BY DEF Event
  <2> HIDE DEF t
  <2>3. 0 \in 0..MaxIdle
    BY SessionAssumption
  <2>4. \A b \in BOOLEAN : [t EXCEPT !.since = 0, !.blockedIdle = b] \in Titles
    BY <2>1, <2>3 DEF Titles
  <2>5. t.blockedIdle \in BOOLEAN
    BY <2>1 DEF Titles
  <2>6. (IF s.status = "blocked" THEN FALSE ELSE t.blockedIdle) \in BOOLEAN
    BY <2>5
  <2>7. CASE changed
    <3>1. titles' = [t EXCEPT !.since = 0,
                              !.blockedIdle = IF s.status = "blocked" THEN FALSE ELSE t.blockedIdle]
      BY <2>2, <2>7
    <3> QED BY <2>4, <2>6, <3>1
  <2>8. CASE ~changed
    BY <2>1, <2>2, <2>8
  <2> QED BY <2>7, <2>8
<1>5. sess' \in Sessions /\ sess' # NoSession
  BY <1>2, SessionAssumption DEF SessionOK
<1>6. SessionTypeOK'
  BY <1>1, <1>3, <1>4, <1>5 DEF SessionInv, SessionTypeOK
<1> QED BY <1>2, <1>5, <1>6 DEF SessionInv
-----------------------------------------------------------------------------
(* One lemma per group of actions *)

\* Plugin events keep the invariant.
LEMMA PluginEventKeeps ==
  ASSUME SessionInv, NEW id \in Ids, NEW plugin \in BOOLEAN, PluginEvent(id, plugin)
  PROVE  SessionInv'
<1> DEFINE h == Heard(id, plugin)
<1>h. SessionOK(h, Unsettled) /\ h.rich /\ h.listener
  BY HeardOK
<1>g. Unsettled \in Guesses /\ "none" \in Guesses /\ "reported" \in Guesses
  BY DEF Unsettled, SessionInv, SessionTypeOK, Guesses
<1>r. rollout \in SUBSET Ids
  BY DEF SessionInv, SessionTypeOK
<1>n. NoStop \in Stops /\ ~NoStop.limit
  BY DEF NoStop, Stops
<1>u. Unsettled = IF Registers THEN "none" ELSE guess
  BY DEF Unsettled
<1> HIDE DEF h
<1>1. CASE PromptSubmit(id, plugin)
  <2> DEFINE s == [NewStatus(Active(h), "working") EXCEPT !.turn = TRUE]
  <2>1. PICK updated \in BOOLEAN : /\ Event(id, plugin, s, TRUE, updated, TRUE)
                                   /\ rollout' = rollout \ {sess'.id} /\ guess' = "none"
    BY <1>1 DEF PromptSubmit, h
  <2>2. SessionOK(s, "none")
    BY <1>h, <1>n DEF NewStatus, Active, SessionOK, Sessions, Statuses
  <2> QED BY <1>g, <1>r, <2>1, <2>2, EventKeeps
<1>2. CASE ToolComplete(id, plugin)
  <2>1. CASE ToolRestores(h)
    <3>1. Event(id, plugin, NewStatus(Active(h), "working"), TRUE, TRUE, FALSE)
          /\ guess' = "none" /\ rollout' = rollout
      BY <1>2, <2>1 DEF ToolComplete, h
    <3>2. SessionOK(NewStatus(Active(h), "working"), "none")
      BY <1>h, <1>n DEF NewStatus, Active, SessionOK, Sessions, Statuses
    <3> QED BY <1>g, <1>r, <3>1, <3>2, EventKeeps
  <2>2. CASE ~ToolRestores(h)
    <3>1. Event(id, plugin, h, FALSE, TRUE, FALSE) /\ guess' = Unsettled /\ rollout' = rollout
      BY <1>2, <1>u, <2>2 DEF ToolComplete, h
    <3> QED BY <1>g, <1>h, <1>r, <3>1, EventKeeps
  <2> QED BY <2>1, <2>2
<1>3. ASSUME NEW a \in Subagents, SubagentStart(id, plugin, a) PROVE SessionInv'
  <2> DEFINE s == [h EXCEPT !.subs = @ \cup {a}, !.observed = TRUE, !.stop = NoStop]
  <2>1. s \in Sessions
    BY <1>h, <1>n DEF SessionOK, Sessions
  <2>2. CASE s.status = "working"
    <3>1. Event(id, plugin, s, FALSE, TRUE, FALSE) /\ guess' = Unsettled /\ rollout' = rollout
      BY <1>3, <1>u, <2>2 DEF SubagentStart, h
    <3>2. SessionOK(s, Unsettled)
      BY <1>h, <1>n, <2>1, <2>2 DEF SessionOK, Sessions
    <3> QED BY <1>g, <1>r, <3>1, <3>2, EventKeeps
  <2>3. CASE s.status # "working"
    <3>1. Event(id, plugin, NewStatus(s, "working"), TRUE, TRUE, FALSE)
          /\ guess' = "none" /\ rollout' = rollout
      BY <1>3, <2>3 DEF SubagentStart, h
    <3>2. SessionOK(NewStatus(s, "working"), "none")
      BY <1>h, <1>n, <2>1 DEF NewStatus, SessionOK, Sessions, Statuses
    <3> QED BY <1>g, <1>r, <3>1, <3>2, EventKeeps
  <2> QED BY <2>2, <2>3
<1>4. ASSUME NEW a \in Subagents, SubagentStop(id, plugin, a) PROVE SessionInv'
  <2> DEFINE s == [h EXCEPT !.subs = @ \ {a}, !.observed = TRUE, !.interrupted = FALSE]
             last == s.subs = {} /\ s.deferred
  <2>1. s \in Sessions /\ a \in h.subs
    BY <1>h, <1>4 DEF SessionOK, Sessions, SubagentStop, h
  <2>2. CASE last
    <3>1. Event(id, plugin, [NewStatus(s, "done") EXCEPT !.deferred = FALSE], TRUE, TRUE, FALSE)
          /\ guess' = "none" /\ rollout' = rollout
      BY <1>4, <2>2 DEF SubagentStop, h
    <3>2. SessionOK([NewStatus(s, "done") EXCEPT !.deferred = FALSE], "none")
      BY <1>h, <2>1, <2>2 DEF NewStatus, SessionOK, Sessions, Statuses
    <3> QED BY <1>g, <1>r, <3>1, <3>2, EventKeeps
  <2>3. CASE ~last
    <3>1. Event(id, plugin, s, FALSE, TRUE, FALSE) /\ rollout' = rollout
          /\ guess' = IF guess = "fresh" THEN "reported" ELSE guess
      BY <1>4, <2>3 DEF SubagentStop, h
    <3>2. guess' \in Guesses /\ guess' # "fresh"
      BY <3>1 DEF SessionInv, SessionTypeOK, Guesses
    <3>3. guess' = "none" => Unsettled = "none"
      BY <1>u, <3>1
    <3>4. SessionOK(s, guess')
      BY <1>h, <2>1, <2>3, <3>2, <3>3 DEF SessionOK, Sessions
    <3> QED BY <1>r, <3>1, <3>2, <3>4, EventKeeps
  <2> QED BY <2>2, <2>3
<1>5. ASSUME NEW why \in HookStops, Stop(id, plugin, why) PROVE SessionInv'
  <2> DEFINE waits == h.subs # {}
             s == [h EXCEPT !.observed = TRUE, !.stop = why, !.deferred = waits, !.interrupted = FALSE]
  <2>1. why \in Stops
    <3>1. why = NoStop \/ \E r \in Resets \cup {0} : why = [limit |-> TRUE, reset |-> r]
      BY DEF HookStops
    <3>2. \A r \in Resets \cup {0} : [limit |-> TRUE, reset |-> r] \in Stops
      BY DEF Stops
    <3> QED BY <1>n, <3>1, <3>2
  <2>2. s \in Sessions
    BY <1>h, <2>1 DEF SessionOK, Sessions
  <2>3. guess' = "none" /\ rollout' = rollout
    BY <1>5 DEF Stop
  <2>4. CASE waits /\ h.status = "working"
    <3>1. Event(id, plugin, s, FALSE, FALSE, FALSE)
      BY <1>5, <2>4 DEF Stop, h
    <3>2. SessionOK(s, "none")
      BY <1>h, <2>2, <2>4 DEF SessionOK, Sessions
    <3> QED BY <1>g, <1>r, <2>3, <3>1, <3>2, EventKeeps
  <2>5. CASE ~(waits /\ h.status = "working")
    <3> DEFINE d == [s EXCEPT !.status = IF waits THEN "working" ELSE "done"]
    <3>1. Event(id, plugin, d, TRUE, FALSE, FALSE)
      BY <1>5, <2>5 DEF Stop, h
    <3>2. SessionOK(d, "none")
      <4>0. \A x \in Sessions, st \in Statuses : [x EXCEPT !.status = st] \in Sessions
        BY DEF Sessions
      <4>1. \A st \in Statuses : [s EXCEPT !.status = st] \in Sessions
        BY <2>2, <4>0
      <4>2. CASE waits
        <5>1. d = [s EXCEPT !.status = "working"]
          BY <4>2
        <5>2. d \in Sessions
          BY <4>1, <5>1 DEF Statuses
        <5> QED BY <1>h, <2>2, <4>2, <5>1, <5>2 DEF SessionOK, Sessions
      <4>3. CASE ~waits
        <5>1. d = [s EXCEPT !.status = "done"]
          BY <4>3
        <5>2. d \in Sessions
          BY <4>1, <5>1 DEF Statuses
        <5> QED BY <1>h, <2>2, <4>3, <5>1, <5>2 DEF SessionOK, Sessions
      <4> QED BY <4>2, <4>3
    <3> QED BY <1>g, <1>r, <2>3, <3>1, <3>2, EventKeeps
  <2> QED BY <2>4, <2>5
<1>6. CASE Attention(id, plugin)
  <2>1. Event(id, plugin, NewStatus(Active(h), "blocked"), TRUE, FALSE, FALSE)
        /\ guess' = "none" /\ rollout' = rollout
    BY <1>6 DEF Attention, h
  <2>2. SessionOK(NewStatus(Active(h), "blocked"), "none")
    BY <1>h, <1>n DEF NewStatus, Active, SessionOK, Sessions, Statuses
  <2> QED BY <1>g, <1>r, <2>1, <2>2, EventKeeps
<1>7. CASE PermissionReplied(id, plugin)
  <2>1. Event(id, plugin, NewStatus(Active(h), "working"), TRUE, FALSE, FALSE)
        /\ guess' = "none" /\ rollout' = rollout
    BY <1>7 DEF PermissionReplied, h
  <2>2. SessionOK(NewStatus(Active(h), "working"), "none")
    BY <1>h, <1>n DEF NewStatus, Active, SessionOK, Sessions, Statuses
  <2> QED BY <1>g, <1>r, <2>1, <2>2, EventKeeps
<1>8. CASE IdlePrompt(id, plugin)
  <2>0. guess' = "none" /\ rollout' = rollout /\ h.status = "working"
    BY <1>8 DEF IdlePrompt, ActivelyWorking, h
  <2>1. CASE h.subs # {}
    <3> DEFINE s == [h EXCEPT !.deferred = TRUE, !.interrupted = FALSE]
    <3>1. Event(id, plugin, s, FALSE, FALSE, FALSE)
      BY <1>8, <2>1 DEF IdlePrompt, h
    <3>2. SessionOK(s, "none")
      BY <1>h, <2>0, <2>1 DEF SessionOK, Sessions
    <3> QED BY <1>g, <1>r, <2>0, <3>1, <3>2, EventKeeps
  <2>2. CASE h.subs = {}
    <3> DEFINE s == [NewStatus(h, "done") EXCEPT !.deferred = FALSE, !.stop = NoStop]
    <3>1. Event(id, plugin, s, TRUE, FALSE, FALSE)
      BY <1>8, <2>2 DEF IdlePrompt, h
    <3>2. SessionOK(s, "none")
      BY <1>h, <1>n, <2>2 DEF NewStatus, SessionOK, Sessions, Statuses
    <3> QED BY <1>g, <1>r, <2>0, <3>1, <3>2, EventKeeps
  <2> QED BY <2>1, <2>2
<1>9. CASE SessionStart(id, plugin)
  <2> DEFINE s == [h EXCEPT !.plugin = plugin, !.subs = {}, !.deferred = FALSE, !.stop = NoStop]
  <2>1. Event(id, plugin, s, FALSE, TRUE, TRUE) /\ guess' = Unsettled /\ rollout' = rollout
    BY <1>9, <1>u DEF SessionStart, h
  <2>2. SessionOK(s, Unsettled)
    BY <1>h, <1>n DEF SessionOK, Sessions
  <2> QED BY <1>g, <1>r, <2>1, <2>2, EventKeeps
<1>10. CASE IgnoredEvent(id, plugin)
  <2>1. PICK updated \in BOOLEAN : Event(id, plugin, h, FALSE, updated, FALSE)
    BY <1>10 DEF IgnoredEvent, h
  <2>2. guess' = Unsettled /\ rollout' = rollout
    BY <1>10, <1>u DEF IgnoredEvent
  <2> QED BY <1>g, <1>h, <1>r, <2>1, <2>2, EventKeeps
<1> QED BY <1>1, <1>2, <1>3, <1>4, <1>5, <1>6, <1>7, <1>8, <1>9, <1>10 DEF PluginEvent
\* Whatever else leaves a session in order keeps the invariant.
LEMMA UpdateKeeps ==
  ASSUME SessionInv, NEW s, NEW g \in Guesses, SessionOK(s, g), sess' = s, guess' = g,
         titles' \in Titles, emitted' \in Seq(EventNames), rollout' \in SUBSET Ids,
         settling' \in SUBSET (1..MaxIdle), idles' \in 0..MaxIdle, provider' = provider
  PROVE  SessionInv'
<1>1. sess' \in Sessions /\ sess' # NoSession
  BY SessionAssumption DEF SessionOK
<1> QED BY <1>1 DEF SessionInv, SessionTypeOK

\* Sessions come, go and are renamed.
LEMMA LifeKeeps ==
  ASSUME SessionInv,
         \/ \E id \in Ids \cup {NoId} : Detect(id)
         \/ \E id \in Ids : Seed(id) \/ Reconcile(id)
         \/ RegisterListener \/ HistoryUpdated \/ Exit
  PROVE  SessionInv'
<1>0. /\ provider \in Providers /\ titles \in Titles /\ idles \in 0..MaxIdle
      /\ settling \in SUBSET (1..MaxIdle) /\ rollout \in SUBSET Ids /\ guess \in Guesses
  BY DEF SessionInv, SessionTypeOK
<1>t. NoTitles \in Titles
  BY SessionAssumption DEF NoTitles, Titles
<1>g. "none" \in Guesses
  BY DEF Guesses
<1>e. /\ <<>> \in Seq(EventNames) /\ <<"started">> \in Seq(EventNames)
      /\ <<"ended">> \in Seq(EventNames) /\ <<"updated">> \in Seq(EventNames)
  BY EventLists DEF EventNames
<1>1. ASSUME NEW id \in Ids \cup {NoId}, Detect(id) PROVE SessionInv'
  <2>1. SessionOK(Fresh(id), "none")
    BY FreshOK DEF SessionInv
  <2>2. SessionOK(Load(Fresh(id)), "none") /\ LoadEvents(Fresh(id)) \in Seq(EventNames)
    BY <2>1, LoadKeeps
  <2>3. <<"started">> \o LoadEvents(Fresh(id)) \in Seq(EventNames)
    BY <1>e, <2>2, EventLists
  <2> QED BY <1>0, <1>1, <1>g, <1>t, <2>2, <2>3, UpdateKeeps DEF Detect
<1>2. ASSUME NEW id \in Ids, Seed(id) PROVE SessionInv'
  <2> DEFINE base == IF sess = NoSession THEN Fresh(id) ELSE Seeded(sess, id)
             g == IF sess = NoSession THEN "none" ELSE guess
  <2>1. SessionOK(base, g)
    BY FreshOK, ResetKeeps DEF SessionInv
  <2>2. /\ sess' = Load(base) /\ guess' = g
        /\ emitted' = (IF sess = NoSession THEN <<"started">> ELSE <<>>) \o LoadEvents(base)
        /\ titles' = (IF sess = NoSession THEN NoTitles ELSE titles)
        /\ UNCHANGED <<provider, settling, idles, rollout>>
    BY <1>2 DEF Seed
  <2>g. g \in Guesses
    BY <1>0, <1>g
  <2> HIDE DEF base, g
  <2>3. SessionOK(Load(base), g) /\ LoadEvents(base) \in Seq(EventNames)
    BY <2>1, LoadKeeps
  <2>4. emitted' \in Seq(EventNames)
    BY <1>e, <2>2, <2>3, EventLists
  <2>5. titles' \in Titles
    BY <1>0, <1>t, <2>2
  <2> QED BY <1>0, <2>g, <2>2, <2>3, <2>4, <2>5, UpdateKeeps
<1>3. ASSUME NEW id \in Ids, Reconcile(id) PROVE SessionInv'
  <2> DEFINE base == Seeded(sess, id)
  <2>1. SessionOK(base, guess)
    BY <1>3, ResetKeeps DEF SessionInv, Reconcile
  <2>2. /\ sess' = Load(base)
        /\ emitted' = LoadEvents(base) \o (IF provider = "codex" THEN <<"updated">> ELSE <<>>)
        /\ UNCHANGED <<provider, titles, settling, idles, rollout, guess>>
    BY <1>3 DEF Reconcile
  <2> HIDE DEF base
  <2>3. SessionOK(Load(base), guess) /\ LoadEvents(base) \in Seq(EventNames)
    BY <2>1, LoadKeeps
  <2>4. emitted' \in Seq(EventNames)
    BY <1>e, <2>2, <2>3, EventLists
  <2> QED BY <1>0, <2>2, <2>3, <2>4, UpdateKeeps
<1>4. CASE RegisterListener
  <2>1. SessionOK(sess, guess) /\ sess # NoSession /\ ~sess.listener
    BY <1>4 DEF RegisterListener, SessionInv
  <2> DEFINE r == [sess EXCEPT !.listener = TRUE, !.plugin = (provider = "claude")]
  <2>2. Registered(NoId, provider = "claude") = r
    BY <2>1 DEF Registered
  <2>3. SessionOK(r, guess)
    BY <2>1 DEF SessionOK, Sessions
  <2>4. sess' = Load(r) /\ emitted' = LoadEvents(sess)
        /\ UNCHANGED <<provider, titles, settling, idles, rollout, guess>>
    BY <1>4, <2>2 DEF RegisterListener
  <2> HIDE DEF r
  <2>5. SessionOK(Load(r), guess) /\ LoadEvents(sess) \in Seq(EventNames)
    BY <2>1, <2>3, LoadKeeps
  <2> QED BY <1>0, <2>4, <2>5, UpdateKeeps
<1>5. CASE HistoryUpdated
  <2>1. SessionOK(sess, guess)
    BY <1>5 DEF HistoryUpdated, SessionInv
  <2> QED BY <1>0, <1>5, <1>e, <2>1, UpdateKeeps DEF HistoryUpdated
<1>6. CASE Exit
  BY <1>0, <1>6, <1>e, <1>g, <1>t DEF Exit, SessionInv, SessionTypeOK
<1> QED BY <1>1, <1>2, <1>3, <1>4, <1>5, <1>6

\* Submissions, interrupts, titles and rollout scans.
LEMMA StatusKeeps ==
  ASSUME SessionInv,
         \/ Osc9Stop \/ ClinchSubmit \/ Interrupt \/ WorkingTitle \/ IdleTitle
         \/ \E k \in settling : SettleIdle(k)
         \/ CodexHitsLimit \/ ScanRollouts
  PROVE  SessionInv'
<1>0. /\ provider \in Providers /\ titles \in Titles /\ idles \in 0..MaxIdle
      /\ settling \in SUBSET (1..MaxIdle) /\ rollout \in SUBSET Ids /\ guess \in Guesses
  BY DEF SessionInv, SessionTypeOK
<1>s. sess # NoSession => SessionOK(sess, guess)
  BY DEF SessionInv
<1>g. "none" \in Guesses /\ "fresh" \in Guesses
  BY DEF Guesses
<1>n. NoStop \in Stops /\ ~NoStop.limit
  BY DEF NoStop, Stops
<1>e. /\ <<>> \in Seq(EventNames) /\ <<"status">> \in Seq(EventNames)
      /\ <<"updated">> \in Seq(EventNames)
  BY EventLists DEF EventNames
<1>z. 0 \in 0..MaxIdle /\ MaxIdle \in Nat
  BY SessionAssumption
<1>1. CASE Osc9Stop
  <2>1. SessionOK(NewStatus(Active(sess), "done"), "none")
    BY <1>1, <1>n, <1>s DEF Osc9Stop, NewStatus, Active, SessionOK, Sessions, Statuses
  <2>2. titles' \in Titles
    BY <1>0, <1>1, <1>z DEF Osc9Stop, Titles
  <2> QED BY <1>0, <1>1, <1>e, <1>g, <2>1, <2>2, UpdateKeeps DEF Osc9Stop
<1>2. CASE ClinchSubmit
  <2>1. SessionOK(Submitted(sess), "none")
    BY <1>2, <1>n, <1>s DEF ClinchSubmit, Submitted, SessionOK, Sessions, Statuses
  <2>2. rollout' \in SUBSET Ids
    BY <1>0, <1>2 DEF ClinchSubmit
  <2> QED BY <1>0, <1>2, <1>e, <1>g, <2>1, <2>2, UpdateKeeps DEF ClinchSubmit
<1>3. CASE Interrupt
  <2>1. SessionOK(Interrupted(sess), "fresh")
    BY <1>3, <1>n, <1>s DEF Interrupt, Interrupted, SessionOK, Sessions, Statuses
  <2> QED BY <1>0, <1>3, <1>e, <1>g, <2>1, UpdateKeeps DEF Interrupt
<1>4. CASE WorkingTitle
  <2>1. titles' \in Titles
    BY <1>4, <1>z DEF WorkingTitle, Titles
  <2>2. SessionOK(sess', guess) /\ emitted' \in Seq(EventNames)
    <3> DEFINE w == [sess EXCEPT !.status = "working", !.observed = TRUE, !.stop = NoStop]
    <3>1. SessionOK(w, guess)
      BY <1>4, <1>n, <1>s DEF WorkingTitle, SessionOK, Sessions, Statuses
    <3> QED BY <1>4, <1>e, <1>s, <3>1 DEF WorkingTitle
  <2> QED BY <1>0, <1>4, <2>1, <2>2, UpdateKeeps DEF WorkingTitle
<1>5. CASE IdleTitle
  <2> DEFINE waits == ActivelyWorking(sess) /\ titles.reports /\ titles.since = 0
  <2>1. /\ waits => idles < MaxIdle
        /\ idles' = (IF waits THEN idles + 1 ELSE idles)
        /\ settling' = (IF waits THEN settling \cup {idles + 1} ELSE settling)
        /\ titles' = [titles EXCEPT !.since = IF waits THEN idles + 1 ELSE @,
                                    !.blockedIdle = (sess.status = "blocked")]
        /\ emitted' = <<>> /\ sess # NoSession /\ UNCHANGED <<provider, sess, rollout, guess>>
    BY <1>5 DEF IdleTitle
  <2> HIDE DEF waits
  <2>2. waits => idles + 1 \in 1..MaxIdle
    BY <1>0, <1>z, <2>1
  <2>3. idles' \in 0..MaxIdle /\ settling' \in SUBSET (1..MaxIdle)
    BY <1>0, <1>z, <2>1, <2>2
  <2>4. (IF waits THEN idles + 1 ELSE titles.since) \in 0..MaxIdle
    BY <1>0, <1>z, <2>2 DEF Titles
  <2>5. titles' \in Titles
    BY <1>0, <2>1, <2>4 DEF Titles
  <2> QED BY <1>0, <1>e, <1>s, <2>1, <2>3, <2>5, UpdateKeeps
<1>6. ASSUME NEW k \in settling, SettleIdle(k) PROVE SessionInv'
  <2> DEFINE current == titles.since = k
             ends == current /\ sess # NoSession /\ ActivelyWorking(sess)
  <2>1. /\ settling' = settling \ {k}
        /\ titles' = (IF current THEN [titles EXCEPT !.since = 0] ELSE titles)
        /\ sess' = (IF ends THEN Settled(sess) ELSE sess)
        /\ emitted' = (IF ends THEN <<"status">> ELSE <<>>)
        /\ UNCHANGED <<provider, idles, rollout, guess>>
    BY <1>6 DEF SettleIdle
  <2>2. titles' \in Titles /\ settling' \in SUBSET (1..MaxIdle) /\ emitted' \in Seq(EventNames)
    BY <1>0, <1>e, <1>z, <2>1 DEF Titles
  <2>3. CASE sess = NoSession
    BY <1>0, <2>1, <2>2, <2>3 DEF SessionInv, SessionTypeOK
  <2>4. CASE sess # NoSession
    <3>1. SessionOK(Settled(sess), guess)
      BY <1>s, <2>4 DEF Settled, SessionOK, Sessions, Statuses
    <3>2. SessionOK(sess', guess)
      BY <1>s, <2>1, <2>4, <3>1
    <3> QED BY <1>0, <2>1, <2>2, <3>2, UpdateKeeps
  <2> QED BY <2>3, <2>4
<1>7. CASE CodexHitsLimit
  <2>1. rollout' \in SUBSET Ids
    BY <1>0, <1>7, <1>s DEF CodexHitsLimit, SessionOK, Sessions
  <2> QED BY <1>0, <1>7, <1>e, <1>s, <2>1, UpdateKeeps DEF CodexHitsLimit
<1>8. CASE ScanRollouts
  <2>1. [limit |-> TRUE, reset |-> 0] \in Stops
    BY DEF Stops
  <2>2. SessionOK(LimitStopped(sess), "none")
    BY <1>8, <1>s, <2>1
       DEF ScanRollouts, LimitScanned, LimitStopped, SessionOK, Sessions, Statuses
  <2> QED BY <1>0, <1>8, <1>e, <1>g, <2>2, UpdateKeeps DEF ScanRollouts, LimitScanned
<1> QED BY <1>1, <1>2, <1>3, <1>4, <1>5, <1>6, <1>7, <1>8

-----------------------------------------------------------------------------

\* The invariant holds at the start and is kept by every step of the session.
LEMMA SessionInvariant == SessionSpec => []SessionInv
<1>1. SessionInit => SessionInv
  <2>1. NoTitles \in Titles /\ 0 \in 0..MaxIdle
    BY SessionAssumption DEF NoTitles, Titles
  <2> QED BY <2>1, EventLists DEF SessionInit, SessionInv, SessionTypeOK, Guesses
<1>2. SessionInv /\ [SessionNext]_sessionVars => SessionInv'
  <2> SUFFICES ASSUME SessionInv, [SessionNext]_sessionVars PROVE SessionInv'
    OBVIOUS
  <2>1. CASE SessionNext
    BY <2>1, PluginEventKeeps, LifeKeeps, StatusKeeps DEF SessionNext, SessionStep
  <2>2. CASE UNCHANGED sessionVars
    BY <2>2 DEF sessionVars, SessionInv, SessionTypeOK, SessionOK
  <2> QED BY <2>1, <2>2
<1> QED BY <1>1, <1>2, PTL DEF SessionSpec

\* Every variable of the sessions model keeps its type.
THEOREM SessionTypeCorrect == SessionSpec => []SessionTypeOK
<1>1. SessionInv => SessionTypeOK
  BY DEF SessionInv
<1> QED BY <1>1, SessionInvariant, PTL

\* apply_event: a deferred completion always has a running subagent to deliver it.
THEOREM DeferralOwned == SessionSpec => []DeferralHasOwner
<1>1. SessionInv => DeferralHasOwner
  BY DEF SessionInv, SessionOK, DeferralHasOwner
<1> QED BY <1>1, SessionInvariant, PTL

\* A usage-limit stop reason never outlives the turn that it ended.
THEOREM StopReasonsCurrent == SessionSpec => []StopMeansStopped
<1>1. SessionInv => StopMeansStopped
  BY DEF SessionInv, SessionOK, StopMeansStopped
<1> QED BY <1>1, SessionInvariant, PTL

\* A turn is reported complete only when its subagents are, or by an interrupt guess.
THEOREM CompletionsQuiet == SessionSpec => []DoneMeansQuiet
<1>1. SessionInv => DoneMeansQuiet
  BY DEF SessionInv, SessionOK, DoneMeansQuiet
<1> QED BY <1>1, SessionInvariant, PTL

\* An interrupt guess stays undoable by the next tool until a subagent reports.
THEOREM FreshGuessesRecover == SessionSpec => []FreshGuessRecovers
<1>1. SessionInv => FreshGuessRecovers
  BY DEF SessionInv, SessionOK, FreshGuessRecovers, ToolRestores
<1> QED BY <1>1, SessionInvariant, PTL
=============================================================================
