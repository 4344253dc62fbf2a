-------------------------- MODULE AutoContinueProofs --------------------------
(***************************************************************************)
(* Proofs about AutoContinue, for any sets of identities, subagents and    *)
(* reset times, for either provider and for every value of the bounds.     *)
(*                                                                         *)
(* A step of the session is first reduced to what it tells its subscribers *)
(* (SessionMove); the reaction to it is then followed through the          *)
(* operators on the pane, one lemma for each, from one invariant (Sound).  *)
(***************************************************************************)
EXTENDS AutoContinue, SessionProofs

-----------------------------------------------------------------------------
(* What an update of the session tells its subscribers *)

Emits(e, ev) == \E k \in DOMAIN e : e[k] = ev

\* Events that find a session and leave one.
Later(e) == \A k \in DOMAIN e : e[k] \in {"status", "updated"}

\* The same, after the start of a session if there was none.
First(e) ==
  \A k \in DOMAIN e : e[k] \in {"status", "updated"} \/ (e[k] = "started" /\ k = 1 /\ sess = NoSession)

\* A session with a plugin is given another name.
Renamed == sess # NoSession /\ sess.rich /\ sess'.id # sess.id

\* A session is removed alone; one that stays keeps its plugin; a limit stop that
\* is not reported by this update was there before it; and a new name is announced
\* first, for a session that is not at a limit stop any more.
SessionMove ==
  /\ Len(emitted') <= 5
  /\ sess = NoSession /\ sess' = NoSession => emitted' = <<>>
  /\ sess # NoSession /\ sess' = NoSession => emitted' = <<"ended">>
  /\ sess' # NoSession =>
       /\ First(emitted')
       /\ sess # NoSession /\ sess.rich => sess'.rich
       /\ LimitStop(sess') /\ ~Emits(emitted', "status") =>
            sess # NoSession /\ LimitStop(sess) /\ sess'.id = sess.id
       /\ Renamed => Len(emitted') # 0 /\ emitted'[1] = "updated" /\ ~LimitStop(sess')

\* Joining lists of events.
LEMMA JoinedEvents ==
  ASSUME NEW e \in Seq(EventNames), NEW f \in Seq(EventNames), First(e), Later(f)
  PROVE  /\ First(e \o f) /\ Len(e \o f) = Len(e) + Len(f) /\ e \o f \in Seq(EventNames)
         /\ Emits(e, "status") \/ Emits(f, "status") => Emits(e \o f, "status")
<1>0. e \o f \in Seq(EventNames) /\ Len(e \o f) = Len(e) + Len(f)
  BY EventLists
<1>d. /\ DOMAIN e = 1..Len(e) /\ DOMAIN f = 1..Len(f) /\ DOMAIN (e \o f) = 1..(Len(e) + Len(f))
      /\ Len(e) \in Nat /\ Len(f) \in Nat
  BY <1>0
<1>1. ASSUME NEW k \in DOMAIN e PROVE k \in DOMAIN (e \o f) /\ (e \o f)[k] = e[k]
  BY <1>d
<1>2. ASSUME NEW k \in DOMAIN f PROVE k + Len(e) \in DOMAIN (e \o f) /\ (e \o f)[k + Len(e)] = f[k]
  BY <1>d
<1>3. ASSUME NEW k \in DOMAIN (e \o f), k \notin DOMAIN e
      PROVE k - Len(e) \in DOMAIN f /\ (e \o f)[k] = f[k - Len(e)]
  BY <1>3, <1>d
<1>4. First(e \o f)
  BY <1>1, <1>3 DEF First, Later
<1>5. Emits(e, "status") \/ Emits(f, "status") => Emits(e \o f, "status")
  BY <1>1, <1>2 DEF Emits
<1> QED BY <1>0, <1>4, <1>5

\* The short lists that the handlers put together.
LEMMA ShortLists ==
  /\ <<>> \in Seq(EventNames) /\ Later(<<>>) /\ First(<<>>) /\ Len(<<>>) = 0
  /\ <<"status">> \in Seq(EventNames) /\ Later(<<"status">>) /\ First(<<"status">>)
  /\ Len(<<"status">>) = 1 /\ Emits(<<"status">>, "status")
  /\ <<"updated">> \in Seq(EventNames) /\ Later(<<"updated">>) /\ First(<<"updated">>)
  /\ Len(<<"updated">>) = 1
  /\ <<"started">> \in Seq(EventNames) /\ (sess = NoSession => First(<<"started">>))
  /\ Len(<<"started">>) = 1
<1>1. /\ <<>> \in Seq(EventNames) /\ <<"status">> \in Seq(EventNames)
      /\ <<"updated">> \in Seq(EventNames) /\ <<"started">> \in Seq(EventNames)
  BY EventLists DEF EventNames
<1> QED BY <1>1 DEF Later, First, Emits

\* start_prompt_history_load announces at most an update.
LEMMA LoadedEvents ==
  ASSUME NEW s
  PROVE  /\ LoadEvents(s) \in Seq(EventNames) /\ Later(LoadEvents(s)) /\ First(LoadEvents(s))
         /\ Len(LoadEvents(s)) <= 1
BY ShortLists DEF LoadEvents

\* A limit stop survives an event's registration only under its own identity.
LEMMA HeardStop ==
  ASSUME SessionInv, NEW id \in Ids, NEW plugin \in BOOLEAN, LimitStop(Heard(id, plugin))
  PROVE  sess # NoSession /\ LimitStop(sess) /\ Heard(id, plugin).id = sess.id
<1> DEFINE r == Registered(id, plugin)
           t == IF Registers THEN Load(r) ELSE r
           h == Heard(id, plugin)
<1>1. SessionOK(h, Unsettled)
  BY HeardOK
<1>2. h = [t EXCEPT !.rich = TRUE, !.id = IF @ = NoId THEN id ELSE @]
  BY DEF Heard
<1>3. h.status = "done" /\ h.stop.limit
  BY DEF LimitStop
<1>4. sess # NoSession
  <2>1. ASSUME sess = NoSession PROVE FALSE
    <3>1. r = [Fresh(id) EXCEPT !.listener = TRUE, !.plugin = plugin]
      BY <2>1 DEF Registered
    <3>2. r.status = "working" /\ t.status = "working"
      BY <3>1 DEF Fresh, Load
    <3> HIDE DEF r, t
    <3>3. h.status = "working" \/ h.status = t.status
      BY <1>2, <3>2
    <3> QED BY <1>3, <3>2, <3>3
  <2> QED BY <2>1
<1>5. SessionOK(sess, guess)
  BY <1>4 DEF SessionInv
<1>6. r.status = "done" /\ r.stop.limit => sess.status = "done" /\ sess.stop.limit /\ r.id = sess.id
  BY <1>4, <1>5 DEF Registered, Reset, NoStop, SessionOK, Sessions
<1>7. r \in Sessions
  <2>1. Reset(sess) \in Sessions /\ [Reset(sess) EXCEPT !.status = "working", !.id = id] \in Sessions
    <3>1. NoStop \in Stops
      BY DEF NoStop, Stops
    <3> QED BY <1>5, <3>1 DEF Reset, SessionOK, Sessions, Statuses
  <2>2. \A x \in Sessions : [x EXCEPT !.listener = TRUE, !.plugin = plugin] \in Sessions
    BY DEF Sessions
  <2>3. sess \in Sessions
    BY <1>5 DEF SessionOK
  <2> QED BY <1>4, <2>1, <2>2, <2>3 DEF Registered
<1> HIDE DEF r
<1>8. t \in Sessions /\ t.status = r.status /\ t.stop = r.stop /\ t.id = r.id
  BY <1>7 DEF Load, Sessions
<1> HIDE DEF t
<1>9. h.status = t.status /\ h.stop = t.stop /\ h.id = (IF t.id = NoId THEN id ELSE t.id)
  BY <1>2, <1>8 DEF Sessions
<1>10. sess.status = "done" /\ sess.stop.limit /\ r.id = sess.id
  BY <1>3, <1>6, <1>8, <1>9
<1>11. sess.id # NoId
  BY <1>5, <1>10 DEF SessionOK
<1> QED BY <1>4, <1>8, <1>9, <1>10, <1>11 DEF LimitStop

\* A session with a plugin has a listener, so that no event renames it.
LEMMA HeardName ==
  ASSUME SessionInv, NEW id \in Ids, NEW plugin \in BOOLEAN, sess # NoSession, sess.rich
  PROVE  Heard(id, plugin).id = sess.id
<1>1. sess \in Sessions /\ sess.listener /\ sess.id # NoId
  BY DEF SessionInv, SessionOK
<1>2. Heard(id, plugin) = [sess EXCEPT !.rich = TRUE, !.id = IF @ = NoId THEN id ELSE @]
  BY <1>1 DEF Heard, Registered, Registers
<1> QED BY <1>1, <1>2 DEF Sessions

\* What a plugin event emits, and what it does to a limit stop.
LEMMA EventMoves ==
  ASSUME SessionInv, NEW id \in Ids, NEW plugin \in BOOLEAN, NEW s \in Sessions,
         NEW changed \in BOOLEAN, NEW updated \in BOOLEAN, NEW load \in BOOLEAN,
         Event(id, plugin, s, changed, updated, load), s.rich,
         ~changed /\ LimitStop(s) => sess # NoSession /\ LimitStop(sess) /\ s.id = sess.id,
         sess # NoSession /\ sess.rich => s.id = sess.id
  PROVE  SessionMove
<1> DEFINE R == RegistrationEvents(id, plugin)
           S == IF changed THEN <<"status">> ELSE <<>>
           U == IF updated THEN <<"updated">> ELSE <<>>
           L == IF load THEN LoadEvents(s) ELSE <<>>
<1>1. emitted' = R \o S \o U \o L /\ sess' = (IF load THEN Load(s) ELSE s)
  BY DEF Event
<1>2. R \in Seq(EventNames) /\ First(R) /\ Len(R) <= 2
  <2> DEFINE B == IF sess = NoSession THEN <<"started">> ELSE <<>>
             G == LoadEvents(Registered(id, plugin))
  <2>1. B \in Seq(EventNames) /\ First(B) /\ Len(B) <= 1
    BY ShortLists
  <2>2. G \in Seq(EventNames) /\ Later(G) /\ Len(G) <= 1
    BY LoadedEvents
  <2>3. R = (IF ~Registers THEN <<>> ELSE B \o G)
    BY DEF RegistrationEvents
  <2> HIDE DEF B, G, R
  <2>4. B \o G \in Seq(EventNames) /\ First(B \o G) /\ Len(B \o G) <= 2
    <3>1. Len(B) \in Nat /\ Len(G) \in Nat
      BY <2>1, <2>2
    <3> QED BY <2>1, <2>2, <3>1, JoinedEvents
  <2> QED BY <2>3, <2>4, ShortLists
<1>3. /\ S \in Seq(EventNames) /\ Later(S) /\ Len(S) <= 1 /\ (changed => Emits(S, "status"))
      /\ U \in Seq(EventNames) /\ Later(U) /\ Len(U) <= 1
      /\ L \in Seq(EventNames) /\ Later(L) /\ Len(L) <= 1
  BY ShortLists, LoadedEvents
<1> HIDE DEF R, S, U, L
<1>n. Len(R) \in Nat /\ Len(S) \in Nat /\ Len(U) \in Nat /\ Len(L) \in Nat
  BY <1>2, <1>3
<1>4. /\ First(R \o S) /\ Len(R \o S) = Len(R) + Len(S) /\ R \o S \in Seq(EventNames)
      /\ changed => Emits(R \o S, "status")
  BY <1>2, <1>3, JoinedEvents
<1>5. /\ First(R \o S \o U) /\ Len(R \o S \o U) = Len(R) + Len(S) + Len(U)
      /\ R \o S \o U \in Seq(EventNames) /\ (changed => Emits(R \o S \o U, "status"))
  <2> DEFINE X == R \o S
  <2>1. X \in Seq(EventNames) /\ First(X) /\ (changed => Emits(X, "status")) /\ Len(X) = Len(R) + Len(S)
    BY <1>4
  <2> HIDE DEF X
  <2>2. /\ First(X \o U) /\ Len(X \o U) = Len(X) + Len(U) /\ X \o U \in Seq(EventNames)
        /\ Emits(X, "status") => Emits(X \o U, "status")
    BY <1>3, <2>1, JoinedEvents
  <2> QED BY <2>1, <2>2 DEF X
<1>6. /\ First(emitted') /\ Len(emitted') = Len(R) + Len(S) + Len(U) + Len(L)
      /\ changed => Emits(emitted', "status")
  <2> DEFINE Y == R \o S \o U
  <2>1. /\ Y \in Seq(EventNames) /\ First(Y) /\ (changed => Emits(Y, "status"))
        /\ Len(Y) = Len(R) + Len(S) + Len(U) /\ emitted' = Y \o L
    BY <1>1, <1>5
  <2> HIDE DEF Y
  <2>2. /\ First(Y \o L) /\ Len(Y \o L) = Len(Y) + Len(L)
        /\ Emits(Y, "status") => Emits(Y \o L, "status")
    BY <1>3, <2>1, JoinedEvents
  <2> QED BY <2>1, <2>2
<1>7. Len(emitted') <= 5
  BY <1>2, <1>3, <1>6, <1>n
<1>8. sess' \in Sessions /\ sess'.rich /\ sess'.id = s.id /\ (LimitStop(sess') => LimitStop(s))
  <2>1. Load(s) \in Sessions /\ Load(s).rich /\ Load(s).id = s.id /\ Load(s).status = s.status
        /\ Load(s).stop = s.stop
    BY DEF Load, Sessions
  <2>2. s # NoSession
    BY SessionAssumption
  <2> QED BY <1>1, <2>1, <2>2 DEF LimitStop
<1>9. sess' # NoSession /\ ~Renamed
  BY <1>8, SessionAssumption DEF Renamed
<1> QED BY <1>6, <1>7, <1>8, <1>9 DEF SessionMove

\* Every plugin event.
LEMMA PluginEventMoves ==
  ASSUME SessionInv, NEW id \in Ids, NEW plugin \in BOOLEAN, PluginEvent(id, plugin)
  PROVE  SessionMove
<1> DEFINE h == Heard(id, plugin)
<1>h. h \in Sessions /\ h.rich
  BY HeardOK DEF SessionOK
<1>i. sess # NoSession /\ sess.rich => h.id = sess.id
  BY HeardName
<1>l. LimitStop(h) => sess # NoSession /\ LimitStop(sess) /\ h.id = sess.id
  BY HeardStop
<1>n. NoStop \in Stops /\ ~NoStop.limit
  BY DEF NoStop, Stops
<1> HIDE DEF h
<1>1. CASE PromptSubmit(id, plugin)
  <2> DEFINE s == [NewStatus(Active(h), "working") EXCEPT !.turn = TRUE]
  <2>1. PICK updated \in BOOLEAN : Event(id, plugin, s, TRUE, updated, TRUE)
    BY <1>1 DEF PromptSubmit, h
  <2>2. s \in Sessions /\ s.rich /\ s.id = h.id
    BY <1>h, <1>n DEF NewStatus, Active, Sessions, Statuses
  <2> QED BY <1>i, <2>1, <2>2, EventMoves
<1>2. CASE ToolComplete(id, plugin)
  <2>1. CASE ToolRestores(h)
    <3>1. Event(id, plugin, NewStatus(Active(h), "working"), TRUE, TRUE, FALSE)
      BY <1>2, <2>1 DEF ToolComplete, h
    <3>2. NewStatus(Active(h), "working") \in Sessions /\ NewStatus(Active(h), "working").rich
          /\ NewStatus(Active(h), "working").id = h.id
      BY <1>h, <1>n DEF NewStatus, Active, Sessions, Statuses
    <3> QED BY <1>i, <3>1, <3>2, EventMoves
  <2>2. CASE ~ToolRestores(h)
    <3>1. Event(id, plugin, h, FALSE, TRUE, FALSE)
      BY <1>2, <2>2 DEF ToolComplete, h
    <3> QED BY <1>h, <1>i, <1>l, <3>1, EventMoves
  <2> QED BY <2>1, <2>2
<1>3. ASSUME NEW a \in Subagents, SubagentStart(id, plugin, a) PROVE SessionMove
  <2> DEFINE s == [h EXCEPT !.subs = @ \cup {a}, !.observed = TRUE, !.stop = NoStop]
  <2>1. s \in Sessions /\ s.rich /\ s.id = h.id /\ ~LimitStop(s)
    BY <1>h, <1>n DEF Sessions, LimitStop
  <2>2. CASE s.status = "working"
    <3>1. Event(id, plugin, s, FALSE, TRUE, FALSE)
      BY <1>3, <2>2 DEF SubagentStart, h
    <3> QED BY <1>i, <2>1, <3>1, EventMoves
  <2>3. CASE s.status # "working"
    <3>1. Event(id, plugin, NewStatus(s, "working"), TRUE, TRUE, FALSE)
      BY <1>3, <2>3 DEF SubagentStart, h
    <3>2. NewStatus(s, "working") \in Sessions /\ NewStatus(s, "working").rich
          /\ NewStatus(s, "working").id = h.id
      BY <2>1 DEF NewStatus, Sessions, Statuses
    <3> QED BY <1>i, <3>1, <3>2, EventMoves
  <2> QED BY <2>2, <2>3
<1>4. ASSUME NEW a \in Subagents, SubagentStop(id, plugin, a) PROVE SessionMove
  <2> DEFINE s == [h EXCEPT !.subs = @ \ {a}, !.observed = TRUE, !.interrupted = FALSE]
             last == s.subs = {} /\ s.deferred
  <2>1. s \in Sessions /\ s.rich /\ s.id = h.id /\ (LimitStop(s) => LimitStop(h))
    <3>1. s \in Sessions /\ s.rich /\ s.id = h.id /\ s.status = h.status /\ s.stop = h.stop
      BY <1>h DEF Sessions
    <3>2. h # NoSession
      BY <1>h, SessionAssumption
    <3> QED BY <3>1, <3>2 DEF LimitStop
  <2>2. CASE last
    <3>1. Event(id, plugin, [NewStatus(s, "done") EXCEPT !.deferred = FALSE], TRUE, TRUE, FALSE)
      BY <1>4, <2>2 DEF SubagentStop, h
    <3>2. /\ [NewStatus(s, "done") EXCEPT !.deferred = FALSE] \in Sessions
          /\ [NewStatus(s, "done") EXCEPT !.deferred = FALSE].rich
          /\ [NewStatus(s, "done") EXCEPT !.deferred = FALSE].id = h.id
      BY <2>1 DEF NewStatus, Sessions, Statuses
    <3> QED BY <1>i, <3>1, <3>2, EventMoves
  <2>3. CASE ~last
    <3>1. Event(id, plugin, s, FALSE, TRUE, FALSE)
      BY <1>4, <2>3 DEF SubagentStop, h
    <3> QED BY <1>i, <1>l, <2>1, <3>1, EventMoves
  <2> QED BY <2>2, <2>3
<1>5. ASSUME NEW why \in HookStops, Stop(id, plugin, why) PROVE SessionMove
  <2> DEFINE waits == h.subs # {}
             s == [h EXCEPT !.observed = TRUE, !.stop = why, !.deferred = waits, !.interrupted = FALSE]
  <2>1. why \in Stops
    <3>1. why = NoStop \/ \E r \in Resets \cup {0} : why = [limit |-> TRUE, reset |-> r]
      BY DEF HookStops
    <3>2. \A r \in Resets \cup {0} : [limit |-> TRUE, reset |-> r] \in Stops
      BY DEF Stops
    <3> QED BY <1>n, <3>1, <3>2
  <2>2. s \in Sessions /\ s.rich /\ s.status = h.status
    BY <1>h, <2>1 DEF Sessions
  <2>3. s.id = h.id
    BY <1>h DEF Sessions
  <2>4. CASE waits /\ h.status = "working"
    <3>1. Event(id, plugin, s, FALSE, FALSE, FALSE)
      BY <1>5, <2>4 DEF Stop, h
    <3>2. ~LimitStop(s)
      BY <2>2, <2>4 DEF LimitStop
    <3> QED BY <1>i, <2>2, <2>3, <3>1, <3>2, EventMoves
  <2>5. CASE ~(waits /\ h.status = "working")
    <3> DEFINE d == [s EXCEPT !.status = IF waits THEN "working" ELSE "done"]
    <3>1. Event(id, plugin, d, TRUE, FALSE, FALSE)
      BY <1>5, <2>5 DEF Stop, h
    <3>2. \A x \in Sessions, st \in Statuses : [x EXCEPT !.status = st] \in Sessions
                                               /\ [x EXCEPT !.status = st].rich = x.rich
                                               /\ [x EXCEPT !.status = st].id = x.id
      BY DEF Sessions
    <3>3. (IF waits THEN "working" ELSE "done") \in Statuses
      BY DEF Statuses
    <3> HIDE DEF s
    <3>4. d \in Sessions /\ d.rich /\ d.id = s.id
      BY <2>2, <3>2, <3>3
    <3> HIDE DEF d
    <3>5. sess # NoSession /\ sess.rich => d.id = sess.id
      BY <1>i, <2>3, <3>4
    <3> QED BY <3>1, <3>4, <3>5, EventMoves
  <2> QED BY <2>4, <2>5
<1>6. CASE Attention(id, plugin)
  <2>1. Event(id, plugin, NewStatus(Active(h), "blocked"), TRUE, FALSE, FALSE)
    BY <1>6 DEF Attention, h
  <2>2. NewStatus(Active(h), "blocked") \in Sessions /\ NewStatus(Active(h), "blocked").rich
        /\ NewStatus(Active(h), "blocked").id = h.id
    BY <1>h, <1>n DEF NewStatus, Active, Sessions, Statuses
  <2> QED BY <1>i, <2>1, <2>2, EventMoves
<1>7. CASE PermissionReplied(id, plugin)
  <2>1. Event(id, plugin, NewStatus(Active(h), "working"), TRUE, FALSE, FALSE)
    BY <1>7 DEF PermissionReplied, h
  <2>2. NewStatus(Active(h), "working") \in Sessions /\ NewStatus(Active(h), "working").rich
        /\ NewStatus(Active(h), "working").id = h.id
    BY <1>h, <1>n DEF NewStatus, Active, Sessions, Statuses
  <2> QED BY <1>i, <2>1, <2>2, EventMoves
<1>8. CASE IdlePrompt(id, plugin)
  <2>0. h.status = "working"
    BY <1>8 DEF IdlePrompt, ActivelyWorking, h
  <2>1. CASE h.subs # {}
    <3> DEFINE s == [h EXCEPT !.deferred = TRUE, !.interrupted = FALSE]
    <3>1. Event(id, plugin, s, FALSE, FALSE, FALSE)
      BY <1>8, <2>1 DEF IdlePrompt, h
    <3>2. s \in Sessions /\ s.rich /\ s.status = "working" /\ s.id = h.id
      BY <1>h, <2>0 DEF Sessions
    <3>3. ~LimitStop(s)
      BY <3>2 DEF LimitStop
    <3> QED BY <1>i, <3>1, <3>2, <3>3, EventMoves
  <2>2. CASE h.subs = {}
    <3> DEFINE s == [NewStatus(h, "done") EXCEPT !.deferred = FALSE, !.stop = NoStop]
    <3>1. Event(id, plugin, s, TRUE, FALSE, FALSE)
      BY <1>8, <2>2 DEF IdlePrompt, h
    <3>2. s \in Sessions /\ s.rich /\ s.id = h.id
      BY <1>h, <1>n DEF NewStatus, Sessions, Statuses
    <3> QED BY <1>i, <3>1, <3>2, EventMoves
  <2> QED BY <2>1, <2>2
<1>9. CASE SessionStart(id, plugin)
  <2> DEFINE s == [h EXCEPT !.plugin = plugin, !.subs = {}, !.deferred = FALSE, !.stop = NoStop]
  <2>1. Event(id, plugin, s, FALSE, TRUE, TRUE)
    BY <1>9 DEF SessionStart, h
  <2>2. s \in Sessions /\ s.rich /\ s.stop = NoStop /\ s.id = h.id
    BY <1>h, <1>n DEF Sessions
  <2>3. ~LimitStop(s)
    BY <1>n, <2>2 DEF LimitStop
  <2> QED BY <1>i, <2>1, <2>2, <2>3, EventMoves
<1>10. CASE IgnoredEvent(id, plugin)
  <2>1. PICK updated \in BOOLEAN : Event(id, plugin, h, FALSE, updated, FALSE)
    BY <1>10 DEF IgnoredEvent, h
  <2> QED BY <1>h, <1>i, <1>l, <2>1, EventMoves
<1> QED BY <1>1, <1>2, <1>3, <1>4, <1>5, <1>6, <1>7, <1>8, <1>9, <1>10 DEF PluginEvent

\* An update that finds session s and leaves session t, and announces it with e.
LEMMA UpdateMoves ==
  ASSUME SessionInv, NEW e \in Seq(EventNames), emitted' = e, First(e), Len(e) <= 5,
         sess' \in Sessions, sess # NoSession /\ sess.rich => sess'.rich,
         LimitStop(sess') /\ ~Emits(e, "status") =>
           sess # NoSession /\ LimitStop(sess) /\ sess'.id = sess.id,
         Renamed => Len(e) # 0 /\ e[1] = "updated" /\ ~LimitStop(sess')
  PROVE  SessionMove
<1>1. sess' # NoSession
  BY SessionAssumption
<1> QED BY <1>1 DEF SessionMove

\* Requesting the prompt history changes one flag.
LEMMA LoadSame ==
  ASSUME NEW s \in Sessions
  PROVE  Load(s) \in Sessions /\ Load(s).rich = s.rich /\ Load(s).id = s.id
         /\ (LimitStop(Load(s)) => LimitStop(s))
<1>1. Load(s) \in Sessions /\ Load(s).rich = s.rich /\ Load(s).id = s.id
      /\ Load(s).status = s.status /\ Load(s).stop = s.stop
  BY DEF Load, Sessions
<1>2. s # NoSession
  BY SessionAssumption
<1> QED BY <1>1, <1>2 DEF LimitStop

\* Sessions come, go and are renamed.
LEMMA LifeMoves ==
  ASSUME SessionInv,
         \/ \E id \in Ids \cup {NoId} : Detect(id)
         \/ \E id \in Ids : Seed(id) \/ Reconcile(id)
         \/ RegisterListener \/ HistoryUpdated \/ Exit
  PROVE  SessionMove
<1>s. sess # NoSession => sess \in Sessions
  BY DEF SessionInv, SessionOK
<1>n. NoStop \in Stops /\ ~NoStop.limit
  BY DEF NoStop, Stops
<1>f. ASSUME NEW id \in Ids \cup {NoId} PROVE Fresh(id) \in Sessions /\ ~LimitStop(Fresh(id))
  <2>1. SessionOK(Fresh(id), "none")
    BY FreshOK DEF SessionInv
  <2> QED BY <2>1 DEF SessionOK, LimitStop, Fresh
<1>r. ASSUME NEW id \in Ids, sess # NoSession
      PROVE  Seeded(sess, id) \in Sessions /\ Seeded(sess, id).rich = sess.rich
             /\ (LimitStop(Seeded(sess, id)) => LimitStop(sess) /\ Seeded(sess, id).id = sess.id)
             /\ (Seeded(sess, id).id # sess.id =>
                   LoadEvents(Seeded(sess, id)) = <<"updated">> /\ ~LimitStop(Seeded(sess, id)))
  <2>1. CASE sess.id = id
    BY <1>r, <1>s, <2>1 DEF Seeded
  <2>2. CASE sess.id # id
    <3>1. Seeded(sess, id) = [Reset(sess) EXCEPT !.id = id]
      BY <2>2 DEF Seeded
    <3>2. [Reset(sess) EXCEPT !.id = id] \in Sessions
      BY <1>n, <1>r, <1>s DEF Reset, Sessions
    <3>3. /\ [Reset(sess) EXCEPT !.id = id].rich = sess.rich /\ [Reset(sess) EXCEPT !.id = id].stop = NoStop
          /\ [Reset(sess) EXCEPT !.id = id].id = id /\ ~[Reset(sess) EXCEPT !.id = id].loaded
      BY <1>n, <1>r, <1>s DEF Reset, Sessions
    <3>4. LoadEvents(Seeded(sess, id)) = <<"updated">>
      BY <3>1, <3>3, SessionAssumption DEF LoadEvents
    <3> QED BY <1>n, <3>1, <3>2, <3>3, <3>4 DEF LimitStop
  <2> QED BY <2>1, <2>2
<1>1. ASSUME NEW id \in Ids \cup {NoId}, Detect(id) PROVE SessionMove
  <2> DEFINE L == LoadEvents(Fresh(id))
  <2>1. sess = NoSession /\ sess' = Load(Fresh(id)) /\ emitted' = <<"started">> \o L
    BY <1>1 DEF Detect
  <2>2. L \in Seq(EventNames) /\ Later(L) /\ Len(L) <= 1 /\ Len(L) \in Nat
    BY LoadedEvents
  <2> HIDE DEF L
  <2>3. <<"started">> \o L \in Seq(EventNames) /\ First(<<"started">> \o L) /\ Len(<<"started">> \o L) <= 2
    BY <2>1, <2>2, ShortLists, JoinedEvents
  <2>4. sess' \in Sessions /\ ~LimitStop(sess')
    BY <1>f, <2>1, LoadSame
  <2>5. Len(emitted') <= 5
    BY <2>1, <2>2, ShortLists, JoinedEvents
  <2> QED BY <2>1, <2>3, <2>4, <2>5, UpdateMoves DEF Renamed
<1>2. ASSUME NEW id \in Ids, Seed(id) PROVE SessionMove
  <2> DEFINE base == IF sess = NoSession THEN Fresh(id) ELSE Seeded(sess, id)
             B == IF sess = NoSession THEN <<"started">> ELSE <<>>
             L == LoadEvents(base)
  <2>1. sess' = Load(base) /\ emitted' = B \o L
    BY <1>2 DEF Seed
  <2>2. /\ base \in Sessions /\ (sess # NoSession /\ sess.rich => base.rich)
        /\ LimitStop(base) => sess # NoSession /\ LimitStop(sess) /\ base.id = sess.id
        /\ sess # NoSession /\ base.id # sess.id => L = <<"updated">> /\ ~LimitStop(base)
    BY <1>f, <1>r
  <2>3. L \in Seq(EventNames) /\ Later(L) /\ Len(L) <= 1 /\ Len(L) \in Nat
    BY LoadedEvents
  <2>4. B \in Seq(EventNames) /\ First(B) /\ Len(B) <= 1 /\ Len(B) \in Nat /\ (sess # NoSession => B = <<>>)
    BY ShortLists
  <2> HIDE DEF base, B, L
  <2>5. B \o L \in Seq(EventNames) /\ First(B \o L) /\ Len(B \o L) = Len(B) + Len(L)
    BY <2>3, <2>4, JoinedEvents
  <2>6. Len(B \o L) <= 5
    BY <2>3, <2>4, <2>5
  <2>7. /\ sess' \in Sessions /\ (sess # NoSession /\ sess.rich => sess'.rich)
        /\ LimitStop(sess') => sess # NoSession /\ LimitStop(sess) /\ sess'.id = sess.id
        /\ Renamed => L = <<"updated">> /\ ~LimitStop(sess')
    BY <2>1, <2>2, LoadSame DEF Renamed
  <2>8. Renamed => Len(B \o L) # 0 /\ (B \o L)[1] = "updated" /\ ~LimitStop(sess')
    <3>1. ASSUME Renamed PROVE B = <<>> /\ L = <<"updated">>
      BY <2>4, <2>7, <3>1 DEF Renamed
    <3>2. ASSUME B = <<>>, L = <<"updated">> PROVE Len(B \o L) # 0 /\ (B \o L)[1] = "updated"
      BY <3>2
    <3> QED BY <2>7, <3>1, <3>2
  <2> QED BY <2>1, <2>5, <2>6, <2>7, <2>8, UpdateMoves
<1>3. ASSUME NEW id \in Ids, Reconcile(id) PROVE SessionMove
  <2> DEFINE base == Seeded(sess, id)
             U == IF provider = "codex" THEN <<"updated">> ELSE <<>>
             L == LoadEvents(base)
  <2>1. sess # NoSession /\ sess' = Load(base) /\ emitted' = L \o U
    BY <1>3 DEF Reconcile
  <2>2. /\ base \in Sessions /\ base.rich = sess.rich
        /\ LimitStop(base) => LimitStop(sess) /\ base.id = sess.id
        /\ base.id # sess.id => L = <<"updated">> /\ ~LimitStop(base)
    BY <1>r, <2>1
  <2>3. L \in Seq(EventNames) /\ First(L) /\ Len(L) <= 1 /\ Len(L) \in Nat
    BY LoadedEvents
  <2>4. U \in Seq(EventNames) /\ Later(U) /\ Len(U) <= 1 /\ Len(U) \in Nat
    BY ShortLists
  <2> HIDE DEF base, U, L
  <2>5. L \o U \in Seq(EventNames) /\ First(L \o U) /\ Len(L \o U) = Len(L) + Len(U)
    BY <2>3, <2>4, JoinedEvents
  <2>6. Len(L \o U) <= 5
    BY <2>3, <2>4, <2>5
  <2>7. /\ sess' \in Sessions /\ (sess.rich => sess'.rich)
        /\ LimitStop(sess') => LimitStop(sess) /\ sess'.id = sess.id
        /\ Renamed => L = <<"updated">> /\ ~LimitStop(sess')
    BY <2>1, <2>2, LoadSame DEF Renamed
  <2>8. Renamed => Len(L \o U) # 0 /\ (L \o U)[1] = "updated" /\ ~LimitStop(sess')
    <3>1. ASSUME L = <<"updated">> PROVE Len(L \o U) # 0 /\ (L \o U)[1] = "updated"
      BY <2>4, <3>1 DEF EventNames
    <3> QED BY <2>7, <3>1
  <2> QED BY <2>1, <2>5, <2>6, <2>7, <2>8, UpdateMoves
<1>4. CASE RegisterListener
  <2> DEFINE r == [sess EXCEPT !.listener = TRUE, !.plugin = (provider = "claude")]
  <2>1. sess # NoSession /\ ~sess.listener /\ emitted' = LoadEvents(sess)
    BY <1>4 DEF RegisterListener
  <2>2. Registered(NoId, provider = "claude") = r
    BY <2>1 DEF Registered
  <2>3. sess' = Load(r)
    BY <1>4, <2>2 DEF RegisterListener
  <2>4. r \in Sessions /\ r.rich = sess.rich /\ r.id = sess.id /\ r.status = sess.status /\ r.stop = sess.stop
    BY <1>s, <2>1 DEF Sessions
  <2> HIDE DEF r
  <2>5. LimitStop(r) => LimitStop(sess)
    BY <2>1, <2>4 DEF LimitStop
  <2>6. LoadEvents(sess) \in Seq(EventNames) /\ First(LoadEvents(sess)) /\ Len(LoadEvents(sess)) <= 5
    BY ShortLists DEF LoadEvents
  <2>7. sess' \in Sessions /\ sess'.rich = sess.rich /\ sess'.id = sess.id
        /\ (LimitStop(sess') => LimitStop(sess))
    BY <2>3, <2>4, <2>5, LoadSame
  <2> QED BY <2>1, <2>6, <2>7, UpdateMoves DEF Renamed
<1>5. CASE HistoryUpdated
  <2>1. sess # NoSession /\ sess' = sess /\ emitted' = <<"updated">>
    BY <1>5 DEF HistoryUpdated
  <2>2. <<"updated">> \in Seq(EventNames) /\ First(<<"updated">>) /\ Len(<<"updated">>) <= 5
    BY ShortLists
  <2>3. sess' \in Sessions /\ (sess.rich => sess'.rich) /\ (LimitStop(sess') => LimitStop(sess))
        /\ sess'.id = sess.id
    BY <1>s, <2>1
  <2> QED BY <2>1, <2>2, <2>3, UpdateMoves DEF Renamed
<1>6. CASE Exit
  <2>1. sess # NoSession /\ sess' = NoSession /\ emitted' = <<"ended">>
    BY <1>6 DEF Exit
  <2> QED BY <2>1 DEF SessionMove
<1> QED BY <1>1, <1>2, <1>3, <1>4, <1>5, <1>6

\* Submissions, interrupts, titles and rollout scans.
LEMMA StatusMoves ==
  ASSUME SessionInv,
         \/ Osc9Stop \/ ClinchSubmit \/ Interrupt \/ WorkingTitle \/ IdleTitle
         \/ \E k \in settling : SettleIdle(k)
         \/ CodexHitsLimit \/ ScanRollouts
  PROVE  SessionMove
<1>s. sess # NoSession => sess \in Sessions
  BY DEF SessionInv, SessionOK
<1>n. NoStop \in Stops /\ ~NoStop.limit
  BY DEF NoStop, Stops
<1>e. /\ <<>> \in Seq(EventNames) /\ First(<<>>) /\ Len(<<>>) <= 5
      /\ <<"status">> \in Seq(EventNames) /\ First(<<"status">>) /\ Len(<<"status">>) <= 5
      /\ Emits(<<"status">>, "status")
      /\ <<"updated">> \in Seq(EventNames) /\ First(<<"updated">>) /\ Len(<<"updated">>) <= 5
  BY ShortLists
<1>same. ASSUME sess' = sess, emitted' = <<>> PROVE SessionMove
  <2>1. CASE sess = NoSession
    BY <1>same, <2>1, ShortLists DEF SessionMove, Renamed
  <2>2. CASE sess # NoSession
    <3>1. sess' \in Sessions /\ (sess.rich => sess'.rich) /\ (LimitStop(sess') => LimitStop(sess))
          /\ sess'.id = sess.id
      BY <1>s, <1>same, <2>2
    <3> QED BY <1>e, <1>same, <2>2, <3>1, UpdateMoves DEF Renamed
  <2> QED BY <2>1, <2>2
<1>1. CASE Osc9Stop
  <2>1. sess # NoSession /\ sess' = NewStatus(Active(sess), "done") /\ emitted' = <<"status">>
    BY <1>1 DEF Osc9Stop
  <2>2. NewStatus(Active(sess), "done") \in Sessions
        /\ NewStatus(Active(sess), "done").rich = sess.rich
        /\ NewStatus(Active(sess), "done").id = sess.id
    BY <1>n, <1>s, <2>1 DEF NewStatus, Active, Sessions, Statuses
  <2> QED BY <1>e, <2>1, <2>2, UpdateMoves DEF Renamed
<1>2. CASE ClinchSubmit
  <2>1. sess # NoSession /\ sess' = Submitted(sess) /\ emitted' = <<"status">>
    BY <1>2 DEF ClinchSubmit
  <2>2. Submitted(sess) \in Sessions /\ Submitted(sess).rich = sess.rich /\ Submitted(sess).id = sess.id
    BY <1>n, <1>s, <2>1 DEF Submitted, Sessions, Statuses
  <2> QED BY <1>e, <2>1, <2>2, UpdateMoves DEF Renamed
<1>3. CASE Interrupt
  <2>1. sess # NoSession /\ sess' = Interrupted(sess) /\ emitted' = <<"updated">>
    BY <1>3 DEF Interrupt
  <2>2. Interrupted(sess) \in Sessions /\ Interrupted(sess).rich = sess.rich
        /\ Interrupted(sess).stop = NoStop /\ Interrupted(sess).id = sess.id
    BY <1>n, <1>s, <2>1 DEF Interrupted, Sessions, Statuses
  <2>3. ~LimitStop(sess')
    BY <1>n, <2>1, <2>2 DEF LimitStop
  <2> QED BY <1>e, <2>1, <2>2, <2>3, UpdateMoves DEF Renamed
<1>4. CASE WorkingTitle
  <2> DEFINE w == [sess EXCEPT !.status = "working", !.observed = TRUE, !.stop = NoStop]
  <2>1. sess # NoSession
        /\ \/ sess' = w /\ emitted' = <<"status">>
           \/ sess' = sess /\ emitted' = <<>>
    <3> DEFINE answered == sess.status = "blocked" /\ titles.blockedIdle
    <3>1. /\ sess # NoSession /\ sess' = (IF answered THEN w ELSE sess)
          /\ emitted' = (IF answered THEN <<"status">> ELSE <<>>)
      BY <1>4 DEF WorkingTitle
    <3> HIDE DEF answered, w
    <3>2. CASE answered
      BY <3>1, <3>2
    <3>3. CASE ~answered
      BY <3>1, <3>3
    <3> QED BY <3>2, <3>3
  <2>2. w \in Sessions /\ w.rich = sess.rich /\ w.id = sess.id
    BY <1>n, <1>s, <2>1 DEF Sessions, Statuses
  <2> HIDE DEF w
  <2>3. CASE sess' = w /\ emitted' = <<"status">>
    BY <1>e, <2>1, <2>2, <2>3, UpdateMoves DEF Renamed
  <2> QED BY <1>same, <2>1, <2>3
<1>5. CASE IdleTitle
  BY <1>5, <1>same DEF IdleTitle
<1>6. ASSUME NEW k \in settling, SettleIdle(k) PROVE SessionMove
  <2>1. \/ sess # NoSession /\ sess' = Settled(sess) /\ emitted' = <<"status">>
        \/ sess' = sess /\ emitted' = <<>>
    <3> DEFINE ends == titles.since = k /\ sess # NoSession /\ ActivelyWorking(sess)
    <3>1. /\ sess' = (IF ends THEN Settled(sess) ELSE sess)
          /\ emitted' = (IF ends THEN <<"status">> ELSE <<>>)
      BY <1>6 DEF SettleIdle
    <3>2. ends => sess # NoSession
      OBVIOUS
    <3> HIDE DEF ends
    <3>3. CASE ends
      BY <3>1, <3>2, <3>3
    <3>4. CASE ~ends
      BY <3>1, <3>4
    <3> QED BY <3>3, <3>4
  <2>2. CASE sess # NoSession /\ sess' = Settled(sess) /\ emitted' = <<"status">>
    <3>1. Settled(sess) \in Sessions /\ Settled(sess).rich = sess.rich /\ Settled(sess).id = sess.id
      BY <1>s, <2>2 DEF Settled, Sessions, Statuses
    <3> QED BY <1>e, <2>2, <3>1, UpdateMoves DEF Renamed
  <2> QED BY <1>same, <2>1, <2>2
<1>7. CASE CodexHitsLimit
  BY <1>7, <1>same DEF CodexHitsLimit
<1>8. CASE ScanRollouts
  <2>1. sess # NoSession /\ sess' = LimitStopped(sess) /\ emitted' = <<"status">>
    BY <1>8 DEF ScanRollouts, LimitScanned
  <2>2. [limit |-> TRUE, reset |-> 0] \in Stops
    BY DEF Stops
  <2>3. LimitStopped(sess) \in Sessions /\ LimitStopped(sess).rich = sess.rich /\ LimitStopped(sess).id = sess.id
    BY <1>s, <2>1, <2>2 DEF LimitStopped, Sessions, Statuses
  <2> QED BY <1>e, <2>1, <2>3, UpdateMoves DEF Renamed
<1> QED BY <1>1, <1>2, <1>3, <1>4, <1>5, <1>6, <1>7, <1>8

\* Every step of the session.
LEMMA SessionSteps ==
  ASSUME SessionInv, SessionNext
  PROVE  SessionInv' /\ SessionMove
BY PluginEventKeeps, LifeKeeps, StatusKeeps, PluginEventMoves, LifeMoves, StatusMoves
   DEF SessionNext, SessionStep

\* A step that leaves the session alone.
LEMMA QuietSteps ==
  ASSUME SessionInv, Quiet
  PROVE  SessionInv' /\ SessionMove /\ sess' = sess /\ emitted' = <<>>
<1>1. sess' = sess /\ emitted' = <<>> /\ <<>> \in Seq(EventNames)
  BY ShortLists DEF Quiet
<1>2. SessionInv'
  BY <1>1 DEF Quiet, SessionInv, SessionTypeOK, SessionOK
<1>3. SessionMove
  BY <1>1, ShortLists DEF SessionMove, Renamed
<1> QED BY <1>1, <1>2, <1>3

-----------------------------------------------------------------------------
(* Reactions to several events *)

\* The recursive function of Reactions, unfolded: no update emits more than five
\* events, so there is such a function and it is the one that is meant.
LEMMA ReactionsUnfold ==
  ASSUME NEW b, NEW u, NEW s, NEW e \in Seq(EventNames), Len(e) <= 5
  PROVE  \E f : /\ f[0] = Counted(b, s, e)
                /\ \A k \in DOMAIN e : f[k] = React(f[k - 1], u, s, e[k])
                /\ Reactions(b, u, s, e) = f[Len(e)]
<1> DEFINE n == Len(e)
<1>n. n \in 0..5 /\ DOMAIN e = 1..n
  <2>1. Len(e) \in Nat /\ DOMAIN e = 1..Len(e)
    OBVIOUS
  <2> QED BY <2>1
<1> DEFINE Step(f) == [k \in 0..n |-> IF k = 0 THEN Counted(b, s, e) ELSE React(f[k - 1], u, s, e[k])]
           f0 == CHOOSE f : f = Step(f)
           c0 == Counted(b, s, e)
           c1 == React(c0, u, s, e[1])
           c2 == React(c1, u, s, e[2])
           c3 == React(c2, u, s, e[3])
           c4 == React(c3, u, s, e[4])
           c5 == React(c4, u, s, e[5])
           g == [k \in 0..n |-> IF k = 0 THEN c0 ELSE IF k = 1 THEN c1 ELSE IF k = 2 THEN c2
                                ELSE IF k = 3 THEN c3 ELSE IF k = 4 THEN c4 ELSE c5]
<1>1. Reactions(b, u, s, e) = f0[n]
  BY DEF Reactions
<1> HIDE DEF n
<1>2. g = Step(g)
  <2>1. ASSUME NEW k \in 0..n PROVE g[k] = Step(g)[k]
    <3>1. k = 0 \/ k = 1 \/ k = 2 \/ k = 3 \/ k = 4 \/ k = 5
      BY <1>n
    <3>2. k # 0 => k - 1 \in 0..n
      BY <1>n
    <3> QED BY <3>1, <3>2, <1>n
  <2> QED BY <2>1
<1>3. f0 = Step(f0)
  BY <1>2
<1> HIDE DEF f0
<1>4. f0[0] = c0 /\ \A k \in 1..n : f0[k] = React(f0[k - 1], u, s, e[k])
  <2>1. ASSUME NEW k \in 0..n PROVE f0[k] = Step(f0)[k]
    BY <1>3
  <2>2. 0 \in 0..n /\ \A k \in 1..n : k \in 0..n /\ k # 0
    BY <1>n
  <2> QED BY <2>1, <2>2
<1> QED BY <1>1, <1>4, <1>n DEF n

\* The reactions to no event and to a single one.
LEMMA ReactionsFew ==
  ASSUME NEW b, NEW u, NEW s, NEW e \in Seq(EventNames), Len(e) <= 5
  PROVE  /\ Len(e) = 0 => Reactions(b, u, s, e) = Counted(b, s, e)
         /\ Len(e) = 1 => Reactions(b, u, s, e) = React(Counted(b, s, e), u, s, e[1])
<1>1. PICK f : /\ f[0] = Counted(b, s, e)
               /\ \A k \in DOMAIN e : f[k] = React(f[k - 1], u, s, e[k])
               /\ Reactions(b, u, s, e) = f[Len(e)]
  BY ReactionsUnfold
<1>2. Len(e) = 1 => 1 \in DOMAIN e /\ 1 - 1 = 0
  OBVIOUS
<1>3. Len(e) = 1 => f[1] = React(f[1 - 1], u, s, e[1])
  BY <1>1, <1>2
<1> QED BY <1>1, <1>2, <1>3

-----------------------------------------------------------------------------
(* The invariant, as a predicate on a block b (the pane, its timers, the        *)
(* persisted arms and the limit stops) whose session is s                      *)

Blocks ==
  [pane : Panes \cup {NoPane}, timers : SUBSET TimerRecords, store : [Ids -> Saved \cup {NoTime}],
   stops : Seq(Ids)]

\* What the rest of the state means for a block.  early and owned switch on the
\* parts of the invariant that need a hypothesis; on: the sessions for which
\* auto-continue is on; over, sent: the stops that were dismissed and answered.
Contexts ==
  [early : BOOLEAN, owned : BOOLEAN, on : SUBSET Ids, over : SUBSET Nat, sent : SUBSET Nat,
   stops : Seq(Ids)]

\* The limit stops of session id that may still be answered.
Open(c, id) == {n \in DOMAIN c.stops : c.stops[n] = id /\ n \notin c.over /\ n \notin c.sent}

\* What SessionInv says of a session that matters here.
Fit(s) ==
  s # NoSession => s \in Sessions /\ (s.rich => s.id \in Ids) /\ (s.stop.limit => s.rich)

\* A pane has state for a session with a plugin only; what it waits for is named,
\* and an arm has the pane's generation.
Kept(b, s) ==
  b.pane # NoPane =>
    /\ s # NoSession /\ s.rich
    /\ b.pane.pending # 0 => b.pane.pendingId \in Ids
    /\ b.pane.armed # NoArm => b.pane.enabled /\ b.pane.armed.gen = b.pane.gen

\* No timer is ahead of the pane, and none of the current generation is early.
Early(b) ==
  IF b.pane = NoPane THEN b.timers = {}
  ELSE \A tm \in b.timers :
         tm.gen <= b.pane.gen
         /\ (b.pane.armed # NoArm /\ tm.gen = b.pane.gen => b.pane.armed.at <= tm.at)

\* A pane that is switched on serves its own session, for which auto-continue is on,
\* and everything that could type a Continue is about an open stop of that session.
OwnedPane(b, s, c) ==
  b.pane # NoPane =>
    /\ b.pane.enabled => b.pane.key = s.id /\ s.id \in c.on
    /\ b.pane.pending # 0 =>
         b.pane.enabled /\ b.pane.pendingId = s.id /\ b.pane.pending \in Open(c, s.id)
    /\ b.pane.armed # NoArm =>
         /\ b.pane.armed.id = s.id /\ b.pane.armed.stop \in Open(c, s.id)
         /\ b.store[s.id] # NoTime /\ b.store[s.id].stop = b.pane.armed.stop

OwnedStore(b, c) == \A id \in Ids : b.store[id] # NoTime => b.store[id].stop \in Open(c, id)

\* The stop at which the session rests is the last one counted.  It is open, or
\* the user typed over it and the pane, still enabled, will not pick it up again.
OwnedStop(b, s, c) ==
  LimitStop(s) =>
    /\ Len(c.stops) # 0 /\ c.stops[Len(c.stops)] = s.id /\ Len(c.stops) \notin c.sent
    /\ Len(c.stops) \in c.over => b.pane # NoPane /\ b.pane.enabled

Core(b, s, c) ==
  /\ b \in Blocks /\ b.stops = c.stops /\ Fit(s) /\ Kept(b, s)
  /\ c.early => Early(b)
  /\ c.owned => OwnedPane(b, s, c) /\ OwnedStore(b, c) /\ OwnedStop(b, s, c)

HasTimer(b) ==
  b.pane # NoPane =>
    (b.pane.armed # NoArm => \E tm \in b.timers : tm.gen = b.pane.armed.gen /\ tm.at <= b.pane.armed.at)

Sound(b, s, c) == Core(b, s, c) /\ HasTimer(b)

-----------------------------------------------------------------------------
(* The operators on a block: their fields *)

\* Panes are not the absence of one, and the like.
LEMMA Sentinels ==
  /\ \A p \in Panes : p # NoPane
  /\ \A a \in Arms : a # NoArm
  /\ \A v \in Saved : v # NoTime
  /\ \A id \in Ids : id # NoId
BY AutoContinueAssumption, SessionAssumption

\* schedule_auto_continue: a timer of the arm's generation.
LEMMA WithTimerFields ==
  ASSUME NEW b \in Blocks, NEW arm \in Arms, now \in Nat
  PROVE  /\ WithTimer(b, arm) \in Blocks
         /\ WithTimer(b, arm).pane = b.pane /\ WithTimer(b, arm).store = b.store
         /\ WithTimer(b, arm).stops = b.stops
         /\ \E tm \in TimerRecords : /\ tm.gen = arm.gen /\ tm.at = arm.at
                                     /\ WithTimer(b, arm).timers = b.timers \cup {tm}
<1> DEFINE w == MinOf(MaxOf(arm.at, now), now + Chunk)
           tm == [at |-> arm.at, gen |-> arm.gen, wake |-> w]
<1>1. arm.at \in Nat /\ arm.gen \in Nat
  BY DEF Arms
<1>2. w \in Nat
  BY <1>1 DEF MinOf, MaxOf, Chunk
<1> HIDE DEF w
<1>3. tm \in TimerRecords /\ tm.gen = arm.gen /\ tm.at = arm.at
  BY <1>1, <1>2 DEF TimerRecords
<1>4. WithTimer(b, arm) = [b EXCEPT !.timers = @ \cup {tm}]
  BY DEF WithTimer, w
<1> HIDE DEF tm
<1> QED BY <1>3, <1>4 DEF Blocks

\* The persisted arm of a session is written or removed.
LEMMA SaveFields ==
  ASSUME NEW b \in Blocks, NEW key \in Ids \cup {NoId}, NEW v \in Saved \cup {NoTime}
  PROVE  /\ Save(b, key, v) \in Blocks
         /\ Save(b, key, v).pane = b.pane /\ Save(b, key, v).timers = b.timers
         /\ Save(b, key, v).stops = b.stops
         /\ key = NoId => Save(b, key, v).store = b.store
         /\ key \in Ids => Save(b, key, v).store = [b.store EXCEPT ![key] = v]
<1>1. CASE key = NoId
  BY <1>1, Sentinels DEF Save
<1>2. CASE key # NoId
  <2>1. Save(b, key, v) = [b EXCEPT !.store[key] = v] /\ key \in Ids
    BY <1>2 DEF Save
  <2> QED BY <1>2, <2>1 DEF Blocks
<1> QED BY <1>1, <1>2

\* A pane is replaced.
LEMMA PaneFields ==
  ASSUME NEW b \in Blocks, NEW p \in Panes \cup {NoPane}
  PROVE  /\ [b EXCEPT !.pane = p] \in Blocks
         /\ [b EXCEPT !.pane = p].pane = p /\ [b EXCEPT !.pane = p].timers = b.timers
         /\ [b EXCEPT !.pane = p].store = b.store /\ [b EXCEPT !.pane = p].stops = b.stops
BY DEF Blocks

\* The context that the rest of the state gives to a block.
Context(early, owned) ==
  [early |-> early, owned |-> owned, on |-> {id \in Ids : EffectiveIn(overrides, default, id)},
   over |-> dismissed, sent |-> {sent[k].stop : k \in DOMAIN sent}, stops |-> stops]

\* Arm: a new arm is installed, persisted under the pane's key and announced.
LEMMA ArmFields ==
  ASSUME NEW b \in Blocks, b.pane # NoPane, NEW arm \in Arms, now \in Nat
  PROVE  /\ Arm(b, arm) \in Blocks /\ Arm(b, arm).stops = b.stops
         /\ Arm(b, arm).pane \in Panes
         /\ Arm(b, arm).pane.gen = arm.gen /\ Arm(b, arm).pane.armed = arm
         /\ Arm(b, arm).pane.pending = 0
         /\ Arm(b, arm).pane.enabled = b.pane.enabled /\ Arm(b, arm).pane.key = b.pane.key
         /\ b.pane.key = NoId => Arm(b, arm).store = b.store
         /\ b.pane.key \in Ids =>
              Arm(b, arm).store = [b.store EXCEPT ![b.pane.key] = [at |-> arm.at, stop |-> arm.stop]]
         /\ \E tm \in TimerRecords : /\ tm.gen = arm.gen /\ tm.at = arm.at
                                     /\ Arm(b, arm).timers = b.timers \cup {tm}
<1> DEFINE p == [b.pane EXCEPT !.gen = arm.gen, !.armed = arm, !.pending = 0, !.pendingId = NoId]
           a == [b EXCEPT !.pane.gen = arm.gen, !.pane.armed = arm, !.pane.pending = 0,
                          !.pane.pendingId = NoId]
           v == [at |-> arm.at, stop |-> arm.stop]
           d == Save(a, b.pane.key, v)
<1>0. b.pane \in Panes
  BY DEF Blocks
<1>v. v \in Saved
  BY DEF Saved, Arms
<1>1. p \in Panes /\ p.gen = arm.gen /\ p.armed = arm /\ p.pending = 0 /\ p.enabled = b.pane.enabled
      /\ p.key = b.pane.key
  BY <1>0 DEF Panes, Arms
<1>2. a = [b EXCEPT !.pane = p]
  BY <1>0 DEF Blocks, Panes
<1>3. Arm(b, arm) = WithTimer(d, arm)
  BY DEF Arm
<1> HIDE DEF p, a, v
<1>4. a \in Blocks /\ a.pane = p /\ a.timers = b.timers /\ a.store = b.store /\ a.stops = b.stops
  BY <1>1, <1>2, PaneFields
<1>5. b.pane.key \in Ids \cup {NoId}
  BY <1>0 DEF Panes
<1>6. /\ d \in Blocks /\ d.pane = p /\ d.timers = b.timers /\ d.stops = b.stops
      /\ b.pane.key = NoId => d.store = b.store
      /\ b.pane.key \in Ids => d.store = [b.store EXCEPT ![b.pane.key] = v]
  BY <1>4, <1>5, <1>v, SaveFields
<1> HIDE DEF d
<1>7. /\ Arm(b, arm) \in Blocks /\ Arm(b, arm).pane = p /\ Arm(b, arm).store = d.store
      /\ Arm(b, arm).stops = b.stops
      /\ \E tm \in TimerRecords : /\ tm.gen = arm.gen /\ tm.at = arm.at
                                  /\ Arm(b, arm).timers = b.timers \cup {tm}
  BY <1>3, <1>6, WithTimerFields
<1>8. /\ b.pane.key = NoId => Arm(b, arm).store = b.store
      /\ b.pane.key \in Ids => Arm(b, arm).store = [b.store EXCEPT ![b.pane.key] = v]
  BY <1>6, <1>7
<1> QED BY <1>1, <1>7, <1>8 DEF v

\* disarm: nothing is pending or armed under the next generation.
LEMMA DisarmFields ==
  ASSUME NEW b \in Blocks, b.pane # NoPane
  PROVE  /\ Disarm(b) \in Blocks /\ Disarm(b).stops = b.stops /\ Disarm(b).timers = b.timers
         /\ Disarm(b).pane \in Panes
         /\ Disarm(b).pane.gen = b.pane.gen + 1 /\ Disarm(b).pane.armed = NoArm
         /\ Disarm(b).pane.pending = 0
         /\ Disarm(b).pane.enabled = b.pane.enabled /\ Disarm(b).pane.key = b.pane.key
         /\ \/ Disarm(b).store = b.store /\ (b.pane.key \in Ids => b.pane.pending = 0 /\ b.pane.armed = NoArm)
            \/ b.pane.key \in Ids /\ Disarm(b).store = [b.store EXCEPT ![b.pane.key] = NoTime]
<1> DEFINE p == [b.pane EXCEPT !.gen = @ + 1, !.pending = 0, !.pendingId = NoId, !.armed = NoArm]
           d == [b EXCEPT !.pane.gen = @ + 1, !.pane.pending = 0, !.pane.pendingId = NoId,
                          !.pane.armed = NoArm]
           held == b.pane.pending # 0 \/ b.pane.armed # NoArm
<1>0. b.pane \in Panes
  BY DEF Blocks
<1>1. p \in Panes /\ p.gen = b.pane.gen + 1 /\ p.armed = NoArm /\ p.pending = 0
      /\ p.enabled = b.pane.enabled /\ p.key = b.pane.key
  <2>1. b.pane.gen \in Nat /\ b.pane.gen + 1 \in Nat
    BY <1>0 DEF Panes
  <2>2. p \in Panes
    <3> DEFINE g == b.pane.gen + 1
               none == NoArm
    <3>1. p = [b.pane EXCEPT !.gen = g, !.pending = 0, !.pendingId = NoId, !.armed = none]
      OBVIOUS
    <3>2. g \in Nat /\ none \in Arms \cup {NoArm} /\ NoId \in Ids \cup {NoId}
      BY <2>1
    <3> HIDE DEF g, none, p
    <3> QED BY <1>0, <3>1, <3>2 DEF Panes
  <2>3. DOMAIN b.pane = {"enabled", "pending", "pendingId", "armed", "gen", "key"}
    BY <1>0 DEF Panes
  <2> QED BY <2>2, <2>3
<1>2. d = [b EXCEPT !.pane = p]
  BY <1>0 DEF Blocks, Panes
<1>3. Disarm(b) = IF held THEN Save(d, b.pane.key, NoTime) ELSE d
  BY DEF Disarm
<1>h. held \in BOOLEAN /\ (~held => b.pane.pending = 0 /\ b.pane.armed = NoArm)
  OBVIOUS
<1> HIDE DEF p, d, held
<1>4. d \in Blocks /\ d.pane = p /\ d.timers = b.timers /\ d.store = b.store /\ d.stops = b.stops
  BY <1>1, <1>2, PaneFields
<1>5. b.pane.key \in Ids \cup {NoId}
  BY <1>0 DEF Panes
<1>6. CASE held
  <2> DEFINE e == Save(d, b.pane.key, NoTime)
  <2>1. /\ e \in Blocks /\ e.pane = p /\ e.timers = b.timers /\ e.stops = b.stops
        /\ b.pane.key = NoId => e.store = b.store
        /\ b.pane.key \in Ids => e.store = [b.store EXCEPT ![b.pane.key] = NoTime]
    <3> DEFINE key == b.pane.key
               none == NoTime
    <3>1. none \in Saved \cup {NoTime} /\ key \in Ids \cup {NoId} /\ d \in Blocks
      BY <1>4, <1>5
    <3> HIDE DEF none, key
    <3>2. /\ Save(d, key, none) \in Blocks
          /\ Save(d, key, none).pane = d.pane /\ Save(d, key, none).timers = d.timers
          /\ Save(d, key, none).stops = d.stops
          /\ key = NoId => Save(d, key, none).store = d.store
          /\ key \in Ids => Save(d, key, none).store = [d.store EXCEPT ![key] = none]
      BY <3>1, SaveFields
    <3> QED BY <1>4, <3>2 DEF key, none
  <2> HIDE DEF e
  <2>2. Disarm(b) = e
    BY <1>3, <1>6 DEF e
  <2>3. b.pane.key \in Ids => b.pane.key # NoId
    BY Sentinels
  <2> QED BY <1>1, <1>5, <2>1, <2>2, <2>3
<1>7. CASE ~held
  <2>1. Disarm(b) = d
    BY <1>3, <1>7
  <2> QED BY <1>1, <1>4, <1>7, <1>h, <2>1
<1> QED BY <1>6, <1>7

-----------------------------------------------------------------------------
(* ... and what they keep *)

\* Disarming keeps the invariant, and needs no timer for it.
LEMMA DisarmSound ==
  ASSUME NEW b, NEW s, NEW c \in Contexts, Core(b, s, c)
  PROVE  Sound(Disarm(b), s, c)
<1> DEFINE d == Disarm(b)
<1>b. b \in Blocks /\ b.stops = c.stops /\ Fit(s) /\ Kept(b, s)
  BY DEF Core
<1>1. CASE b.pane = NoPane
  <2>1. d = b
    BY <1>1 DEF Disarm
  <2> QED BY <1>1, <2>1 DEF Sound, HasTimer
<1>2. CASE b.pane # NoPane
  <2>1. /\ d \in Blocks /\ d.stops = b.stops /\ d.timers = b.timers
        /\ d.pane \in Panes
        /\ d.pane.gen = b.pane.gen + 1 /\ d.pane.armed = NoArm /\ d.pane.pending = 0
        /\ d.pane.enabled = b.pane.enabled /\ d.pane.key = b.pane.key
        /\ \/ d.store = b.store
           \/ b.pane.key \in Ids /\ d.store = [b.store EXCEPT ![b.pane.key] = NoTime]
    BY <1>2, <1>b, DisarmFields
  <2> HIDE DEF d
  <2>2. d.pane # NoPane
    BY <2>1, Sentinels
  <2>3. Kept(d, s)
    BY <1>2, <1>b, <2>1 DEF Kept
  <2>4. c.early => Early(d)
    <3>1. ASSUME c.early PROVE Early(d)
      <4>1. \A tm \in b.timers : tm.gen <= b.pane.gen /\ tm.gen \in Nat
        BY <1>2, <1>b, <3>1 DEF Core, Early, Blocks, TimerRecords
      <4>2. b.pane.gen \in Nat
        BY <1>2, <1>b DEF Blocks, Panes
      <4> QED BY <2>1, <2>2, <4>1, <4>2 DEF Early
    <3> QED BY <3>1
  <2>5. ASSUME c.owned PROVE OwnedPane(d, s, c) /\ OwnedStore(d, c) /\ OwnedStop(d, s, c)
    <3>1. OwnedPane(b, s, c) /\ OwnedStore(b, c) /\ OwnedStop(b, s, c)
      BY <2>5 DEF Core
    <3>2. OwnedPane(d, s, c)
      BY <1>2, <2>1, <3>1 DEF OwnedPane
    <3>3. b.store \in [Ids -> Saved \cup {NoTime}]
      BY <1>b DEF Blocks
    <3>4. OwnedStore(d, c)
      BY <2>1, <3>1, <3>3 DEF OwnedStore
    <3>5. OwnedStop(d, s, c)
      BY <1>2, <2>1, <2>2, <3>1 DEF OwnedStop
    <3> QED BY <3>2, <3>4, <3>5
  <2>6. Core(d, s, c)
    BY <1>b, <2>1, <2>3, <2>4, <2>5 DEF Core
  <2>7. HasTimer(d)
    BY <2>1 DEF HasTimer
  <2> QED BY <2>6, <2>7 DEF Sound, d
<1> QED BY <1>1, <1>2

\* Arming an enabled pane for an open stop of its session gives it a timer.
LEMMA ArmSound ==
  ASSUME NEW b, NEW s, NEW c \in Contexts, Core(b, s, c), b.pane # NoPane, b.pane.enabled,
         now \in Nat, NEW arm \in Arms, arm.gen = b.pane.gen + 1,
         c.owned => arm.id = s.id /\ arm.stop \in Open(c, s.id)
  PROVE  Sound(Arm(b, arm), s, c)
<1> DEFINE d == Arm(b, arm)
           v == [at |-> arm.at, stop |-> arm.stop]
<1>b. b \in Blocks /\ b.stops = c.stops /\ Fit(s) /\ Kept(b, s)
  BY DEF Core
<1>1. /\ d \in Blocks /\ d.stops = b.stops /\ d.pane \in Panes
      /\ d.pane.gen = arm.gen /\ d.pane.armed = arm /\ d.pane.pending = 0
      /\ d.pane.enabled = b.pane.enabled /\ d.pane.key = b.pane.key
      /\ b.pane.key \in Ids => d.store = [b.store EXCEPT ![b.pane.key] = v]
  BY <1>b, ArmFields
<1>2. PICK tm \in TimerRecords : tm.gen = arm.gen /\ tm.at = arm.at /\ d.timers = b.timers \cup {tm}
  BY <1>b, ArmFields
<1>v. v.stop = arm.stop /\ v # NoTime
  <2>1. v \in Saved
    BY DEF Saved, Arms
  <2> QED BY <2>1, Sentinels
<1> HIDE DEF d, v
<1>3. d.pane # NoPane /\ arm # NoArm /\ arm.at \in Nat /\ arm.gen \in Nat
  BY <1>1, Sentinels DEF Arms
<1>4. Kept(d, s)
  BY <1>1, <1>b DEF Kept
<1>5. ASSUME c.early PROVE Early(d)
  <2>1. \A x \in b.timers : x.gen <= b.pane.gen /\ x.gen \in Nat
    BY <1>b, <1>5 DEF Core, Early, Blocks, TimerRecords
  <2>2. b.pane.gen \in Nat
    BY <1>b DEF Blocks, Panes
  <2>3. \A x \in b.timers : x.gen <= arm.gen /\ x.gen # arm.gen
    BY <2>1, <2>2
  <2>4. tm.gen <= arm.gen /\ arm.at <= tm.at
    BY <1>2, <1>3
  <2> QED BY <1>1, <1>2, <1>3, <2>3, <2>4 DEF Early
<1>6. ASSUME c.owned PROVE OwnedPane(d, s, c) /\ OwnedStore(d, c) /\ OwnedStop(d, s, c)
  <2>1. OwnedPane(b, s, c) /\ OwnedStore(b, c) /\ OwnedStop(b, s, c)
    BY <1>6 DEF Core
  <2>2. b.pane.key = s.id /\ s.id \in Ids
    BY <1>b, <2>1 DEF OwnedPane, Fit, Kept
  <2>3. b.store \in [Ids -> Saved \cup {NoTime}]
    BY <1>b DEF Blocks
  <2>4. d.store[s.id] = v /\ \A id \in Ids : id # s.id => d.store[id] = b.store[id]
    BY <1>1, <2>2, <2>3
  <2>5. OwnedPane(d, s, c)
    BY <1>1, <1>6, <1>v, <2>1, <2>2, <2>4 DEF OwnedPane
  <2>6. OwnedStore(d, c)
    BY <1>6, <1>v, <2>1, <2>4 DEF OwnedStore
  <2>7. OwnedStop(d, s, c)
    BY <1>1, <1>3, <2>1 DEF OwnedStop
  <2> QED BY <2>5, <2>6, <2>7
<1>7. Core(d, s, c)
  BY <1>1, <1>4, <1>5, <1>6, <1>b DEF Core
<1>8. HasTimer(d)
  <2>1. tm \in d.timers /\ tm.gen = d.pane.armed.gen /\ tm.at <= d.pane.armed.at
    BY <1>1, <1>2, <1>3
  <2> QED BY <2>1 DEF HasTimer
<1> QED BY <1>7, <1>8 DEF Sound, d

\* Confirm: a pending stop whose reset time is known is armed.
LEMMA ConfirmSound ==
  ASSUME NEW b, NEW s, NEW c \in Contexts, Sound(b, s, c), b.pane # NoPane, b.pane.enabled,
         now \in Nat, NEW reset \in Nat
  PROVE  Sound(Confirm(b, reset), s, c)
<1> DEFINE arm == [at |-> reset + Slack, id |-> b.pane.pendingId, gen |-> b.pane.gen + 1, tries |-> 0,
                   restored |-> FALSE, stop |-> b.pane.pending]
<1>b. b \in Blocks /\ Kept(b, s) /\ Core(b, s, c)
  BY DEF Core, Sound
<1>1. CASE b.pane.pending = 0 \/ reset <= now
  BY <1>1 DEF Confirm
<1>2. CASE ~(b.pane.pending = 0 \/ reset <= now)
  <2>1. Confirm(b, reset) = Arm(b, arm)
    BY <1>2 DEF Confirm
  <2>2. b.pane.pendingId \in Ids /\ b.pane.gen \in Nat /\ b.pane.pending \in Nat
    BY <1>2, <1>b DEF Kept, Blocks, Panes
  <2>3. arm \in Arms
    <3> DEFINE no == FALSE
    <3>1. no \in BOOLEAN /\ reset + Slack \in Nat /\ b.pane.gen + 1 \in Nat
      BY <2>2 DEF Slack
    <3>2. arm = [at |-> reset + Slack, id |-> b.pane.pendingId, gen |-> b.pane.gen + 1, tries |-> 0,
                 restored |-> no, stop |-> b.pane.pending]
      OBVIOUS
    <3> HIDE DEF no, arm
    <3> QED BY <2>2, <3>1, <3>2 DEF Arms
  <2>4. arm.gen = b.pane.gen + 1 /\ arm.id = b.pane.pendingId /\ arm.stop = b.pane.pending
    OBVIOUS
  <2> HIDE DEF arm
  <2>5. c.owned => arm.id = s.id /\ arm.stop \in Open(c, s.id)
    BY <1>2, <1>b, <2>4 DEF Core, OwnedPane
  <2> QED BY <1>b, <2>1, <2>3, <2>4, <2>5, ArmSound
<1> QED BY <1>1, <1>2

\* A pane is replaced by one with the same arm, or none, under the same generation.
LEMMA PaneSound ==
  ASSUME NEW b, NEW s, NEW c \in Contexts, Sound(b, s, c), b.pane # NoPane, NEW p \in Panes,
         p.gen = b.pane.gen, p.armed = b.pane.armed, b.pane.enabled => p.enabled,
         p.pending # 0 => p.pendingId \in Ids,
         c.owned => /\ p.enabled => p.key = s.id /\ s.id \in c.on
                    /\ p.pending # 0 => p.enabled /\ p.pendingId = s.id /\ p.pending \in Open(c, s.id)
  PROVE  Sound([b EXCEPT !.pane = p], s, c)
<1> DEFINE d == [b EXCEPT !.pane = p]
<1>b. b \in Blocks /\ b.stops = c.stops /\ Fit(s) /\ Kept(b, s) /\ HasTimer(b)
  BY DEF Core, Sound
<1>1. d \in Blocks /\ d.pane = p /\ d.timers = b.timers /\ d.store = b.store /\ d.stops = b.stops
  BY <1>b, PaneFields
<1>2. p # NoPane
  BY Sentinels
<1> HIDE DEF d
<1>3. Kept(d, s)
  BY <1>1, <1>b DEF Kept
<1>4. c.early => Early(d)
  BY <1>1, <1>2 DEF Sound, Core, Early
<1>5. ASSUME c.owned PROVE OwnedPane(d, s, c) /\ OwnedStore(d, c) /\ OwnedStop(d, s, c)
  <2>1. OwnedPane(b, s, c) /\ OwnedStore(b, c) /\ OwnedStop(b, s, c)
    BY <1>5 DEF Core, Sound
  <2>2. OwnedPane(d, s, c)
    BY <1>1, <1>2, <1>5, <2>1 DEF OwnedPane
  <2>3. OwnedStore(d, c)
    BY <1>1, <2>1 DEF OwnedStore
  <2>4. OwnedStop(d, s, c)
    BY <1>1, <1>2, <2>1 DEF OwnedStop
  <2> QED BY <2>2, <2>3, <2>4
<1>6. Core(d, s, c)
  BY <1>1, <1>3, <1>4, <1>5, <1>b DEF Core
<1>7. HasTimer(d)
  BY <1>1, <1>b DEF HasTimer
<1> QED BY <1>6, <1>7 DEF Sound, d

\* reset_for_limit_stop is a time.
LEMMA ResetTimes ==
  ASSUME NEW u \in Usages, NEW stated \in Resets \cup {0}
  PROVE  ResetFor(u, stated) \in Nat
<1>1. Resets \subseteq Nat
  BY SessionAssumption
<1>2. u.reset \in Nat
  <2>1. CASE \E k \in {"none", "free", "unknown"} : u = [kind |-> k, reset |-> 0]
    BY <2>1
  <2>2. CASE u \in [kind : {"near", "full"}, reset : Resets]
    BY <1>1, <2>2
  <2> QED BY <2>1, <2>2 DEF Usages
<1>3. stated \in Nat
  BY <1>1
<1> QED BY <1>2, <1>3 DEF ResetFor, MaxOf

\* The stop at which session s rests may be answered.
Answerable(s, c) == c.owned => Len(c.stops) \in Open(c, s.id)

\* on_agent_session_stopped: a limit stop that may be answered becomes pending.
LEMMA StoppedSound ==
  ASSUME NEW b, NEW s, NEW c \in Contexts, Sound(b, s, c), NEW u \in Usages, now \in Nat,
         LimitStop(s), Answerable(s, c)
  PROVE  Sound(Stopped(b, u, s), s, c)
<1>b. b \in Blocks /\ b.stops = c.stops /\ Fit(s) /\ Kept(b, s)
  BY DEF Core, Sound
<1>1. CASE b.pane = NoPane
  BY <1>1 DEF Stopped
<1>2. CASE b.pane # NoPane /\ (~b.pane.enabled \/ b.pane.armed # NoArm)
  BY <1>2 DEF Stopped
<1>3. CASE b.pane # NoPane /\ b.pane.enabled /\ b.pane.armed = NoArm
  <2> DEFINE p == [b.pane EXCEPT !.pending = Len(b.stops), !.pendingId = s.id]
             d == [b EXCEPT !.pane.pending = Len(b.stops), !.pane.pendingId = s.id]
             reset == ResetFor(u, s.stop.reset)
  <2>1. Stopped(b, u, s) = Confirm(d, reset)
    BY <1>3 DEF Stopped
  <2>2. s \in Sessions /\ s.id \in Ids
    BY <1>b DEF Fit, LimitStop
  <2>3. reset \in Nat
    <3>1. s.stop \in Stops
      BY <2>2 DEF Sessions
    <3>2. s.stop.reset \in Resets \cup {0}
      BY <3>1 DEF Stops
    <3> QED BY <3>2, ResetTimes
  <2>4. b.pane \in Panes /\ Len(b.stops) \in Nat
    BY <1>3, <1>b DEF Blocks
  <2>5. d = [b EXCEPT !.pane = p]
    BY <1>b, <2>4 DEF Blocks, Panes
  <2>6. /\ p \in Panes /\ p.gen = b.pane.gen /\ p.armed = b.pane.armed /\ p.enabled = b.pane.enabled
        /\ p.key = b.pane.key /\ p.pending = Len(b.stops) /\ p.pendingId = s.id
    BY <2>2, <2>4 DEF Panes
  <2> HIDE DEF p, d, reset
  <2>7. Sound(d, s, c)
    <3>1. c.owned => /\ p.enabled => p.key = s.id /\ s.id \in c.on
                     /\ p.pending # 0 =>
                          p.enabled /\ p.pendingId = s.id /\ p.pending \in Open(c, s.id)
      BY <1>3, <1>b, <2>6 DEF Sound, Core, OwnedPane, Answerable
    <3> QED BY <1>3, <2>2, <2>5, <2>6, <3>1, PaneSound
  <2>8. d.pane # NoPane /\ d.pane.enabled
    <3>1. d.pane = p
      BY <1>b, <2>5, <2>6, PaneFields
    <3> QED BY <1>3, <2>6, <3>1, Sentinels
  <2> QED BY <2>1, <2>3, <2>7, <2>8, ConfirmSound
<1> QED BY <1>1, <1>2, <1>3

\* The pane is switched on for the eligible session in it.
LEMMA EnableSound ==
  ASSUME NEW b, NEW s, NEW c \in Contexts, Sound(b, s, c), Eligible(s),
         c.owned => s.id \in c.on
  PROVE  LET p == IF b.pane = NoPane THEN NewPane ELSE b.pane
             q == [p EXCEPT !.key = s.id, !.enabled = TRUE]
         IN  /\ Sound([b EXCEPT !.pane = q], s, c) /\ [b EXCEPT !.pane = q].pane = q
             /\ q \in Panes /\ q.enabled /\ q.armed = p.armed
<1> DEFINE p == IF b.pane = NoPane THEN NewPane ELSE b.pane
           q == [p EXCEPT !.key = s.id, !.enabled = TRUE]
           d == [b EXCEPT !.pane = q]
<1>b. b \in Blocks /\ b.stops = c.stops /\ Fit(s) /\ Kept(b, s)
  BY DEF Core, Sound
<1>s. s # NoSession /\ s.rich /\ s.id \in Ids
  BY <1>b DEF Eligible, Fit
<1>1. p \in Panes
  <2> DEFINE no == FALSE
             none == NoArm
  <2>1. no \in BOOLEAN /\ none \in Arms \cup {NoArm}
    OBVIOUS
  <2>2. NewPane = [enabled |-> no, pending |-> 0, pendingId |-> NoId, armed |-> none, gen |-> 0, key |-> NoId]
    BY DEF NewPane
  <2> HIDE DEF no, none
  <2>3. NewPane \in Panes
    BY <2>1, <2>2 DEF Panes
  <2> QED BY <1>b, <2>3 DEF Blocks
<1> HIDE DEF p
<1>2. /\ q \in Panes /\ q.enabled /\ q.key = s.id /\ q.gen = p.gen /\ q.armed = p.armed
      /\ q.pending = p.pending /\ q.pendingId = p.pendingId
  BY <1>1, <1>s DEF Panes
<1> HIDE DEF q
<1>3. d \in Blocks /\ d.pane = q /\ d.timers = b.timers /\ d.store = b.store /\ d.stops = b.stops
  BY <1>2, <1>b, PaneFields
<1> HIDE DEF d
<1>4. Sound(d, s, c)
  <2>1. CASE b.pane = NoPane
    <3>1. p.armed = NoArm /\ p.pending = 0
      BY <2>1 DEF p, NewPane
    <3>2. q # NoPane
      BY <1>2, Sentinels
    <3>3. Kept(d, s)
      BY <1>2, <1>3, <1>s, <3>1 DEF Kept
    <3>4. c.early => Early(d)
      BY <1>3, <2>1, <3>2 DEF Sound, Core, Early
    <3>5. ASSUME c.owned PROVE OwnedPane(d, s, c) /\ OwnedStore(d, c) /\ OwnedStop(d, s, c)
      <4>1. OwnedStore(b, c) /\ OwnedStop(b, s, c)
        BY <3>5 DEF Core, Sound
      <4>2. OwnedPane(d, s, c)
        BY <1>2, <1>3, <3>1, <3>5 DEF OwnedPane
      <4>3. OwnedStore(d, c)
        BY <1>3, <4>1 DEF OwnedStore
      <4>4. OwnedStop(d, s, c)
        BY <1>2, <1>3, <3>2, <4>1 DEF OwnedStop
      <4> QED BY <4>2, <4>3, <4>4
    <3>6. Core(d, s, c)
      BY <1>3, <1>b, <3>3, <3>4, <3>5 DEF Core
    <3>7. HasTimer(d)
      BY <1>2, <1>3, <3>1 DEF HasTimer
    <3> QED BY <3>6, <3>7 DEF Sound
  <2>2. CASE b.pane # NoPane
    <3>1. p = b.pane
      BY <2>2 DEF p
    <3>2. c.owned /\ q.pending # 0 =>
            q.enabled /\ q.pendingId = s.id /\ q.pending \in Open(c, s.id)
      BY <1>2, <2>2, <3>1 DEF Sound, Core, OwnedPane
    <3>3. q.pending # 0 => q.pendingId \in Ids
      BY <1>2, <1>b, <2>2, <3>1 DEF Kept
    <3> QED BY <1>2, <2>2, <3>1, <3>2, <3>3, PaneSound DEF d
  <2> QED BY <2>1, <2>2
<1> QED BY <1>2, <1>3, <1>4 DEF d, q, p

\* restore_arm: a persisted arm comes back under its own session.
LEMMA RestoreArmSound ==
  ASSUME NEW b, NEW s, NEW c \in Contexts, Sound(b, s, c), Eligible(s), now \in Nat,
         b.pane # NoPane, b.pane.enabled
  PROVE  /\ Sound(RestoreArm(b, s), s, c)
         /\ RestoreArm(b, s).pane # NoPane
<1> DEFINE saved == b.store[s.id]
           arm == [at |-> MaxOf(saved.at, now), id |-> s.id, gen |-> b.pane.gen + 1, tries |-> 0,
                   restored |-> TRUE, stop |-> saved.stop]
           p == [b.pane EXCEPT !.gen = arm.gen, !.armed = arm]
           a == [b EXCEPT !.pane.gen = arm.gen, !.pane.armed = arm]
           d == WithTimer(a, arm)
<1>b. b \in Blocks /\ b.stops = c.stops /\ Fit(s) /\ Kept(b, s)
  BY DEF Core, Sound
<1>s. s # NoSession /\ s.rich /\ s.id \in Ids
  BY <1>b DEF Eligible, Fit
<1>1. CASE saved = NoTime \/ b.pane.armed # NoArm
  BY <1>1 DEF RestoreArm
<1>2. CASE ~(saved = NoTime \/ b.pane.armed # NoArm)
  <2>1. RestoreArm(b, s) = d
    BY <1>2 DEF RestoreArm
  <2>2. saved \in Saved /\ b.pane \in Panes
    BY <1>2, <1>b, <1>s DEF Blocks
  <2>3. saved.at \in Nat /\ saved.stop \in Nat /\ b.pane.gen \in Nat
    BY <2>2 DEF Saved, Panes
  <2>4. arm \in Arms
    <3> DEFINE yes == TRUE
               at == MaxOf(saved.at, now)
               gen == b.pane.gen + 1
    <3>1. yes \in BOOLEAN /\ at \in Nat /\ gen \in Nat
      BY <2>3 DEF MaxOf
    <3>2. arm = [at |-> at, id |-> s.id, gen |-> gen, tries |-> 0, restored |-> yes, stop |-> saved.stop]
      OBVIOUS
    <3> HIDE DEF yes, at, gen, arm
    <3> QED BY <1>s, <2>3, <3>1, <3>2 DEF Arms
  <2>5. arm.gen = b.pane.gen + 1 /\ arm.id = s.id /\ arm.stop = saved.stop
    OBVIOUS
  <2>6. a = [b EXCEPT !.pane = p]
    BY <1>b, <2>2 DEF Blocks, Panes
  <2> HIDE DEF arm
  <2>7. arm.gen \in Nat /\ arm.at \in Nat /\ arm # NoArm
    BY <2>4, Sentinels DEF Arms
  <2>8. /\ p \in Panes /\ p.gen = arm.gen /\ p.armed = arm /\ p.enabled = b.pane.enabled
        /\ p.key = b.pane.key /\ p.pending = b.pane.pending /\ p.pendingId = b.pane.pendingId
    BY <2>2, <2>4, <2>7 DEF Panes
  <2> HIDE DEF p, a
  <2>9. a \in Blocks /\ a.pane = p /\ a.timers = b.timers /\ a.store = b.store /\ a.stops = b.stops
    BY <1>b, <2>6, <2>8, PaneFields
  <2>10. PICK tm \in TimerRecords : tm.gen = arm.gen /\ tm.at = arm.at /\ d.timers = b.timers \cup {tm}
    BY <2>4, <2>9, WithTimerFields
  <2>11. d \in Blocks /\ d.pane = p /\ d.store = b.store /\ d.stops = b.stops
    BY <2>4, <2>9, WithTimerFields
  <2> HIDE DEF d
  <2>12. p # NoPane
    BY <2>8, Sentinels
  <2>13. Kept(d, s)
    BY <1>b, <2>11, <2>8 DEF Kept
  <2>14. ASSUME c.early PROVE Early(d)
    <3>1. \A x \in b.timers : x.gen <= b.pane.gen /\ x.gen \in Nat
      BY <1>b, <2>14 DEF Sound, Core, Early, Blocks, TimerRecords
    <3>2. \A x \in b.timers : x.gen <= arm.gen /\ x.gen # arm.gen
      BY <2>3, <2>5, <3>1
    <3>3. tm.gen <= arm.gen /\ arm.at <= tm.at
      BY <2>10, <2>7
    <3> QED BY <2>8, <2>10, <2>11, <2>12, <3>2, <3>3 DEF Early
  <2>15. ASSUME c.owned PROVE OwnedPane(d, s, c) /\ OwnedStore(d, c) /\ OwnedStop(d, s, c)
    <3>1. OwnedPane(b, s, c) /\ OwnedStore(b, c) /\ OwnedStop(b, s, c)
      BY <2>15 DEF Core, Sound
    <3>2. arm.stop \in Open(c, s.id)
      BY <1>2, <1>s, <2>5, <3>1 DEF OwnedStore
    <3>3. OwnedPane(d, s, c)
      BY <1>2, <2>5, <2>8, <2>11, <3>1, <3>2 DEF OwnedPane
    <3>4. OwnedStore(d, c)
      BY <2>11, <3>1 DEF OwnedStore
    <3>5. OwnedStop(d, s, c)
      BY <2>8, <2>11, <2>12, <3>1 DEF OwnedStop
    <3> QED BY <3>3, <3>4, <3>5
  <2>16. Core(d, s, c)
    BY <1>b, <2>11, <2>13, <2>14, <2>15 DEF Core
  <2>17. HasTimer(d)
    <3>1. tm \in d.timers /\ tm.gen = d.pane.armed.gen /\ tm.at <= d.pane.armed.at
      BY <2>7, <2>8, <2>10, <2>11
    <3> QED BY <3>1 DEF HasTimer
  <2> QED BY <2>1, <2>11, <2>12, <2>16, <2>17 DEF Sound
<1> QED BY <1>1, <1>2

\* restore_pane_state: nothing is picked up that was answered or typed over.
LEMMA RestoreSound ==
  ASSUME NEW b, NEW s, NEW c \in Contexts, Sound(b, s, c), NEW u \in Usages, now \in Nat,
         NEW ov, NEW def, s # NoSession /\ s.id \in Ids /\ EffectiveIn(ov, def, s.id) => s.id \in c.on
  PROVE  Sound(Restore(b, ov, def, u, s), s, c)
<1>1. CASE ~Eligible(s) \/ ~EffectiveIn(ov, def, s.id)
  BY <1>1 DEF Restore
<1>2. CASE Eligible(s) /\ EffectiveIn(ov, def, s.id)
  <2> DEFINE p == IF b.pane = NoPane THEN NewPane ELSE b.pane
             q == [p EXCEPT !.key = s.id, !.enabled = TRUE]
             on == [b EXCEPT !.pane = q]
             r == RestoreArm(on, s)
  <2>b. b \in Blocks /\ b.stops = c.stops /\ Fit(s)
    BY DEF Core, Sound
  <2>s. s # NoSession /\ s.rich /\ s.id \in Ids
    BY <1>2, <2>b DEF Eligible, Fit
  <2>1. Sound(on, s, c) /\ on.pane = q /\ q \in Panes /\ q.enabled
    BY <1>2, <2>s, EnableSound
  <2>2. Restore(b, ov, def, u, s) =
          IF r.pane.armed # p.armed THEN r
          ELSE IF ~p.enabled /\ s.status = "done" /\ s.stop.limit THEN Stopped(r, u, s) ELSE r
    BY <1>2 DEF Restore
  <2>p. ~p.enabled => b.pane = NoPane \/ ~b.pane.enabled
    OBVIOUS
  <2> HIDE DEF p, q, on
  <2>3. on.pane # NoPane
    BY <2>1, Sentinels
  <2>4. Sound(r, s, c)
    BY <1>2, <2>1, <2>3, RestoreArmSound
  <2> HIDE DEF r
  <2>5. ASSUME ~p.enabled, s.status = "done", s.stop.limit PROVE Sound(Stopped(r, u, s), s, c)
    <3>1. LimitStop(s)
      BY <2>5, <2>s DEF LimitStop
    <3>2. c.owned => Len(c.stops) # 0 /\ c.stops[Len(c.stops)] = s.id /\ Len(c.stops) \notin c.sent
                     /\ Len(c.stops) \notin c.over
      BY <2>5, <2>p, <3>1 DEF Sound, Core, OwnedStop
    <3>3. Len(c.stops) # 0 => Len(c.stops) \in DOMAIN c.stops
      <4>1. c.stops \in Seq(Ids)
        BY DEF Contexts
      <4>2. Len(c.stops) \in Nat /\ DOMAIN c.stops = 1..Len(c.stops)
        BY <4>1
      <4> QED BY <4>2
    <3>4. Answerable(s, c)
      BY <3>2, <3>3 DEF Answerable, Open
    <3> QED BY <2>4, <3>1, <3>4, StoppedSound
  <2> QED BY <2>2, <2>4, <2>5
<1> QED BY <1>1, <1>2

\* The same context with auto-continue on for everyone.
AllOn(c) == [c EXCEPT !.on = Ids]

LEMMA AllOnFields ==
  ASSUME NEW c \in Contexts
  PROVE  /\ AllOn(c) \in Contexts /\ AllOn(c).early = c.early /\ AllOn(c).owned = c.owned
         /\ AllOn(c).on = Ids /\ AllOn(c).stops = c.stops
         /\ \A id : Open(AllOn(c), id) = Open(c, id)
         /\ AllOn(c).over = c.over /\ AllOn(c).sent = c.sent
<1>1. /\ AllOn(c) \in Contexts
      /\ AllOn(c).on = Ids /\ AllOn(c).stops = c.stops
      /\ AllOn(c).over = c.over /\ AllOn(c).sent = c.sent
  BY DEF AllOn, Contexts
<1>2. AllOn(c).early = c.early /\ AllOn(c).owned = c.owned
  BY DEF AllOn, Contexts
<1> QED BY <1>1, <1>2 DEF Open

\* A block that is sound but for the settings is sound if they agree with the pane.
LEMMA Narrow ==
  ASSUME NEW b, NEW s, NEW c \in Contexts, Sound(b, s, AllOn(c)),
         c.owned /\ b.pane # NoPane => (b.pane.enabled => s.id \in c.on)
  PROVE  Sound(b, s, c)
<1> DEFINE a == AllOn(c)
<1>1. /\ a.early = c.early /\ a.owned = c.owned /\ a.stops = c.stops
      /\ \A id : Open(a, id) = Open(c, id)
      /\ a.over = c.over /\ a.sent = c.sent
  BY AllOnFields
<1> HIDE DEF a
<1>2. Sound(b, s, a)
  BY DEF a
<1>3. ASSUME c.owned PROVE OwnedPane(b, s, c) /\ OwnedStore(b, c) /\ OwnedStop(b, s, c)
  <2>1. OwnedPane(b, s, a) /\ OwnedStore(b, a) /\ OwnedStop(b, s, a)
    BY <1>1, <1>2, <1>3 DEF Core, Sound
  <2>2. OwnedPane(b, s, c)
    BY <1>1, <1>3, <2>1 DEF OwnedPane
  <2>3. OwnedStore(b, c)
    BY <1>1, <2>1 DEF OwnedStore
  <2>4. OwnedStop(b, s, c)
    BY <1>1, <2>1 DEF OwnedStop
  <2> QED BY <2>2, <2>3, <2>4
<1> QED BY <1>1, <1>2, <1>3 DEF Sound, Core

\* disable: the pane waits for nothing and nothing is persisted for it.
LEMMA DisableSound ==
  ASSUME NEW b, NEW s, NEW c \in Contexts, Sound(b, s, AllOn(c)), b.pane # NoPane,
         c.owned => c.over = {}
  PROVE  Sound(Disable(b), s, c) /\ Disable(b).pane # NoPane /\ ~Disable(b).pane.enabled
<1> DEFINE d == IF b.pane.enabled THEN Disarm(b) ELSE b
           q == [d.pane EXCEPT !.enabled = FALSE]
           f == [d EXCEPT !.pane.enabled = FALSE]
           key == b.pane.key
           none == NoTime
           e == Save(f, key, none)
           a == AllOn(c)
<1>a. a \in Contexts /\ a.early = c.early /\ a.owned = c.owned /\ a.stops = c.stops /\ a.sent = c.sent
      /\ \A id : Open(a, id) = Open(c, id)
  BY AllOnFields
<1>b. b \in Blocks /\ b.stops = c.stops /\ Fit(s) /\ Kept(b, s)
  BY <1>a DEF Core, Sound
<1>1. Disable(b) = e
  BY DEF Disable
<1>2. Sound(d, s, a)
  BY <1>a, DisarmSound DEF Sound
<1>3. d.pane \in Panes /\ d.pane.armed = NoArm /\ d.pane.key = key
      /\ (d.pane.pending # 0 => ~b.pane.enabled /\ d = b)
  <2>1. CASE b.pane.enabled
    BY <1>b, <2>1, DisarmFields
  <2>2. CASE ~b.pane.enabled
    BY <1>b, <2>2 DEF Kept, Blocks
  <2> QED BY <2>1, <2>2
<1>f. f = [d EXCEPT !.pane = q]
  <2>1. d \in Blocks
    BY <1>2 DEF Sound, Core
  <2> HIDE DEF d
  <2> QED BY <2>1, <1>3 DEF Blocks, Panes
<1> HIDE DEF d, a
<1>4. /\ q \in Panes /\ q.armed = NoArm /\ q.key = key /\ q.gen = d.pane.gen
      /\ q.pending = d.pane.pending /\ q.pendingId = d.pane.pendingId
  <2> DEFINE no == FALSE
  <2>1. no \in BOOLEAN /\ q = [d.pane EXCEPT !.enabled = no]
    OBVIOUS
  <2> HIDE DEF no, q
  <2> QED BY <1>3, <2>1 DEF Panes
<1>q. ~q.enabled
  BY <1>3 DEF Panes
<1> HIDE DEF q, f
<1>5. d \in Blocks /\ d.stops = c.stops /\ d.pane # NoPane /\ Kept(d, s)
  BY <1>2, <1>3, <1>a, Sentinels DEF Sound, Core
<1>6. f \in Blocks /\ f.pane = q /\ f.timers = d.timers /\ f.store = d.store /\ f.stops = d.stops
  BY <1>4, <1>5, <1>f, PaneFields
<1>7. none \in Saved \cup {NoTime} /\ key \in Ids \cup {NoId} /\ none = NoTime
  BY <1>3 DEF Panes
<1> HIDE DEF key, none
<1>8. /\ e \in Blocks /\ e.pane = q /\ e.timers = d.timers /\ e.stops = d.stops
      /\ key = NoId => e.store = d.store
      /\ key \in Ids => e.store = [d.store EXCEPT ![key] = none]
  BY <1>6, <1>7, SaveFields
<1> HIDE DEF e
<1>9. e.pane # NoPane
  BY <1>4, <1>8, Sentinels
<1>10. Kept(e, s)
  BY <1>4, <1>5, <1>8 DEF Kept
<1>11. ASSUME c.early PROVE Early(e)
  <2>1. Early(d)
    BY <1>2, <1>11, <1>a DEF Sound, Core
  <2> QED BY <1>4, <1>5, <1>8, <1>9, <2>1 DEF Early
<1>12. ASSUME c.owned PROVE OwnedPane(e, s, c) /\ OwnedStore(e, c) /\ OwnedStop(e, s, c)
  <2>1. OwnedPane(d, s, a) /\ OwnedStore(d, a) /\ OwnedStop(d, s, a)
    BY <1>2, <1>12, <1>a DEF Core, Sound
  <2>2. d.pane.pending = 0
    <3>1. OwnedPane(b, s, a)
      BY <1>12, <1>a DEF Core, Sound, a
    <3> QED BY <1>3, <3>1 DEF OwnedPane
  <2>3. OwnedPane(e, s, c)
    BY <1>3, <1>4, <1>5, <1>8, <1>q, <2>1, <2>2 DEF OwnedPane
  <2>4. d.store \in [Ids -> Saved \cup {NoTime}]
    BY <1>5 DEF Blocks
  <2>5. OwnedStore(e, c)
    BY <1>7, <1>8, <1>a, <2>1, <2>4 DEF OwnedStore
  <2>6. OwnedStop(e, s, c)
    BY <1>12, <1>a, <2>1 DEF OwnedStop
  <2> QED BY <2>3, <2>5, <2>6
<1>13. Core(e, s, c)
  BY <1>5, <1>8, <1>10, <1>11, <1>12, <1>b DEF Core
<1>14. HasTimer(e)
  BY <1>4, <1>8 DEF HasTimer
<1> QED BY <1>1, <1>8, <1>9, <1>13, <1>14, <1>q DEF Sound

\* sync_all_panes_with_settings: the pane agrees with the settings, whatever it did
\* before; a stop that was typed over stays with its pane unless nothing is remembered.
LEMMA SyncSound ==
  ASSUME NEW b, NEW s, NEW c \in Contexts, Sound(b, s, AllOn(c)), NEW u \in Usages, now \in Nat,
         NEW ov, NEW def \in BOOLEAN,
         \A id \in Ids : EffectiveIn(ov, def, id) = (id \in c.on),
         \/ c.owned => c.over = {}
         \/ c.owned /\ b.pane # NoPane /\ b.pane.enabled => s.id \in c.on
  PROVE  Sound(Sync(b, ov, def, u, s), s, c)
<1> DEFINE on == IF b.pane = NoPane THEN FALSE ELSE b.pane.enabled
           wanted == IF s = NoSession THEN on ELSE IF s.id = NoId THEN def ELSE EffectiveIn(ov, def, s.id)
<1>1. Sync(b, ov, def, u, s) = IF wanted /\ ~on THEN Restore(b, ov, def, u, s)
                               ELSE IF ~wanted /\ on THEN Disable(b) ELSE b
  BY DEF Sync
<1>b. b \in Blocks /\ Fit(s) /\ Kept(b, s)
  BY DEF Core, Sound
<1>o. on \in BOOLEAN
  BY <1>b DEF Blocks, Panes
<1>p. b.pane # NoPane => s # NoSession /\ s.rich /\ s.id \in Ids /\ s.id # NoId
  BY <1>b, Sentinels DEF Kept, Fit
<1>w. b.pane # NoPane => wanted = (s.id \in c.on)
  BY <1>p
<1>e. on => b.pane # NoPane /\ b.pane.enabled
  OBVIOUS
<1>n. ~on => (b.pane # NoPane => ~b.pane.enabled)
  OBVIOUS
<1> HIDE DEF on, wanted
<1>2. CASE wanted /\ ~on
  <2>1. Sound(b, s, c)
    BY <1>2, <1>n, Narrow
  <2> QED BY <1>1, <1>2, <2>1, RestoreSound
<1>3. CASE ~wanted /\ on
  <2>1. b.pane # NoPane /\ b.pane.enabled /\ s.id \notin c.on
    BY <1>3, <1>e, <1>w
  <2>2. c.owned => c.over = {}
    BY <2>1
  <2> QED BY <1>1, <1>3, <2>1, <2>2, DisableSound
<1>4. CASE ~(wanted /\ ~on) /\ ~(~wanted /\ on)
  <2>1. b.pane # NoPane => (b.pane.enabled => s.id \in c.on)
    BY <1>4, <1>n, <1>w
  <2>2. Sound(b, s, c)
    BY <2>1, Narrow
  <2>3. Sync(b, ov, def, u, s) = b
    BY <1>1, <1>4
  <2> QED BY <2>2, <2>3
<1> QED BY <1>2, <1>3, <1>4

-----------------------------------------------------------------------------
(* The reactions keep the invariant *)

\* The context agrees with the settings of this state.
OnNow(c) == \A id \in Ids : EffectiveIn(overrides, default, id) => id \in c.on

\* arm_if_exhausted.
LEMMA ArmIfExhaustedSound ==
  ASSUME NEW b, NEW s, NEW c \in Contexts, Sound(b, s, c), NEW u \in Usages, now \in Nat,
         OnNow(c), LimitStop(s), Answerable(s, c)
  PROVE  Sound(ArmIfExhausted(b, u, s), s, c)
<1> DEFINE r == IF b.pane = NoPane THEN Restore(b, overrides, default, u, s) ELSE b
<1>1. CASE ~Eligible(s)
  BY <1>1, DisarmSound DEF ArmIfExhausted, Sound
<1>2. CASE Eligible(s)
  <2>1. ArmIfExhausted(b, u, s) = Stopped(r, u, s)
    BY <1>2 DEF ArmIfExhausted
  <2>2. Sound(r, s, c)
    BY RestoreSound DEF OnNow
  <2> HIDE DEF r
  <2> QED BY <2>1, <2>2, StoppedSound
<1> QED BY <1>1, <1>2

\* on_sessions_event, for the events of a session that stays.
LEMMA ReactSound ==
  ASSUME NEW b, NEW s, NEW c \in Contexts, Sound(b, s, c), NEW u \in Usages, now \in Nat,
         OnNow(c), NEW ev \in {"status", "updated"},
         ev = "status" /\ LimitStop(s) => Answerable(s, c)
  PROVE  Sound(React(b, u, s, ev), s, c)
<1>1. CASE ev = "status"
  <2>1. React(b, u, s, ev) = IF LimitStop(s) THEN ArmIfExhausted(b, u, s) ELSE Disarm(b)
    BY <1>1 DEF React
  <2>2. CASE LimitStop(s)
    BY <1>1, <2>1, <2>2, ArmIfExhaustedSound
  <2>3. CASE ~LimitStop(s)
    BY <2>1, <2>3, DisarmSound DEF Sound
  <2> QED BY <2>2, <2>3
<1>2. CASE ev = "updated"
  <2>1. React(b, u, s, ev) = Restore(b, overrides, default, u, s)
    BY <1>2 DEF React
  <2> QED BY <2>1, RestoreSound DEF OnNow
<1> QED BY <1>1, <1>2

\* Reactions to several events, of which the first left the block in order.
LEMMA ReactionsFrom ==
  ASSUME NEW b, NEW s, NEW c \in Contexts, NEW u \in Usages, now \in Nat, OnNow(c),
         NEW e \in Seq(EventNames), Len(e) <= 5, Len(e) # 0, First(e),
         Sound(React(Counted(b, s, e), u, s, e[1]), s, c),
         LimitStop(s) /\ Emits(e, "status") => Answerable(s, c)
  PROVE  Sound(Reactions(b, u, s, e), s, c)
<1> DEFINE k1 == React(Counted(b, s, e), u, s, e[1])
           n == Len(e)
<1>0. n \in Nat /\ DOMAIN e = 1..n
  OBVIOUS
<1>5. n \in 1..5
  BY <1>0
<1>r. ASSUME NEW k \in DOMAIN e, k # 1, NEW x, Sound(x, s, c) PROVE Sound(React(x, u, s, e[k]), s, c)
  <2>1. e[k] \in {"status", "updated"}
    BY <1>r DEF First
  <2>2. e[k] = "status" => Emits(e, "status")
    BY DEF Emits
  <2> QED BY <1>r, <2>1, <2>2, ReactSound
<1>1. PICK f : /\ f[0] = Counted(b, s, e)
               /\ \A k \in DOMAIN e : f[k] = React(f[k - 1], u, s, e[k])
               /\ Reactions(b, u, s, e) = f[n]
  BY ReactionsUnfold
<1>d. /\ 1 \in DOMAIN e
      /\ 3 \in DOMAIN e => 2 \in DOMAIN e
      /\ 4 \in DOMAIN e => 3 \in DOMAIN e
      /\ 5 \in DOMAIN e => 4 \in DOMAIN e
  BY <1>0, <1>5
<1>3. Sound(f[1], s, c)
  <2>1. f[1] = React(f[1 - 1], u, s, e[1]) /\ 1 - 1 = 0
    BY <1>1, <1>d
  <2> QED BY <1>1, <2>1
<1> HIDE DEF n
<1>4. ASSUME NEW m \in DOMAIN e, NEW k \in DOMAIN e, k = m + 1, Sound(f[m], s, c) PROVE Sound(f[k], s, c)
  <2>1. k # 1 /\ k - 1 = m
    BY <1>0, <1>4
  <2> QED BY <1>1, <1>4, <1>r, <2>1
<1>6. 2 \in DOMAIN e => Sound(f[2], s, c)
  <2>1. 2 = 1 + 1
    OBVIOUS
  <2> QED BY <1>3, <1>4, <1>d, <2>1
<1>7. 3 \in DOMAIN e => Sound(f[3], s, c)
  <2>1. 3 = 2 + 1
    OBVIOUS
  <2> QED BY <1>6, <1>4, <1>d, <2>1
<1>8. 4 \in DOMAIN e => Sound(f[4], s, c)
  <2>1. 4 = 3 + 1
    OBVIOUS
  <2> QED BY <1>7, <1>4, <1>d, <2>1
<1>9. 5 \in DOMAIN e => Sound(f[5], s, c)
  <2>1. 5 = 4 + 1
    OBVIOUS
  <2> QED BY <1>8, <1>4, <1>d, <2>1
<1>10. n = 1 \/ n = 2 \/ n = 3 \/ n = 4 \/ n = 5
  BY <1>5
<1>11. n \in DOMAIN e
  BY <1>0, <1>5
<1> QED BY <1>1, <1>3, <1>6, <1>7, <1>8, <1>9, <1>10, <1>11

\* A reported limit stop is counted: its list of stops.
LEMMA CountedFields ==
  ASSUME NEW b \in Blocks, NEW s, NEW e, LimitStop(s) => s.id \in Ids
  PROVE  /\ Counted(b, s, e) \in Blocks /\ Counted(b, s, e).pane = b.pane
         /\ Counted(b, s, e).timers = b.timers /\ Counted(b, s, e).store = b.store
         /\ LimitStop(s) /\ Emits(e, "status") => Counted(b, s, e).stops = Append(b.stops, s.id)
         /\ ~(LimitStop(s) /\ Emits(e, "status")) => Counted(b, s, e) = b
<1>1. CASE LimitStop(s) /\ Emits(e, "status")
  <2>1. Counted(b, s, e) = [b EXCEPT !.stops = Append(@, s.id)]
    BY <1>1 DEF Counted, Emits
  <2>2. Append(b.stops, s.id) \in Seq(Ids)
    BY <1>1 DEF Blocks
  <2> QED BY <1>1, <2>1, <2>2 DEF Blocks
<1>2. CASE ~(LimitStop(s) /\ Emits(e, "status"))
  BY <1>2 DEF Counted, Emits
<1> QED BY <1>1, <1>2

\* Reactions to the events of a session that stays or starts.
LEMMA ReactionsSound ==
  ASSUME NEW b, NEW s, NEW c \in Contexts, NEW u \in Usages, now \in Nat, OnNow(c),
         NEW e \in Seq(EventNames), Len(e) <= 5, First(e), sess = NoSession => b.pane = NoPane,
         b \in Blocks, LimitStop(s) => s.id \in Ids, Sound(Counted(b, s, e), s, c),
         LimitStop(s) /\ Emits(e, "status") => Answerable(s, c)
  PROVE  Sound(Reactions(b, u, s, e), s, c)
<1> DEFINE k == Counted(b, s, e)
<1>1. CASE Len(e) = 0
  BY <1>1, ReactionsFew
<1>2. CASE Len(e) # 0
  <2>1. 1 \in DOMAIN e
    <3>1. Len(e) \in Nat /\ DOMAIN e = 1..Len(e)
      OBVIOUS
    <3> QED BY <1>2, <3>1
  <2>2. k \in Blocks /\ k.pane = b.pane
    BY CountedFields
  <2> HIDE DEF k
  <2>3. Sound(React(k, u, s, e[1]), s, c)
    <3>1. CASE e[1] \in {"status", "updated"}
      <4>1. e[1] = "status" => Emits(e, "status")
        BY <2>1 DEF Emits
      <4> QED BY <3>1, <4>1, ReactSound DEF k
    <3>2. CASE e[1] = "started" /\ sess = NoSession
      <4>1. [k EXCEPT !.pane = NoPane] = k
        BY <2>2, <3>2 DEF Blocks
      <4>2. React(k, u, s, e[1]) = Restore(k, overrides, default, u, s)
        BY <3>2, <4>1 DEF React
      <4> QED BY <4>2, RestoreSound DEF OnNow, k
    <3> QED BY <2>1, <3>1, <3>2 DEF First
  <2> QED BY <1>2, <2>3, ReactionsFrom DEF k
<1> QED BY <1>1, <1>2

-----------------------------------------------------------------------------
(* From one context to the next *)

\* A block stays sound when stops are forgiven and the settings still agree with it.
LEMMA Widen ==
  ASSUME NEW b, NEW s, NEW c \in Contexts, NEW d \in Contexts, Sound(b, s, c),
         d.early = c.early, d.owned = c.owned, d.stops = c.stops, d.sent = c.sent,
         d.over \subseteq c.over,
         c.owned /\ b.pane # NoPane => (b.pane.enabled => s.id \in d.on)
  PROVE  Sound(b, s, d)
<1>1. ASSUME NEW id PROVE Open(c, id) \subseteq Open(d, id)
  BY DEF Open
<1>2. ASSUME c.owned PROVE OwnedPane(b, s, d) /\ OwnedStore(b, d) /\ OwnedStop(b, s, d)
  <2>1. OwnedPane(b, s, c) /\ OwnedStore(b, c) /\ OwnedStop(b, s, c)
    BY <1>2 DEF Core, Sound
  <2>2. OwnedPane(b, s, d)
    BY <1>1, <1>2, <2>1 DEF OwnedPane
  <2>3. OwnedStore(b, d)
    BY <1>1, <2>1 DEF OwnedStore
  <2>4. OwnedStop(b, s, d)
    BY <2>1 DEF OwnedStop
  <2> QED BY <2>2, <2>3, <2>4
<1> QED BY <1>2 DEF Sound, Core

\* The context after more limit stops were counted.
After(c, list) == [c EXCEPT !.stops = list]

LEMMA AfterFields ==
  ASSUME NEW c \in Contexts, NEW list \in Seq(Ids)
  PROVE  /\ After(c, list) \in Contexts /\ After(c, list).stops = list
         /\ After(c, list).early = c.early /\ After(c, list).owned = c.owned
         /\ After(c, list).on = c.on /\ After(c, list).over = c.over /\ After(c, list).sent = c.sent
<1>1. After(c, list) \in Contexts /\ After(c, list).stops = list
  BY DEF After, Contexts
<1>2. After(c, list).early = c.early /\ After(c, list).owned = c.owned
  BY DEF After, Contexts
<1>3. After(c, list).on = c.on /\ After(c, list).over = c.over /\ After(c, list).sent = c.sent
  BY DEF After, Contexts
<1> QED BY <1>1, <1>2, <1>3

\* The invariant at the moment at which the session has been updated and its events
\* have not been handled yet.
LEMMA CountedSound ==
  ASSUME NEW b, NEW c \in Contexts, Sound(b, sess, c), SessionInv', SessionMove, sess' # NoSession,
         c.owned => c.over \cup c.sent \subseteq DOMAIN c.stops,
         c.owned /\ b.pane # NoPane => sess'.id = sess.id \/ ~b.pane.enabled
  PROVE  LET k == Counted(b, sess', emitted')
             d == After(c, k.stops)
         IN  /\ d \in Contexts /\ Sound(k, sess', d)
             /\ LimitStop(sess') /\ Emits(emitted', "status") => Answerable(sess', d)
             /\ \A n \in DOMAIN c.stops : n \in DOMAIN d.stops /\ d.stops[n] = c.stops[n]
<1> DEFINE s == sess'
           e == emitted'
           k == Counted(b, s, e)
           d == After(c, k.stops)
           reported == LimitStop(s) /\ Emits(e, "status")
<1>b. b \in Blocks /\ b.stops = c.stops /\ Fit(sess) /\ Kept(b, sess) /\ HasTimer(b)
  BY DEF Core, Sound
<1>s. /\ s \in Sessions /\ (s.rich => s.id # NoId) /\ (~s.rich => ~s.stop.limit)
      /\ s.id \in Ids \cup {NoId} /\ s.rich \in BOOLEAN
  BY DEF SessionInv, SessionOK, Sessions
<1>f. Fit(s)
  BY <1>s DEF Fit
<1>i. LimitStop(s) => s.id \in Ids
  BY <1>s DEF LimitStop
<1>m. /\ sess # NoSession /\ sess.rich => s.rich
      /\ LimitStop(s) /\ ~Emits(e, "status") =>
           sess # NoSession /\ LimitStop(sess) /\ s.id = sess.id
  BY DEF SessionMove
<1>n. s # NoSession /\ (c.owned /\ b.pane # NoPane => s.id = sess.id \/ ~b.pane.enabled)
  OBVIOUS
<1> HIDE DEF s, e
<1>1. /\ k \in Blocks /\ k.pane = b.pane /\ k.timers = b.timers /\ k.store = b.store
      /\ reported => k.stops = Append(b.stops, s.id)
      /\ ~reported => k = b
  BY <1>b, <1>i, CountedFields
<1>r. reported \in BOOLEAN /\ (reported => LimitStop(s)) /\ (LimitStop(s) /\ ~reported => ~Emits(e, "status"))
  OBVIOUS
<1> HIDE DEF reported, k
<1>2. k.stops \in Seq(Ids) /\ c.stops \in Seq(Ids)
  BY <1>1 DEF Blocks, Contexts
<1>3. /\ d \in Contexts /\ d.stops = k.stops /\ d.early = c.early /\ d.owned = c.owned
      /\ d.on = c.on /\ d.over = c.over /\ d.sent = c.sent
  BY <1>2, AfterFields
<1> HIDE DEF d
<1>4. /\ \A n \in DOMAIN c.stops : n \in DOMAIN d.stops /\ d.stops[n] = c.stops[n]
      /\ reported => /\ Len(d.stops) \in DOMAIN d.stops /\ d.stops[Len(d.stops)] = s.id
                     /\ Len(d.stops) # 0 /\ Len(d.stops) \notin DOMAIN c.stops
  <2>1. CASE reported
    <3>1. d.stops = Append(c.stops, s.id) /\ s.id \in Ids
      BY <1>1, <1>3, <1>b, <1>i, <1>r, <2>1
    <3> QED BY <1>2, <2>1, <3>1
  <2>2. CASE ~reported
    BY <1>1, <1>3, <1>b, <2>2
  <2> QED BY <1>r, <2>1, <2>2
<1>5. ASSUME NEW id PROVE Open(c, id) \subseteq Open(d, id)
  BY <1>3, <1>4 DEF Open
<1>6. Kept(k, s)
  BY <1>1, <1>b, <1>m, <1>n DEF Kept
<1>7. c.early => Early(k)
  BY <1>1 DEF Sound, Core, Early
<1>8. ASSUME c.owned PROVE OwnedPane(k, s, d) /\ OwnedStore(k, d) /\ OwnedStop(k, s, d)
  <2>1. OwnedPane(b, sess, c) /\ OwnedStore(b, c) /\ OwnedStop(b, sess, c)
    BY <1>8 DEF Core, Sound
  <2>2. OwnedPane(k, s, d)
    <3>1. CASE s.id = sess.id
      BY <1>1, <1>3, <1>5, <2>1, <3>1 DEF OwnedPane
    <3>2. CASE b.pane # NoPane /\ ~b.pane.enabled
      BY <1>1, <1>b, <2>1, <3>2 DEF OwnedPane, Kept
    <3> QED BY <1>1, <1>8, <1>n, <3>1, <3>2 DEF OwnedPane
  <2>3. OwnedStore(k, d)
    BY <1>1, <1>5, <2>1 DEF OwnedStore
  <2>4. OwnedStop(k, s, d)
    <3>1. CASE reported
      <4>1. Len(d.stops) \notin d.over \cup d.sent
        BY <1>3, <1>4, <1>8, <3>1
      <4> QED BY <1>4, <3>1, <4>1 DEF OwnedStop
    <3>2. CASE ~reported
      <4>1. LimitStop(s) => LimitStop(sess) /\ s.id = sess.id
        BY <1>m, <1>r, <3>2
      <4>2. k.pane = b.pane /\ d.stops = c.stops
        BY <1>1, <1>3, <1>b, <3>2
      <4> QED BY <1>3, <2>1, <4>1, <4>2 DEF OwnedStop
    <3> QED BY <1>r, <3>1, <3>2
  <2> QED BY <2>2, <2>3, <2>4
<1>9. Core(k, s, d)
  BY <1>1, <1>3, <1>6, <1>7, <1>8, <1>f DEF Core
<1>10. HasTimer(k)
  BY <1>1, <1>b DEF HasTimer
<1>11. reported => Answerable(s, d)
  BY <1>3, <1>4 DEF Answerable, Open
<1> QED BY <1>3, <1>4, <1>9, <1>10, <1>11 DEF Sound, d, k, reported, s, e

\* The end of a session takes the pane's state with it.
LEMMA EndedSound ==
  ASSUME NEW b, NEW s, NEW c \in Contexts, Core(b, s, c), c.early => b.timers = {}
  PROVE  Sound([b EXCEPT !.pane = NoPane], NoSession, c)
<1> DEFINE none == NoPane
           d == [b EXCEPT !.pane = none]
<1>b. b \in Blocks /\ b.stops = c.stops
  BY DEF Core, Sound
<1>1. none \in Panes \cup {NoPane} /\ none = NoPane
  OBVIOUS
<1> HIDE DEF none
<1>2. d \in Blocks /\ d.pane = none /\ d.timers = b.timers /\ d.store = b.store /\ d.stops = b.stops
  BY <1>1, <1>b, PaneFields
<1> HIDE DEF d
<1>3. Fit(NoSession) /\ Kept(d, NoSession) /\ HasTimer(d)
  BY <1>1, <1>2 DEF Fit, Kept, HasTimer
<1>4. c.early => Early(d)
  BY <1>1, <1>2 DEF Early
<1>5. ASSUME c.owned PROVE OwnedPane(d, NoSession, c) /\ OwnedStore(d, c) /\ OwnedStop(d, NoSession, c)
  <2>1. OwnedStore(b, c)
    BY <1>5 DEF Core, Sound
  <2> QED BY <1>1, <1>2, <2>1 DEF OwnedPane, OwnedStore, OwnedStop, LimitStop
<1>6. Sound(d, NoSession, c)
  BY <1>2, <1>3, <1>4, <1>5, <1>b DEF Sound, Core
<1> QED BY <1>1, <1>6 DEF d

\* A pane is about to serve the session that is in it now: it waits for nothing and
\* auto-continue is available and on.
AtRest(b) ==
  b.pane.enabled =>
    /\ b.pane.pending = 0 /\ b.pane.armed = NoArm
    /\ Eligible(sess') /\ EffectiveIn(overrides, default, sess'.id)

\* Restoring such a pane gives it the new name first.
LEMMA RekeyedSame ==
  ASSUME NEW b \in Blocks, NEW s, NEW u, b.pane # NoPane, s.id \in Ids,
         Eligible(s), EffectiveIn(overrides, default, s.id)
  PROVE  LET r == [b EXCEPT !.pane.key = s.id]
         IN  /\ r \in Blocks /\ r.pane # NoPane /\ r.pane = [b.pane EXCEPT !.key = s.id]
             /\ r.timers = b.timers /\ r.store = b.store /\ r.stops = b.stops
             /\ React(r, u, s, "updated") = React(b, u, s, "updated")
<1> DEFINE q == [b.pane EXCEPT !.key = s.id]
           r == [b EXCEPT !.pane.key = s.id]
           on(p) == [p EXCEPT !.key = s.id, !.enabled = TRUE]
<1>1. b.pane \in Panes
  BY DEF Blocks
<1>2. q \in Panes /\ q.armed = b.pane.armed /\ q.enabled = b.pane.enabled /\ on(q) = on(b.pane)
  BY <1>1 DEF Panes
<1>3. r = [b EXCEPT !.pane = q]
  BY <1>1 DEF Blocks, Panes
<1>4. q # NoPane
  BY <1>2, Sentinels
<1>5. [r EXCEPT !.pane = on(b.pane)] = [b EXCEPT !.pane = on(b.pane)]
  BY <1>3 DEF Blocks
<1> HIDE DEF q, r, on
<1>6. r \in Blocks /\ r.pane = q /\ r.timers = b.timers /\ r.store = b.store /\ r.stops = b.stops
  BY <1>2, <1>3, PaneFields
<1>7. Restore(r, overrides, default, u, s) = Restore(b, overrides, default, u, s)
  <2> DEFINE x == [b EXCEPT !.pane = on(b.pane)]
             y == RestoreArm(x, s)
  <2>1. Restore(b, overrides, default, u, s) =
          IF y.pane.armed # b.pane.armed THEN y
          ELSE IF ~b.pane.enabled /\ s.status = "done" /\ s.stop.limit THEN Stopped(y, u, s) ELSE y
    BY DEF Restore, on
  <2>2. [r EXCEPT !.pane = on(q)] = x
    BY <1>2, <1>5
  <2> DEFINE z == [r EXCEPT !.pane = on(q)]
             w == RestoreArm(z, s)
  <2>3. Restore(r, overrides, default, u, s) =
          IF w.pane.armed # q.armed THEN w
          ELSE IF ~q.enabled /\ s.status = "done" /\ s.stop.limit THEN Stopped(w, u, s) ELSE w
    BY <1>4, <1>6 DEF Restore, on
  <2>4. w = y
    BY <2>2
  <2> HIDE DEF x, y, z, w
  <2> QED BY <1>2, <2>1, <2>3, <2>4
<1>8. React(r, u, s, "updated") = React(b, u, s, "updated")
  BY <1>7 DEF React
<1> QED BY <1>4, <1>6, <1>8 DEF q, r

\* The reactions to a new name of the session in a pane that waits for nothing.
LEMMA RenameSound ==
  ASSUME NEW b, NEW c \in Contexts, Sound(b, sess, c), SessionInv', SessionMove,
         NEW u \in Usages, now \in Nat, OnNow(c), sess' # NoSession, b.pane # NoPane,
         sess'.id # sess.id, b.pane.enabled, AtRest(b)
  PROVE  LET r == Reactions(b, u, sess', emitted') IN Sound(r, sess', c) /\ r.stops = c.stops
<1> DEFINE s == sess'
           e == emitted'
           k == [b EXCEPT !.pane.key = s.id]
<1>b. /\ b \in Blocks /\ b.stops = c.stops /\ Kept(b, sess)
      /\ b.pane.pending = 0 /\ b.pane.armed = NoArm
  BY DEF Sound, Core, AtRest
<1>e. e \in Seq(EventNames) /\ Len(e) <= 5 /\ First(e)
  BY DEF SessionInv, SessionTypeOK, SessionMove
<1>r. /\ sess # NoSession /\ sess.rich /\ s.rich
      /\ Len(e) # 0 /\ e[1] = "updated" /\ ~LimitStop(s)
  <2>1. sess # NoSession /\ sess.rich
    BY <1>b DEF Kept
  <2>2. Renamed
    BY <2>1 DEF Renamed
  <2> QED BY <2>1, <2>2 DEF SessionMove
<1>s. s \in Sessions /\ (s.stop.limit => s.rich) /\ Eligible(s) /\ EffectiveIn(overrides, default, s.id)
  BY DEF SessionInv, SessionOK, AtRest
<1>n. s # NoSession
  OBVIOUS
<1> HIDE DEF s, e
<1>i. s.id \in Ids
  BY <1>s DEF Sessions, Eligible
<1>f. Fit(s)
  BY <1>i, <1>s DEF Fit
<1>1. /\ k \in Blocks /\ k.pane # NoPane /\ k.pane = [b.pane EXCEPT !.key = s.id]
      /\ k.timers = b.timers /\ k.store = b.store /\ k.stops = b.stops
      /\ React(k, u, s, "updated") = React(b, u, s, "updated")
  BY <1>b, <1>i, <1>s, RekeyedSame
<1> HIDE DEF k
<1>2. /\ k.pane.key = s.id /\ k.pane.pending = 0 /\ k.pane.armed = NoArm /\ k.pane.gen = b.pane.gen
  <2>1. b.pane \in Panes
    BY <1>b DEF Blocks
  <2> QED BY <1>1, <1>b, <2>1 DEF Panes
<1>3. Sound(k, s, c)
  <2>1. Kept(k, s) /\ HasTimer(k)
    BY <1>2, <1>n, <1>r DEF Kept, HasTimer
  <2>2. c.early => Early(k)
    BY <1>1, <1>2 DEF Sound, Core, Early
  <2>3. ASSUME c.owned PROVE OwnedPane(k, s, c) /\ OwnedStore(k, c) /\ OwnedStop(k, s, c)
    <3>1. OwnedStore(b, c)
      BY <2>3 DEF Sound, Core
    <3>2. s.id \in c.on
      BY <1>i, <1>s DEF OnNow
    <3>3. OwnedPane(k, s, c)
      BY <1>2, <3>2 DEF OwnedPane
    <3>4. OwnedStore(k, c)
      BY <1>1, <3>1 DEF OwnedStore
    <3>5. OwnedStop(k, s, c)
      BY <1>r DEF OwnedStop
    <3> QED BY <3>3, <3>4, <3>5
  <2> QED BY <1>1, <1>b, <1>f, <2>1, <2>2, <2>3 DEF Sound, Core
<1>4. Counted(b, s, e) = b
  BY <1>r DEF Counted
<1>5. Sound(React(b, u, s, e[1]), s, c)
  <2>1. React(b, u, s, e[1]) = React(k, u, s, e[1])
    BY <1>1, <1>r
  <2>2. e[1] \in {"status", "updated"} /\ (e[1] = "status" /\ LimitStop(s) => Answerable(s, c))
    BY <1>r
  <2> QED BY <1>3, <2>1, <2>2, ReactSound
<1>6. Sound(Reactions(b, u, s, e), s, c)
  BY <1>4, <1>5, <1>e, <1>r, ReactionsFrom
<1>7. Reactions(b, u, s, e).stops = c.stops
  BY <1>6 DEF Sound, Core
<1> QED BY <1>6, <1>7 DEF s, e

\* An update of the session and the reactions to it.
LEMMA UpdateSound ==
  ASSUME NEW b, NEW c \in Contexts, Sound(b, sess, c), SessionInv', SessionMove,
         NEW u \in Usages, now \in Nat, OnNow(c),
         c.owned => c.over \cup c.sent \subseteq DOMAIN c.stops,
         c.owned /\ b.pane # NoPane /\ sess' # NoSession => sess'.id = sess.id \/ AtRest(b),
         c.early /\ sess # NoSession /\ sess' = NoSession => b.timers = {}
  PROVE  LET r == Reactions(b, u, sess', emitted')
             d == After(c, r.stops)
         IN  /\ d \in Contexts /\ Sound(r, sess', d)
             /\ \A n \in DOMAIN c.stops : n \in DOMAIN d.stops /\ d.stops[n] = c.stops[n]
<1> DEFINE r == Reactions(b, u, sess', emitted')
           d == After(c, r.stops)
<1>e. emitted' \in Seq(EventNames) /\ Len(emitted') <= 5
  BY DEF SessionInv, SessionTypeOK, SessionMove
<1>b. b \in Blocks /\ b.stops = c.stops /\ Kept(b, sess)
  BY DEF Core, Sound
<1>a. After(c, c.stops) = c
  BY DEF After, Contexts
<1>w. /\ Len(emitted') = 0 => Reactions(b, u, sess', emitted') = Counted(b, sess', emitted')
      /\ Len(emitted') = 1 =>
           Reactions(b, u, sess', emitted') = React(Counted(b, sess', emitted'), u, sess', emitted'[1])
  BY <1>e, ReactionsFew
<1>1. CASE sess' = NoSession
  <2>1. Counted(b, sess', emitted') = b
    BY <1>1 DEF Counted, LimitStop
  <2> HIDE DEF r
  <2>3. Sound(r, sess', c)
    <3>1. CASE sess = NoSession
      <4>1. emitted' = <<>>
        BY <1>1, <3>1 DEF SessionMove
      <4>2. r = b
        <5>1. Len(emitted') = 0
          BY <4>1
        <5>2. Reactions(b, u, sess', emitted') = Counted(b, sess', emitted')
          BY <5>1, <1>w
        <5> QED BY <2>1, <5>2 DEF r
      <4> QED BY <1>1, <3>1, <4>2
    <3>2. CASE sess # NoSession
      <4>1. emitted' = <<"ended">>
        BY <1>1, <3>2 DEF SessionMove
      <4>2. r = React(b, u, sess', "ended")
        <5>1. Len(emitted') = 1 /\ emitted'[1] = "ended"
          BY <4>1
        <5>2. Reactions(b, u, sess', emitted') = React(Counted(b, sess', emitted'), u, sess', emitted'[1])
          BY <5>1, <1>w
        <5> QED BY <2>1, <5>1, <5>2 DEF r
      <4>3. r = [b EXCEPT !.pane = NoPane]
        BY <4>2 DEF React
      <4> QED BY <1>1, <3>2, <4>3, EndedSound DEF Sound
    <3> QED BY <3>1, <3>2
  <2>4. r.stops = c.stops
    BY <2>3 DEF Sound, Core
  <2> QED BY <1>a, <2>3, <2>4 DEF r
<1>3. CASE sess' # NoSession /\ b.pane # NoPane /\ sess'.id # sess.id /\ b.pane.enabled /\ AtRest(b)
  <2> HIDE DEF r
  <2>1. Sound(r, sess', c) /\ r.stops = c.stops
    BY <1>3, RenameSound DEF r
  <2>2. d = c
    BY <1>a, <2>1
  <2> QED BY <2>1, <2>2 DEF r
<1>2. CASE /\ sess' # NoSession
           /\ c.owned /\ b.pane # NoPane => sess'.id = sess.id \/ ~b.pane.enabled
  <2> DEFINE k == Counted(b, sess', emitted')
             h == After(c, k.stops)
  <2>1. /\ h \in Contexts /\ Sound(k, sess', h)
        /\ LimitStop(sess') /\ Emits(emitted', "status") => Answerable(sess', h)
        /\ \A n \in DOMAIN c.stops : n \in DOMAIN h.stops /\ h.stops[n] = c.stops[n]
    BY <1>2, CountedSound
  <2>2. k.stops \in Seq(Ids)
    BY <2>1 DEF Sound, Core, Blocks
  <2>3. OnNow(h)
    BY <2>2, AfterFields DEF OnNow
  <2>4. First(emitted') /\ (sess = NoSession => b.pane = NoPane)
    BY <1>2, <1>b DEF SessionMove, Kept
  <2>h. h.stops = k.stops
    BY <2>2, AfterFields
  <2> HIDE DEF h, r
  <2>i. LimitStop(sess') => sess'.id \in Ids
    BY <2>1 DEF Sound, Core, Fit, LimitStop
  <2>5. Sound(Reactions(b, u, sess', emitted'), sess', h)
    BY <1>b, <1>e, <2>1, <2>3, <2>4, <2>i, ReactionsSound DEF k
  <2>6. r.stops = k.stops
    BY <2>5, <2>h DEF Sound, Core, r
  <2> QED BY <2>1, <2>5, <2>6 DEF h, r
<1> QED BY <1>1, <1>2, <1>3

\* A step ends by announcing a changed setting, for a step that leaves them alone ...
LEMMA SettleSound ==
  ASSUME NEW b, NEW c \in Contexts, NEW u \in Usages, Settle(b, u), Sound(b, sess', c), now \in Nat,
         default \in BOOLEAN, c.on = {id \in Ids : EffectiveIn(overrides, default, id)}
  PROVE  /\ Sound([pane |-> pane', timers |-> timers', store |-> store', stops |-> stops'], sess', c)
         /\ stops' = c.stops /\ overrides' = overrides /\ default' = default
<1> DEFINE s == sess'
           r == IF <<b.store, overrides, default>> # settings THEN Sync(b, overrides, default, u, s) ELSE b
<1>1. /\ pane' = r.pane /\ timers' = r.timers /\ store' = r.store /\ stops' = r.stops
      /\ overrides' = overrides /\ default' = default
  BY DEF Settle, Commit
<1>2. Sound(Sync(b, overrides, default, u, s), s, c)
  <2>1. AllOn(c) \in Contexts /\ AllOn(c).early = c.early /\ AllOn(c).owned = c.owned
        /\ AllOn(c).stops = c.stops /\ AllOn(c).sent = c.sent /\ AllOn(c).over = c.over
        /\ AllOn(c).on = Ids
    BY AllOnFields
  <2>2. b.pane # NoPane => s.id \in Ids
    BY DEF Sound, Core, Kept, Fit
  <2>3. Sound(b, s, AllOn(c))
    BY <2>1, <2>2, Widen
  <2>4. c.owned /\ b.pane # NoPane /\ b.pane.enabled => s.id \in c.on
    BY DEF Sound, Core, OwnedPane
  <2>5. \A id \in Ids : EffectiveIn(overrides, default, id) = (id \in c.on)
    <3>1. ASSUME NEW id \in Ids PROVE EffectiveIn(overrides, default, id) = (id \in c.on)
      BY DEF EffectiveIn
    <3> QED BY <3>1
  <2> HIDE DEF s
  <2> QED BY <2>3, <2>4, <2>5, SyncSound
<1>3. Sound(r, s, c)
  BY <1>2 DEF s
<1> HIDE DEF r
<1>4. r = [pane |-> r.pane, timers |-> r.timers, store |-> r.store, stops |-> r.stops] /\ r.stops = c.stops
  BY <1>3 DEF Sound, Core, Blocks
<1> QED BY <1>1, <1>3, <1>4

\* ... and for one that changes them, where the pane agrees already or nothing is
\* remembered that the user typed over.
LEMMA CommitSound ==
  ASSUME NEW b, NEW c \in Contexts, NEW u \in Usages, NEW ov, NEW def \in BOOLEAN, NEW s,
         Commit(b, ov, def, u, s), Sound(b, s, AllOn(c)), now \in Nat,
         c.on = {id \in Ids : EffectiveIn(ov, def, id)},
         c.owned => c.over = {},
         <<ov, def>> = <<overrides, default>> /\ c.owned /\ b.pane # NoPane => (b.pane.enabled => s.id \in c.on)
  PROVE  /\ Sound([pane |-> pane', timers |-> timers', store |-> store', stops |-> stops'], s, c)
         /\ stops' = c.stops /\ overrides' = ov /\ default' = def
<1> DEFINE r == IF <<b.store, ov, def>> # settings THEN Sync(b, ov, def, u, s) ELSE b
<1>1. /\ pane' = r.pane /\ timers' = r.timers /\ store' = r.store /\ stops' = r.stops
      /\ overrides' = ov /\ default' = def
  BY DEF Commit
<1>2. Sound(r, s, c)
  <2>1. CASE <<b.store, ov, def>> # settings
    <3>1. \A id \in Ids : EffectiveIn(ov, def, id) = (id \in c.on)
      <4>1. ASSUME NEW id \in Ids PROVE EffectiveIn(ov, def, id) = (id \in c.on)
        BY DEF EffectiveIn
      <4> QED BY <4>1
    <3>2. Sound(Sync(b, ov, def, u, s), s, c)
      BY <3>1, SyncSound
    <3> QED BY <2>1, <3>2
  <2>2. CASE <<b.store, ov, def>> = settings
    <3>1. <<ov, def>> = <<overrides, default>>
      BY <2>2 DEF settings
    <3>2. Sound(b, s, c)
      BY <3>1, Narrow
    <3> QED BY <2>2, <3>2
  <2> QED BY <2>1, <2>2
<1> HIDE DEF r
<1>4. r = [pane |-> r.pane, timers |-> r.timers, store |-> r.store, stops |-> r.stops] /\ r.stops = c.stops
  BY <1>2 DEF Sound, Core, Blocks
<1> QED BY <1>1, <1>2, <1>4

-----------------------------------------------------------------------------
(* A usage snapshot and the timers of the view *)

\* retry_pending_usage_confirmations: a moved reset moves the arm with a new timer.
LEMMA RetryPendingSound ==
  ASSUME NEW b, NEW s, NEW c \in Contexts, Sound(b, s, c), NEW u \in Usages, now \in Nat
  PROVE  Sound(RetryPending(b, u, s), s, c)
<1> DEFINE arm == [b.pane.armed EXCEPT !.at = u.reset + Slack, !.gen = b.pane.gen + 1]
<1>b. b \in Blocks /\ Kept(b, s) /\ Core(b, s, c)
  BY DEF Core, Sound
<1>1. CASE \/ b.pane = NoPane \/ s = NoSession \/ ~b.pane.enabled
  BY <1>1 DEF RetryPending
<1>2. CASE b.pane # NoPane /\ s # NoSession /\ b.pane.enabled /\ ~Eligible(s)
  BY <1>2, <1>b, DisarmSound DEF RetryPending
<1>3. CASE b.pane # NoPane /\ s # NoSession /\ b.pane.enabled /\ Eligible(s) /\ b.pane.armed = NoArm
  <2>1. RetryPending(b, u, s) = Confirm(b, ResetFor(u, 0))
    BY <1>3 DEF RetryPending
  <2>2. ResetFor(u, 0) \in Nat
    BY ResetTimes
  <2> QED BY <1>3, <2>1, <2>2, ConfirmSound
<1>4. CASE b.pane # NoPane /\ s # NoSession /\ b.pane.enabled /\ Eligible(s) /\ b.pane.armed # NoArm
  <2>1. CASE ~(u.kind = "full" /\ u.reset > now /\ b.pane.armed.at # u.reset + Slack)
    BY <1>4, <2>1 DEF RetryPending
  <2>2. CASE u.kind = "full" /\ u.reset > now /\ b.pane.armed.at # u.reset + Slack
    <3>1. RetryPending(b, u, s) = Arm(b, arm)
      BY <1>4, <2>2 DEF RetryPending
    <3>2. b.pane.armed \in Arms /\ b.pane.gen \in Nat
      BY <1>4, <1>b DEF Blocks, Panes
    <3>3. u.reset \in Nat
      <4>1. u \in [kind : {"near", "full"}, reset : Resets]
        BY <2>2 DEF Usages
      <4> QED BY <4>1, SessionAssumption
    <3>4. u.reset + Slack \in Nat /\ b.pane.gen + 1 \in Nat
      BY <3>2, <3>3 DEF Slack
    <3>5. /\ arm \in Arms /\ arm.gen = b.pane.gen + 1 /\ arm.id = b.pane.armed.id
          /\ arm.stop = b.pane.armed.stop
      BY <3>2, <3>4 DEF Arms
    <3> HIDE DEF arm
    <3>6. c.owned => arm.id = s.id /\ arm.stop \in Open(c, s.id)
      BY <1>4, <1>b, <3>5 DEF Core, OwnedPane
    <3> QED BY <1>4, <1>b, <3>1, <3>5, <3>6, ArmSound
  <2> QED BY <2>1, <2>2
<1> QED BY <1>1, <1>2, <1>3, <1>4

\* The set of timers is replaced by one in which no timer is early that was not.
LEMMA TimersCore ==
  ASSUME NEW b, NEW s, NEW c \in Contexts, Core(b, s, c), NEW ts \in SUBSET TimerRecords,
         \A x \in ts : \E y \in b.timers : x.gen = y.gen /\ x.at = y.at
  PROVE  Core([b EXCEPT !.timers = ts], s, c) /\ [b EXCEPT !.timers = ts].pane = b.pane
         /\ [b EXCEPT !.timers = ts].timers = ts
<1> DEFINE d == [b EXCEPT !.timers = ts]
<1>b. b \in Blocks /\ b.stops = c.stops /\ Fit(s) /\ Kept(b, s)
  BY DEF Core
<1>1. d \in Blocks /\ d.pane = b.pane /\ d.timers = ts /\ d.store = b.store /\ d.stops = b.stops
  BY <1>b DEF Blocks
<1> HIDE DEF d
<1>2. Kept(d, s)
  BY <1>1, <1>b DEF Kept
<1>3. ASSUME c.early PROVE Early(d)
  <2>1. Early(b)
    BY <1>3 DEF Core
  <2>2. CASE b.pane = NoPane
    BY <1>1, <2>1, <2>2 DEF Early
  <2>3. CASE b.pane # NoPane
    <3>1. ASSUME NEW x \in ts
          PROVE  /\ x.gen <= b.pane.gen
                 /\ b.pane.armed # NoArm /\ x.gen = b.pane.gen => b.pane.armed.at <= x.at
      <4>1. PICK y \in b.timers : x.gen = y.gen /\ x.at = y.at
        OBVIOUS
      <4> QED BY <2>1, <2>3, <4>1 DEF Early
    <3> QED BY <1>1, <2>3, <3>1 DEF Early
  <2> QED BY <2>2, <2>3
<1>4. ASSUME c.owned PROVE OwnedPane(d, s, c) /\ OwnedStore(d, c) /\ OwnedStop(d, s, c)
  <2>1. OwnedPane(b, s, c) /\ OwnedStore(b, c) /\ OwnedStop(b, s, c)
    BY <1>4 DEF Core
  <2>2. OwnedPane(d, s, c)
    BY <1>1, <2>1 DEF OwnedPane
  <2>3. OwnedStore(d, c)
    BY <1>1, <2>1 DEF OwnedStore
  <2>4. OwnedStop(d, s, c)
    BY <1>1, <2>1 DEF OwnedStop
  <2> QED BY <2>2, <2>3, <2>4
<1>5. Core(d, s, c)
  BY <1>1, <1>2, <1>3, <1>4, <1>b DEF Core
<1> QED BY <1>1, <1>5 DEF d

\* The invariant of this state is about the block that its variables make up.
LEMMA HereFields ==
  Here.pane = pane /\ Here.timers = timers /\ Here.store = store /\ Here.stops = stops
BY DEF Here

\* A timer is gone: only an arm for which it was set misses it.
LEMMA WithoutSound ==
  ASSUME NEW s, NEW c \in Contexts, Sound(Here, s, c), NEW tm \in timers
  PROVE  /\ Core(Without(tm), s, c) /\ Without(tm).pane = pane
         /\ ~ArmedFor(tm.gen) => Sound(Without(tm), s, c)
<1> DEFINE ts == timers \ {tm}
<1>1. Without(tm) = [Here EXCEPT !.timers = ts]
  BY HereFields DEF Without, Here
<1>2. Core(Here, s, c) /\ HasTimer(Here) /\ Kept(Here, s) /\ Here \in Blocks
  BY DEF Sound, Core
<1>3. ts \in SUBSET TimerRecords
  BY <1>2, HereFields DEF Blocks
<1>t. \A x \in ts : \E y \in Here.timers : x.gen = y.gen /\ x.at = y.at
  BY HereFields
<1>4. Core(Without(tm), s, c) /\ Without(tm).pane = pane /\ Without(tm).timers = ts
  <2> DEFINE d == [Here EXCEPT !.timers = ts]
  <2> HIDE DEF ts
  <2>1. Core(d, s, c) /\ d.pane = Here.pane /\ d.timers = ts
    BY <1>2, <1>3, <1>t, TimersCore
  <2> HIDE DEF d
  <2>2. Without(tm) = d
    BY <1>1 DEF d
  <2> QED BY <2>1, <2>2, HereFields
<1>5. ASSUME ~ArmedFor(tm.gen) PROVE HasTimer(Without(tm))
  <2> SUFFICES ASSUME pane # NoPane, pane.armed # NoArm
               PROVE  \E x \in ts : x.gen = pane.armed.gen /\ x.at <= pane.armed.at
    BY <1>4 DEF HasTimer
  <2>1. pane.enabled /\ pane.armed.gen # tm.gen
    BY <1>2, <1>5, HereFields DEF Kept, ArmedFor
  <2>2. PICK x \in timers : x.gen = pane.armed.gen /\ x.at <= pane.armed.at
    BY <1>2, HereFields DEF HasTimer
  <2> QED BY <2>1, <2>2
<1> QED BY <1>4, <1>5 DEF Sound

\* A timer looks again: the next chunk of the wait is for the same arm.
LEMMA ChunkSound ==
  ASSUME NEW s, NEW c \in Contexts, Sound(Here, s, c), NEW tm \in timers, now \in Nat
  PROVE  Sound([Without(tm) EXCEPT !.timers = @ \cup {[tm EXCEPT !.wake = MinOf(tm.at, now + Chunk)]}],
               s, c)
<1> DEFINE w == MinOf(tm.at, now + Chunk)
           tn == [tm EXCEPT !.wake = w]
           ts == (timers \ {tm}) \cup {tn}
           d == [Here EXCEPT !.timers = ts]
<1>2. Core(Here, s, c) /\ HasTimer(Here) /\ Here \in Blocks
  BY DEF Sound, Core
<1>t. tm \in TimerRecords /\ timers \in SUBSET TimerRecords
  BY <1>2, HereFields DEF Blocks
<1>w. w \in Nat
  BY <1>t DEF MinOf, Chunk, TimerRecords
<1>1. [Without(tm) EXCEPT !.timers = @ \cup {tn}] = d
  BY HereFields DEF Without, Here
<1> HIDE DEF w
<1>3. tn \in TimerRecords /\ tn.gen = tm.gen /\ tn.at = tm.at
  BY <1>t, <1>w DEF TimerRecords
<1> HIDE DEF tn
<1>4. ts \in SUBSET TimerRecords
  BY <1>t, <1>3
<1>5. \A x \in ts : \E y \in Here.timers : x.gen = y.gen /\ x.at = y.at
  BY <1>3, HereFields
<1>6. \A y \in timers : \E x \in ts : x.gen = y.gen /\ x.at = y.at
  BY <1>3
<1> HIDE DEF ts
<1>7. Core(d, s, c) /\ d.pane = pane /\ d.timers = ts
  BY <1>2, <1>4, <1>5, HereFields, TimersCore
<1>8. HasTimer(d)
  BY <1>2, <1>6, <1>7, HereFields DEF HasTimer
<1> QED BY <1>1, <1>7, <1>8 DEF Sound, w, tn

\* An arm that fired, or was given up, is gone from the pane and from the settings.
LEMMA FiredFields ==
  ASSUME NEW b \in Blocks, b.pane # NoPane
  PROVE  /\ Fired(b) \in Blocks /\ Fired(b).stops = b.stops /\ Fired(b).timers = b.timers
         /\ Fired(b).pane \in Panes /\ Fired(b).pane.armed = NoArm
         /\ Fired(b).pane.gen = b.pane.gen /\ Fired(b).pane.enabled = b.pane.enabled
         /\ Fired(b).pane.key = b.pane.key /\ Fired(b).pane.pending = b.pane.pending
         /\ Fired(b).pane.pendingId = b.pane.pendingId
         /\ b.pane.key = NoId => Fired(b).store = b.store
         /\ b.pane.key \in Ids => Fired(b).store = [b.store EXCEPT ![b.pane.key] = NoTime]
<1> DEFINE none == NoArm
           gone == NoTime
           key == b.pane.key
           p == [b.pane EXCEPT !.armed = none]
           d == [b EXCEPT !.pane = p]
<1>0. b.pane \in Panes
  BY DEF Blocks
<1>1. Fired(b) = Save(d, key, gone)
  <2>1. [b EXCEPT !.pane.armed = NoArm] = d
    BY <1>0 DEF Blocks, Panes
  <2> QED BY <2>1 DEF Fired
<1>n. none \in Arms \cup {NoArm} /\ none = NoArm /\ gone \in Saved \cup {NoTime} /\ gone = NoTime
  OBVIOUS
<1> HIDE DEF none, gone
<1>2. /\ p \in Panes /\ p.armed = none /\ p.gen = b.pane.gen /\ p.enabled = b.pane.enabled
      /\ p.key = b.pane.key /\ p.pending = b.pane.pending /\ p.pendingId = b.pane.pendingId
  BY <1>0, <1>n DEF Panes
<1>k. key \in Ids \cup {NoId}
  BY <1>0 DEF Panes
<1> HIDE DEF p
<1>3. d \in Blocks /\ d.pane = p /\ d.timers = b.timers /\ d.store = b.store /\ d.stops = b.stops
  BY <1>2, PaneFields
<1> HIDE DEF d
<1>4. /\ Save(d, key, gone) \in Blocks
      /\ Save(d, key, gone).pane = p /\ Save(d, key, gone).timers = b.timers
      /\ Save(d, key, gone).stops = b.stops
      /\ key = NoId => Save(d, key, gone).store = b.store
      /\ key \in Ids => Save(d, key, gone).store = [b.store EXCEPT ![key] = gone]
  <2> HIDE DEF key
  <2> QED BY <1>3, <1>k, <1>n, SaveFields
<1> QED BY <1>1, <1>2, <1>4, <1>n

\* Nothing that is left can answer the stop again.
LEMMA FiredSound ==
  ASSUME NEW b, NEW s, NEW c \in Contexts, Core(b, s, c), b.pane # NoPane, b.pane.enabled
  PROVE  Sound(Fired(b), s, c)
<1> DEFINE d == Fired(b)
<1>b. b \in Blocks /\ b.stops = c.stops /\ Fit(s) /\ Kept(b, s)
  BY DEF Core
<1>1. /\ d \in Blocks /\ d.stops = b.stops /\ d.timers = b.timers
      /\ d.pane \in Panes /\ d.pane.armed = NoArm
      /\ d.pane.gen = b.pane.gen /\ d.pane.enabled = b.pane.enabled
      /\ d.pane.key = b.pane.key /\ d.pane.pending = b.pane.pending
      /\ d.pane.pendingId = b.pane.pendingId
      /\ b.pane.key \in Ids => d.store = [b.store EXCEPT ![b.pane.key] = NoTime]
  BY <1>b, FiredFields
<1> HIDE DEF d
<1>2. d.pane # NoPane
  BY <1>1, Sentinels
<1>3. Kept(d, s)
  BY <1>1, <1>b DEF Kept
<1>4. c.early => Early(d)
  BY <1>1, <1>2 DEF Core, Early
<1>5. ASSUME c.owned PROVE OwnedPane(d, s, c) /\ OwnedStore(d, c) /\ OwnedStop(d, s, c)
  <2>1. OwnedPane(b, s, c) /\ OwnedStore(b, c) /\ OwnedStop(b, s, c)
    BY <1>5 DEF Core
  <2>2. b.pane.key \in Ids
    BY <1>b, <2>1 DEF OwnedPane, Fit, Kept
  <2>3. b.store \in [Ids -> Saved \cup {NoTime}]
    BY <1>b DEF Blocks
  <2>4. OwnedPane(d, s, c)
    BY <1>1, <2>1 DEF OwnedPane
  <2>5. OwnedStore(d, c)
    BY <1>1, <2>1, <2>2, <2>3 DEF OwnedStore
  <2>6. OwnedStop(d, s, c)
    BY <1>1, <1>2, <2>1 DEF OwnedStop
  <2> QED BY <2>4, <2>5, <2>6
<1>6. Core(d, s, c)
  BY <1>1, <1>3, <1>4, <1>5, <1>b DEF Core
<1>7. HasTimer(d)
  BY <1>1 DEF HasTimer
<1> QED BY <1>6, <1>7 DEF Sound, d

\* A block without an arm or a pending stop, and without a persisted arm of its
\* session, stays sound when a stop of that session is closed.
LEMMA ClosedSound ==
  ASSUME NEW b, NEW s, NEW c \in Contexts, Sound(b, s, c), NEW d \in Contexts,
         d.early = c.early, d.owned = c.owned, d.stops = c.stops, d.on = c.on, NEW n,
         c.owned => /\ n \in Open(c, s.id) /\ b.store[s.id] = NoTime
                    /\ b.pane # NoPane => b.pane.armed = NoArm /\ b.pane.pending = 0
                    /\ d.over \cup d.sent \subseteq c.over \cup c.sent \cup {n}
                    /\ LimitStop(s) => /\ Len(c.stops) \notin d.sent
                                       /\ Len(c.stops) \in d.over => b.pane # NoPane /\ b.pane.enabled
  PROVE  Sound(b, s, d)
<1>1. ASSUME c.owned PROVE OwnedPane(b, s, d) /\ OwnedStore(b, d) /\ OwnedStop(b, s, d)
  <2>1. OwnedPane(b, s, c) /\ OwnedStore(b, c) /\ OwnedStop(b, s, c)
    BY <1>1 DEF Core, Sound
  <2>2. OwnedPane(b, s, d)
    BY <1>1, <2>1 DEF OwnedPane
  <2>3. ASSUME NEW id \in Ids, b.store[id] # NoTime PROVE b.store[id].stop \in Open(d, id)
    <3>1. b.store[id].stop \in Open(c, id) /\ id # s.id
      BY <1>1, <2>1, <2>3 DEF OwnedStore
    <3>2. b.store[id].stop # n
      BY <1>1, <3>1 DEF Open
    <3> QED BY <1>1, <3>1, <3>2 DEF Open
  <2>4. OwnedStore(b, d)
    BY <2>3 DEF OwnedStore
  <2>5. OwnedStop(b, s, d)
    BY <1>1, <2>1 DEF OwnedStop
  <2> QED BY <2>2, <2>4, <2>5
<1> QED BY <1>1 DEF Sound, Core

-----------------------------------------------------------------------------
(* The inductive invariant *)

\* The types that a block does not cover.
RestOK ==
  /\ overrides \in [Ids -> {"unset", "on", "off"}] /\ default \in BOOLEAN
  /\ usage \in Usages /\ writable \in BOOLEAN /\ now \in Nat /\ restarts \in Nat
  /\ dismissed \in SUBSET Nat /\ sent \in Seq(Sendings)

\* What was typed, and that it was about stops that were counted.
History ==
  /\ dismissed \cup {sent[k].stop : k \in DOMAIN sent} \subseteq DOMAIN stops
  /\ OneContinuePerStop /\ TakeoverIsFinal /\ ContinueOnlyForItsSession /\ OffMeansOff

ContinueInv(early, owned) ==
  /\ SessionInv /\ RestOK /\ Sound(Here, sess, Context(early, owned))
  /\ early => NeverEarly
  /\ owned => History

\* The context of a state.
LEMMA ContextFields ==
  ASSUME NEW early \in BOOLEAN, NEW owned \in BOOLEAN, ContinueInv(early, owned)
  PROVE  /\ Context(early, owned) \in Contexts /\ OnNow(Context(early, owned))
         /\ Context(early, owned).early = early /\ Context(early, owned).owned = owned
         /\ Context(early, owned).on = {id \in Ids : EffectiveIn(overrides, default, id)}
         /\ Context(early, owned).over = dismissed
         /\ Context(early, owned).sent = {sent[k].stop : k \in DOMAIN sent}
         /\ Context(early, owned).stops = stops
         /\ After(Context(early, owned), stops) = Context(early, owned)
         /\ stops \in Seq(Ids)
<1> DEFINE c == Context(early, owned)
           on == {id \in Ids : EffectiveIn(overrides, default, id)}
           gone == {sent[k].stop : k \in DOMAIN sent}
<1>0. RestOK /\ Here \in Blocks
  BY DEF ContinueInv, Sound, Core
<1>1. stops \in Seq(Ids)
  BY <1>0, HereFields DEF Blocks
<1>2. on \in SUBSET Ids
  OBVIOUS
<1>3. gone \in SUBSET Nat
  <2>1. \A k \in DOMAIN sent : sent[k] \in Sendings
    BY <1>0 DEF RestOK
  <2>2. \A k \in DOMAIN sent : sent[k].stop \in Nat
    BY <2>1 DEF Sendings
  <2> QED BY <2>2
<1>4. c = [early |-> early, owned |-> owned, on |-> on, over |-> dismissed, sent |-> gone, stops |-> stops]
  BY DEF Context
<1> HIDE DEF c
<1>5. OnNow(c)
  BY <1>4 DEF OnNow
<1> HIDE DEF on, gone
<1>6. c \in Contexts /\ c.early = early /\ c.owned = owned
  BY <1>0, <1>1, <1>2, <1>3, <1>4 DEF RestOK, Contexts
<1>7. c.on = on /\ c.over = dismissed /\ c.sent = gone /\ c.stops = stops
  BY <1>4
<1>8. After(c, stops) = c
  BY <1>6, <1>7 DEF After, Contexts
<1> QED BY <1>1, <1>5, <1>6, <1>7, <1>8 DEF c, on, gone

\* What was typed stays as it was when nothing is typed.
LEMMA HistoryStays ==
  ASSUME History, UNCHANGED <<dismissed, sent>>,
         \A n \in DOMAIN stops : n \in DOMAIN stops' /\ stops'[n] = stops[n]
  PROVE  History'
<1>1. (dismissed \cup {sent[k].stop : k \in DOMAIN sent} \subseteq DOMAIN stops)'
  BY DEF History
<1>2. OneContinuePerStop' /\ TakeoverIsFinal' /\ OffMeansOff'
  BY DEF History, OneContinuePerStop, TakeoverIsFinal, OffMeansOff
<1>3. ContinueOnlyForItsSession'
  <2>1. \A k \in DOMAIN sent : sent[k].stop \in DOMAIN stops
    BY DEF History
  <2> QED BY <2>1 DEF History, ContinueOnlyForItsSession
<1> QED BY <1>1, <1>2, <1>3 DEF History

\* A step that types nothing and changes no setting: it is enough to follow the block
\* up to the moment at which a changed setting is announced.
LEMMA SettledStep ==
  ASSUME NEW early \in BOOLEAN, NEW owned \in BOOLEAN, ContinueInv(early, owned), SessionInv',
         NEW b, NEW u \in Usages, Settle(b, u), NEW list \in Seq(Ids),
         Sound(b, sess', After(Context(early, owned), list)),
         \A n \in DOMAIN stops : n \in DOMAIN list /\ list[n] = stops[n],
         UNCHANGED <<dismissed, sent, writable, now, restarts>>, usage' \in Usages
  PROVE  ContinueInv(early, owned)'
<1> DEFINE c == Context(early, owned)
           d == After(c, list)
<1>0. RestOK /\ (early => NeverEarly) /\ (owned => History)
  BY DEF ContinueInv
<1>1. /\ c \in Contexts /\ c.on = {id \in Ids : EffectiveIn(overrides, default, id)}
  BY ContextFields
<1>2. d \in Contexts /\ d.stops = list /\ d.on = c.on
  BY <1>1, AfterFields
<1>3. now \in Nat /\ default \in BOOLEAN
  BY <1>0 DEF RestOK
<1> HIDE DEF c
<1>4. /\ Sound([pane |-> pane', timers |-> timers', store |-> store', stops |-> stops'], sess', d)
      /\ stops' = list /\ overrides' = overrides /\ default' = default
  <2> HIDE DEF d
  <2>1. Sound(b, sess', d)
    BY DEF c, d
  <2> QED BY <1>1, <1>2, <1>3, <2>1, SettleSound
<1>5. Here' = [pane |-> pane', timers |-> timers', store |-> store', stops |-> stops']
  BY DEF Here
<1>6. Context(early, owned)' = d
  <2> DEFINE on == {id \in Ids : EffectiveIn(overrides, default, id)}
             gone == {sent[k].stop : k \in DOMAIN sent}
  <2>1. c = [early |-> early, owned |-> owned, on |-> on, over |-> dismissed, sent |-> gone, stops |-> stops]
    BY DEF c, Context
  <2>2. Context(early, owned)' =
          [early |-> early, owned |-> owned, on |-> on, over |-> dismissed, sent |-> gone, stops |-> list]
    BY <1>4 DEF Context, EffectiveIn
  <2> HIDE DEF on, gone, c
  <2> QED BY <2>1, <2>2 DEF After
<1> HIDE DEF d
<1>7. Sound(Here, sess, Context(early, owned))'
  BY <1>4, <1>5, <1>6
<1>8. RestOK'
  BY <1>0, <1>4 DEF RestOK
<1>9. early => NeverEarly'
  BY <1>0 DEF NeverEarly
<1>10. owned => History'
  BY <1>0, <1>4, HistoryStays
<1> QED BY <1>7, <1>8, <1>9, <1>10 DEF ContinueInv

\* ... and it leaves the session alone.
LEMMA QuietStep ==
  ASSUME NEW early \in BOOLEAN, NEW owned \in BOOLEAN, ContinueInv(early, owned), Quiet,
         NEW b, Settle(b, usage), Sound(b, sess, Context(early, owned)), UNCHANGED <<world, history>>
  PROVE  ContinueInv(early, owned)'
<1>1. SessionInv' /\ sess' = sess
  BY QuietSteps DEF ContinueInv
<1>2. usage \in Usages
  BY DEF ContinueInv, RestOK
<1>3. After(Context(early, owned), stops) = Context(early, owned) /\ stops \in Seq(Ids)
  BY ContextFields
<1>4. UNCHANGED <<dismissed, sent, writable, now, restarts>> /\ usage' \in Usages
  BY <1>2 DEF world, history
<1> QED BY <1>1, <1>2, <1>3, <1>4, SettledStep

-----------------------------------------------------------------------------
(* The steps keep it *)

\* The session in a pane that is switched on is given another name only while the
\* pane waits for nothing, and one for which auto-continue is available and on.
RenamesAtRest ==
  pane # NoPane /\ sess' # NoSession /\ sess'.id # sess.id =>
    (pane.enabled => ~Pending /\ Eligible(sess') /\ EffectiveIn(overrides, default, sess'.id))

\* No timer of the view outlives the pane's state.
TimersEndWithPane == pane = NoPane => timers = {}

\* A pane's state begins only when no timer is left of an earlier one.
PaneFindsNoTimers == pane = NoPane /\ pane' # NoPane => timers = {}

\* An update of the session, and the reaction to it.
LEMMA SessionActsKeep ==
  ASSUME NEW early \in BOOLEAN, NEW owned \in BOOLEAN, ContinueInv(early, owned), SessionActs,
         owned => RenamesAtRest, early => TimersEndWithPane'
  PROVE  ContinueInv(early, owned)'
<1> DEFINE c == Context(early, owned)
           r == Reactions(Here, usage, sess', emitted')
           d == After(c, r.stops)
<1>1. SessionInv' /\ SessionMove
  BY SessionSteps DEF ContinueInv, SessionActs, SessionNext
<1>2. Settle(r, usage) /\ UNCHANGED <<world, history>>
  BY DEF SessionActs, Reacts
<1>3. Sound(Here, sess, c) /\ usage \in Usages /\ now \in Nat /\ Here \in Blocks
  BY DEF ContinueInv, RestOK, Sound, Core
<1>4. /\ c \in Contexts /\ OnNow(c) /\ c.early = early /\ c.owned = owned /\ c.stops = stops
      /\ c.over = dismissed /\ c.sent = {sent[k].stop : k \in DOMAIN sent}
  BY ContextFields
<1>5. c.owned => c.over \cup c.sent \subseteq DOMAIN c.stops
  BY <1>4 DEF ContinueInv, History
<1>6. c.owned /\ Here.pane # NoPane /\ sess' # NoSession => sess'.id = sess.id \/ AtRest(Here)
  BY <1>4, HereFields DEF RenamesAtRest, AtRest, Pending
<1>7. ASSUME c.early, sess # NoSession, sess' = NoSession PROVE Here.timers = {}
  <2>1. emitted' = <<"ended">>
    BY <1>1, <1>7 DEF SessionMove
  <2>2. r = [Here EXCEPT !.pane = NoPane]
    <3>1. Counted(Here, sess', emitted') = Here
      BY <1>7 DEF Counted, LimitStop
    <3>2. r = React(Here, usage, sess', "ended")
      <4>1. emitted' \in Seq(EventNames) /\ Len(emitted') = 1 /\ emitted'[1] = "ended"
        BY <1>1, <2>1 DEF SessionInv, SessionTypeOK
      <4>2. r = React(Here, usage, sess', emitted'[1])
        BY <3>1, <4>1, ReactionsFew
      <4> QED BY <4>1, <4>2
    <3> QED BY <3>2 DEF React
  <2>3. r.pane = NoPane /\ r.timers = timers /\ r.store = store
    BY <2>2, HereFields DEF Here
  <2> HIDE DEF r
  <2>4. pane' = r.pane /\ timers' = r.timers
    BY <1>2, <2>3 DEF Settle, Commit, settings
  <2> QED BY <1>4, <1>7, <2>3, <2>4, HereFields DEF TimersEndWithPane
<1> HIDE DEF c
<1>8. /\ d \in Contexts /\ Sound(r, sess', d)
      /\ \A n \in DOMAIN c.stops : n \in DOMAIN d.stops /\ d.stops[n] = c.stops[n]
  BY <1>1, <1>3, <1>4, <1>5, <1>6, <1>7, UpdateSound
<1> HIDE DEF r
<1>9. r.stops \in Seq(Ids) /\ d.stops = r.stops
  <2>1. d.stops \in Seq(Ids) /\ r.stops = d.stops
    BY <1>8 DEF Contexts, Sound, Core
  <2> QED BY <2>1
<1>10. UNCHANGED <<dismissed, sent, writable, now, restarts>> /\ usage' \in Usages
  BY <1>2, <1>3 DEF world, history
<1>11. Sound(r, sess', After(Context(early, owned), r.stops))
  BY <1>8 DEF c
<1>12. \A n \in DOMAIN stops : n \in DOMAIN r.stops /\ r.stops[n] = stops[n]
  BY <1>4, <1>8, <1>9
<1> QED BY <1>1, <1>2, <1>3, <1>9, <1>10, <1>11, <1>12, SettledStep

\* A usage snapshot; the same scan may find the limit stop of a Codex session.
LEMMA UsageScanKeeps ==
  ASSUME NEW early \in BOOLEAN, NEW owned \in BOOLEAN, ContinueInv(early, owned),
         NEW u \in Usages, UsageScan(u)
  PROVE  ContinueInv(early, owned)'
<1> DEFINE c == Context(early, owned)
           b == RetryPending(Here, u, sess')
           r == Reactions(b, u, sess', emitted')
           d == After(c, r.stops)
<1>1. /\ SessionInv' /\ SessionMove
      /\ sess = NoSession <=> sess' = NoSession
      /\ sess # NoSession => sess'.id = sess.id /\ sess'.rich = sess.rich /\ sess'.plugin = sess.plugin
  <2>1. CASE LimitScanned
    <3>1. ScanRollouts
      BY <2>1 DEF UsageScan
    <3>2. SessionInv' /\ SessionMove
      BY <3>1, SessionSteps DEF ContinueInv, SessionNext
    <3>3. sess \in Sessions /\ sess # NoSession /\ sess' = LimitStopped(sess)
      BY <3>1 DEF ContinueInv, SessionInv, SessionTypeOK, ScanRollouts, LimitScanned
    <3>4. [limit |-> TRUE, reset |-> 0] \in Stops
      BY DEF Stops
    <3>5. sess' \in Sessions /\ sess'.id = sess.id /\ sess'.rich = sess.rich /\ sess'.plugin = sess.plugin
      BY <3>3, <3>4 DEF LimitStopped, Sessions, Statuses
    <3>6. sess' # NoSession
      BY <3>5, SessionAssumption
    <3> QED BY <3>2, <3>3, <3>5, <3>6
  <2>2. CASE ~LimitScanned
    BY <2>2, QuietSteps DEF UsageScan, ContinueInv
  <2> QED BY <2>1, <2>2
<1>2. Settle(r, u) /\ UNCHANGED <<writable, now, restarts, history>> /\ usage' = u
  BY DEF UsageScan
<1>3. Sound(Here, sess, c) /\ now \in Nat
  BY DEF ContinueInv, RestOK
<1>4. /\ c \in Contexts /\ OnNow(c) /\ c.owned = owned /\ c.stops = stops
      /\ c.over = dismissed /\ c.sent = {sent[k].stop : k \in DOMAIN sent}
  BY ContextFields
<1> HIDE DEF c
<1>5. Sound(b, sess, c)
  <2>1. RetryPending(Here, u, sess') = RetryPending(Here, u, sess)
    BY <1>1 DEF RetryPending, Eligible
  <2>2. Sound(RetryPending(Here, u, sess), sess, c)
    BY <1>3, <1>4, RetryPendingSound
  <2> QED BY <2>1, <2>2
<1>6. c.owned => c.over \cup c.sent \subseteq DOMAIN c.stops
  BY <1>4 DEF ContinueInv, History
<1>k. b.pane # NoPane => sess # NoSession
  BY <1>5 DEF Sound, Core, Kept
<1> HIDE DEF b
<1>8. /\ d \in Contexts /\ Sound(r, sess', d)
      /\ \A n \in DOMAIN c.stops : n \in DOMAIN d.stops /\ d.stops[n] = c.stops[n]
  BY <1>1, <1>3, <1>4, <1>5, <1>6, <1>k, UpdateSound
<1> HIDE DEF r
<1>9. r.stops \in Seq(Ids) /\ d.stops = r.stops
  <2>1. d.stops \in Seq(Ids) /\ r.stops = d.stops
    BY <1>8 DEF Contexts, Sound, Core
  <2> QED BY <2>1
<1>10. UNCHANGED <<dismissed, sent, writable, now, restarts>> /\ usage' \in Usages
  BY <1>2 DEF history
<1>11. Sound(r, sess', After(Context(early, owned), r.stops))
  BY <1>8 DEF c
<1>12. \A n \in DOMAIN stops : n \in DOMAIN r.stops /\ r.stops[n] = stops[n]
  BY <1>4, <1>8, <1>9
<1> QED BY <1>1, <1>2, <1>9, <1>10, <1>11, <1>12, SettledStep

\* The context after stops were closed, and after nothing is remembered that the user
\* typed over, under other settings.
Closing(c, over, gone) == [c EXCEPT !.over = over, !.sent = gone]

Reopening(c, on) == [c EXCEPT !.on = on, !.over = {}]

\* A step that closes stops, in the state in which they are closed.
LEMMA ClosingStep ==
  ASSUME NEW early \in BOOLEAN, NEW owned \in BOOLEAN, ContinueInv(early, owned),
         NEW b, Settle(b, usage), NEW d \in Contexts,
         d = Closing(Context(early, owned), dismissed', {sent'[k].stop : k \in DOMAIN sent'}),
         Sound(b, sess', d), UNCHANGED world, dismissed' \in SUBSET Nat, sent' \in Seq(Sendings)
  PROVE  /\ Sound(Here, sess, Context(early, owned))' /\ RestOK'
         /\ UNCHANGED <<stops, overrides, default>>
<1> DEFINE on == {id \in Ids : EffectiveIn(overrides, default, id)}
           gone == {sent'[k].stop : k \in DOMAIN sent'}
<1>0. RestOK /\ usage \in Usages /\ now \in Nat /\ default \in BOOLEAN
  BY DEF ContinueInv, RestOK
<1>1. Context(early, owned) \in Contexts /\ Context(early, owned).on = on
      /\ Context(early, owned).stops = stops
  BY ContextFields
<1>2. d = [early |-> early, owned |-> owned, on |-> on, over |-> dismissed', sent |-> gone, stops |-> stops]
  BY DEF Context, Closing
<1>3. d.on = on /\ d.stops = stops
  <2> HIDE DEF on, gone
  <2> QED BY <1>2
<1>4. /\ Sound([pane |-> pane', timers |-> timers', store |-> store', stops |-> stops'], sess', d)
      /\ stops' = stops /\ overrides' = overrides /\ default' = default
  BY <1>0, <1>3, SettleSound
<1>5. Here' = [pane |-> pane', timers |-> timers', store |-> store', stops |-> stops']
  BY DEF Here
<1>6. Context(early, owned)' = d
  BY <1>2, <1>4 DEF Context, EffectiveIn
<1>7. RestOK'
  BY <1>0, <1>4 DEF RestOK, world
<1> QED BY <1>4, <1>5, <1>6, <1>7

\* Typing over a pending continue closes its stop.
LEMMA UserInputKeeps ==
  ASSUME NEW early \in BOOLEAN, NEW owned \in BOOLEAN, ContinueInv(early, owned), UserInput
  PROVE  ContinueInv(early, owned)'
<1> DEFINE c == Context(early, owned)
           b == Disarm(Here)
           over == dismissed \cup PendingStop
           gone == {sent'[k].stop : k \in DOMAIN sent'}
           d == Closing(c, over, gone)
<1>0. /\ Quiet /\ Settle(IF Pending THEN Disarm(Here) ELSE Here, usage)
      /\ dismissed' = over /\ UNCHANGED <<world, sent>>
  BY DEF UserInput
<1>1. SessionInv' /\ sess' = sess
  BY <1>0, QuietSteps DEF ContinueInv
<1>2. Sound(Here, sess, c) /\ RestOK
  BY DEF ContinueInv
<1>3. /\ c \in Contexts /\ c.early = early /\ c.owned = owned /\ c.stops = stops /\ c.over = dismissed
      /\ c.sent = {sent[k].stop : k \in DOMAIN sent}
  BY ContextFields
<1>4. CASE ~Pending
  <2>1. PendingStop = {}
    BY <1>4 DEF PendingStop
  <2>2. UNCHANGED <<world, history>>
    BY <1>0, <2>1 DEF history
  <2>3. Settle(Here, usage)
    BY <1>0, <1>4
  <2> QED BY <1>0, <1>2, <2>2, <2>3, QuietStep
<1>5. CASE Pending
  <2>1. pane # NoPane /\ (pane.pending # 0 \/ pane.armed # NoArm)
    BY <1>5 DEF Pending
  <2>2. pane \in Panes /\ Here \in Blocks /\ Kept(Here, sess) /\ Fit(sess)
    BY <1>2, <2>1, HereFields DEF Sound, Core, Blocks
  <2>3. sess # NoSession /\ sess.rich /\ sess.id \in Ids
    BY <2>1, <2>2, HereFields DEF Kept, Fit
  <2>4. PendingStop \in SUBSET Nat
    <3>1. pane.pending \in Nat /\ (pane.armed # NoArm => pane.armed.stop \in Nat)
      BY <2>2 DEF Panes, Arms
    <3> QED BY <3>1 DEF PendingStop
  <2>5. over \in SUBSET Nat
    BY <1>2, <2>4 DEF RestOK
  <2>6. gone = c.sent
    BY <1>0, <1>3
  <2> HIDE DEF c, over, gone
  <2>7. /\ d \in Contexts /\ d.early = c.early /\ d.owned = c.owned /\ d.stops = c.stops /\ d.on = c.on
        /\ d.over = over /\ d.sent = c.sent
    <3>1. d = [c EXCEPT !.over = over]
      BY <1>3, <2>6 DEF Closing, Contexts
    <3>2. d \in Contexts
      BY <1>3, <2>5, <3>1 DEF Contexts
    <3>3. d.early = c.early /\ d.owned = c.owned
      BY <1>3, <3>1 DEF Contexts
    <3>4. d.stops = c.stops /\ d.on = c.on /\ d.over = over /\ d.sent = c.sent
      BY <1>3, <3>1 DEF Contexts
    <3> QED BY <3>2, <3>3, <3>4
  <2> HIDE DEF d
  <2>8. Sound(b, sess, c)
    BY <1>2, <1>3, DisarmSound DEF Sound
  <2>9. ASSUME owned
        PROVE  \E n : /\ PendingStop = {n} /\ n \in Open(c, sess.id)
    <3>1. OwnedPane(Here, sess, c)
      BY <1>2, <1>3, <2>9 DEF Sound, Core
    <3>2. CASE pane.armed # NoArm
      <4>1. pane.armed.id = sess.id /\ pane.armed.stop \in Open(c, sess.id)
        BY <2>1, <3>1, <3>2, HereFields DEF OwnedPane
      <4> QED BY <1>5, <2>3, <3>2, <4>1 DEF PendingStop
    <3>3. CASE pane.armed = NoArm
      <4>1. pane.pendingId = sess.id /\ pane.pending \in Open(c, sess.id)
        BY <2>1, <3>1, <3>3, HereFields DEF OwnedPane
      <4> QED BY <1>5, <2>3, <3>3, <4>1 DEF PendingStop
    <3> QED BY <3>2, <3>3
  <2>10. ASSUME owned
         PROVE  /\ b.store[sess.id] = NoTime
                /\ b.pane # NoPane /\ b.pane.armed = NoArm /\ b.pane.pending = 0 /\ b.pane.enabled
    <3>1. OwnedPane(Here, sess, c)
      BY <1>2, <1>3, <2>10 DEF Sound, Core
    <3>2. pane.key = sess.id /\ pane.enabled
      BY <2>1, <2>2, <3>1, HereFields DEF OwnedPane, Kept
    <3>3. /\ b.pane \in Panes /\ b.pane.armed = NoArm /\ b.pane.pending = 0
          /\ b.pane.enabled = pane.enabled
          /\ b.store = [store EXCEPT ![pane.key] = NoTime]
      BY <2>1, <2>2, <2>3, <3>2, HereFields, DisarmFields
    <3>4. store \in [Ids -> Saved \cup {NoTime}]
      BY <2>2, HereFields DEF Blocks
    <3> HIDE DEF b
    <3> QED BY <2>3, <3>2, <3>3, <3>4, Sentinels
  <2> HIDE DEF b
  <2>11. Sound(b, sess, d)
    <3>1. CASE ~owned
      <4>1. ~d.owned /\ ~c.owned
        BY <1>3, <2>7, <3>1
      <4> QED BY <2>7, <2>8, <4>1 DEF Sound, Core
    <3>2. CASE owned
      <4>1. PICK n : PendingStop = {n} /\ n \in Open(c, sess.id)
        BY <2>9, <3>2
      <4>2. d.over \cup d.sent \subseteq c.over \cup c.sent \cup {n}
        BY <1>3, <2>7, <4>1 DEF over
      <4>3. LimitStop(sess) => Len(c.stops) \notin c.sent
        BY <1>3, <2>8, <3>2 DEF Sound, Core, OwnedStop
      <4> QED BY <1>3, <2>7, <2>8, <2>10, <3>2, <4>1, <4>2, <4>3, ClosedSound
    <3> QED BY <3>1, <3>2
  <2>12. Settle(b, usage) /\ Sound(b, sess', d)
    BY <1>0, <1>1, <1>5, <2>11 DEF b
  <2>13. sent' \in Seq(Sendings) /\ UNCHANGED world /\ dismissed' \in SUBSET Nat
    BY <1>0, <1>2, <2>5 DEF RestOK
  <2>14. d = Closing(Context(early, owned), dismissed', {sent'[k].stop : k \in DOMAIN sent'})
    BY <1>0 DEF d, c, gone
  <2>15. Sound(Here, sess, Context(early, owned))' /\ RestOK' /\ UNCHANGED <<stops, overrides, default>>
    BY <2>7, <2>12, <2>13, <2>14, ClosingStep
  <2>16. early => NeverEarly'
    BY <1>0 DEF ContinueInv, NeverEarly
  <2>17. ASSUME owned PROVE History'
    <3>1. PendingStop \subseteq DOMAIN stops
      BY <1>3, <2>9, <2>17 DEF Open
    <3>2. History
      BY <2>17 DEF ContinueInv
    <3> QED BY <1>0, <2>15, <3>1, <3>2
            DEF over, History, OneContinuePerStop, TakeoverIsFinal, ContinueOnlyForItsSession, OffMeansOff
  <2> QED BY <1>1, <2>15, <2>16, <2>17 DEF ContinueInv
<1> QED BY <1>4, <1>5

\* The footer's switch and the settings change what is on, and nothing is remembered
\* that the user typed over.
LEMMA ReconsideringStep ==
  ASSUME NEW early \in BOOLEAN, NEW owned \in BOOLEAN, ContinueInv(early, owned), Quiet, Reconsiders,
         UNCHANGED <<world, sent>>, NEW ov \in [Ids -> {"unset", "on", "off"}], NEW def \in BOOLEAN,
         NEW d \in Contexts, NEW b, Commit(b, ov, def, usage, sess),
         d = Reopening(Context(early, owned), {id \in Ids : EffectiveIn(ov, def, id)}),
         Sound(b, sess, AllOn(d)),
         <<ov, def>> = <<overrides, default>> /\ d.owned /\ b.pane # NoPane =>
           (b.pane.enabled => sess.id \in d.on)
  PROVE  ContinueInv(early, owned)'
<1> DEFINE on == {id \in Ids : EffectiveIn(ov, def, id)}
           gone == {sent[k].stop : k \in DOMAIN sent}
           none == {}
<1>0. RestOK /\ usage \in Usages /\ now \in Nat
  BY DEF ContinueInv, RestOK
<1>1. sess' = sess /\ SessionInv' /\ dismissed' = {} /\ sent' = sent
  BY QuietSteps DEF ContinueInv, Reconsiders
<1>2. d = [early |-> early, owned |-> owned, on |-> on, over |-> none, sent |-> gone, stops |-> stops]
  BY DEF Context, Reopening
<1>3. d.on = on /\ d.stops = stops /\ d.over = none
  <2> HIDE DEF on, gone, none
  <2> QED BY <1>2
<1>4. /\ Sound([pane |-> pane', timers |-> timers', store |-> store', stops |-> stops'], sess, d)
      /\ stops' = d.stops /\ overrides' = ov /\ default' = def
  BY <1>0, <1>3, CommitSound
<1>5. Here' = [pane |-> pane', timers |-> timers', store |-> store', stops |-> stops']
  BY DEF Here
<1>6. Context(early, owned)' = d
  <2>1. Context(early, owned)' = [early |-> early, owned |-> owned, on |-> on, over |-> none,
                                  sent |-> gone, stops |-> stops]
    BY <1>1, <1>3, <1>4 DEF Context, EffectiveIn
  <2> QED BY <1>2, <2>1
<1>7. Sound(Here, sess, Context(early, owned))'
  BY <1>1, <1>4, <1>5, <1>6
<1>8. RestOK'
  BY <1>0, <1>1, <1>4 DEF RestOK, world
<1>9. early => NeverEarly'
  BY <1>1 DEF ContinueInv, NeverEarly
<1>10. owned => History'
  BY <1>1, <1>3, <1>4
     DEF ContinueInv, History, OneContinuePerStop, TakeoverIsFinal, ContinueOnlyForItsSession, OffMeansOff
<1> QED BY <1>1, <1>7, <1>8, <1>9, <1>10 DEF ContinueInv

\* The context of new settings.
LEMMA Reconsidered ==
  ASSUME NEW early \in BOOLEAN, NEW owned \in BOOLEAN, ContinueInv(early, owned), NEW on \in SUBSET Ids
  PROVE  LET d == Reopening(Context(early, owned), on)
         IN  /\ d \in Contexts /\ d.on = on /\ d.over = {}
             /\ Sound(Here, sess, AllOn(d))
<1> DEFINE c == Context(early, owned)
           none == {}
           d == [c EXCEPT !.on = on, !.over = none]
<1>1. c \in Contexts /\ c.early = early /\ c.owned = owned /\ c.on \in SUBSET Ids /\ c.over \in SUBSET Nat
  BY ContextFields DEF Contexts
<1>2. Sound(Here, sess, c)
  BY DEF ContinueInv
<1>n. none \in SUBSET Nat /\ none = {}
  OBVIOUS
<1> HIDE DEF c, none
<1>3. d \in Contexts
  BY <1>1, <1>n DEF Contexts
<1>4. d.on = on /\ d.over = none /\ d.stops = c.stops /\ d.sent = c.sent
  BY <1>1 DEF Contexts
<1>5. d.early = c.early /\ d.owned = c.owned
  BY <1>1 DEF Contexts
<1> HIDE DEF d
<1>6. Sound(Here, sess, AllOn(d))
  <2> DEFINE a == AllOn(d)
  <2>1. /\ a \in Contexts /\ a.early = d.early /\ a.owned = d.owned /\ a.on = Ids /\ a.stops = d.stops
        /\ a.over = d.over /\ a.sent = d.sent
    BY <1>3, AllOnFields
  <2> HIDE DEF a
  <2>2. Here.pane # NoPane => sess.id \in a.on
    BY <1>2, <2>1 DEF Sound, Core, Kept, Fit
  <2>3. Sound(Here, sess, a)
    BY <1>1, <1>2, <1>4, <1>5, <1>n, <2>1, <2>2, Widen
  <2> QED BY <2>3 DEF a
<1> QED BY <1>3, <1>4, <1>6, <1>n DEF d, c, none, Reopening

\* The default is switched.
LEMMA SetDefaultKeeps ==
  ASSUME NEW early \in BOOLEAN, NEW owned \in BOOLEAN, ContinueInv(early, owned), SetDefault
  PROVE  ContinueInv(early, owned)'
<1> DEFINE def == ~default
           on == {id \in Ids : EffectiveIn(overrides, def, id)}
           d == Reopening(Context(early, owned), on)
<1>1. Quiet /\ Reconsiders /\ UNCHANGED <<world, sent>> /\ Commit(Here, overrides, def, usage, sess)
  BY DEF SetDefault
<1>2. overrides \in [Ids -> {"unset", "on", "off"}] /\ def \in BOOLEAN /\ def # default
  BY DEF ContinueInv, RestOK
<1>3. d \in Contexts /\ Sound(Here, sess, AllOn(d))
  <2>1. on \in SUBSET Ids
    OBVIOUS
  <2> HIDE DEF on
  <2> QED BY <2>1, Reconsidered
<1>4. <<overrides, def>> # <<overrides, default>>
  BY <1>2
<1> HIDE DEF def
<1>5. d = Reopening(Context(early, owned), {id \in Ids : EffectiveIn(overrides, def, id)})
  OBVIOUS
<1> HIDE DEF d
<1> QED BY <1>1, <1>2, <1>3, <1>4, <1>5, ReconsideringStep

\* The footer's switch: off, the pane holds nothing; on, a limit stop at which the
\* session rests becomes pending.
LEMMA ToggleKeeps ==
  ASSUME NEW early \in BOOLEAN, NEW owned \in BOOLEAN, ContinueInv(early, owned), Toggle
  PROVE  ContinueInv(early, owned)'
<1>0. Quiet /\ sess # NoSession /\ Reconsiders /\ UNCHANGED <<world, sent>>
  BY DEF Toggle
<1>1. /\ Sound(Here, sess, Context(early, owned)) /\ Here \in Blocks /\ RestOK
      /\ usage \in Usages /\ now \in Nat /\ default \in BOOLEAN
      /\ overrides \in [Ids -> {"unset", "on", "off"}]
  BY DEF ContinueInv, RestOK, Sound, Core
<1>c. ASSUME NEW id \in Ids, NEW choice \in BOOLEAN
      PROVE  /\ Chosen(id, choice) \in [Ids -> {"unset", "on", "off"}]
             /\ EffectiveIn(Chosen(id, choice), default, id) = choice
  BY <1>1, <1>c DEF Chosen, EffectiveIn
<1>2. CASE IF pane = NoPane THEN FALSE ELSE pane.enabled
  <2> DEFINE ov == IF sess.id = NoId THEN overrides ELSE Chosen(sess.id, FALSE)
             on == {id \in Ids : EffectiveIn(ov, default, id)}
             d == Reopening(Context(early, owned), on)
             b == Disable(Here)
  <2>1. Commit(b, ov, default, usage, sess) /\ pane # NoPane
    BY <1>2 DEF Toggle
  <2>2. ov \in [Ids -> {"unset", "on", "off"}]
    <3>1. sess.id \in Ids \cup {NoId}
      BY <1>0 DEF ContinueInv, SessionInv, SessionOK, Sessions
    <3> QED BY <1>1, <1>c, <3>1
  <2> HIDE DEF ov
  <2>3. d \in Contexts /\ Sound(Here, sess, AllOn(d)) /\ d.over = {}
    <3>1. on \in SUBSET Ids
      OBVIOUS
    <3> HIDE DEF on
    <3> QED BY <3>1, Reconsidered
  <2>5. d = Reopening(Context(early, owned), {id \in Ids : EffectiveIn(ov, default, id)})
    OBVIOUS
  <2> HIDE DEF d
  <2>6. Sound(b, sess, d) /\ b.pane # NoPane /\ ~b.pane.enabled
    BY <1>1, <2>1, <2>3, HereFields, DisableSound
  <2> HIDE DEF b
  <2>7. Sound(b, sess, AllOn(d))
    <3> DEFINE a == AllOn(d)
    <3>1. /\ a \in Contexts /\ a.early = d.early /\ a.owned = d.owned /\ a.stops = d.stops
          /\ a.over = d.over /\ a.sent = d.sent
      BY <2>3, AllOnFields
    <3> HIDE DEF a
    <3>2. Sound(b, sess, a)
      BY <2>3, <2>6, <3>1, Widen
    <3> QED BY <3>2 DEF a
  <2> QED BY <1>0, <1>1, <2>1, <2>2, <2>3, <2>5, <2>6, <2>7, ReconsideringStep
<1>3. CASE ~(IF pane = NoPane THEN FALSE ELSE pane.enabled)
  <2> DEFINE ov == Chosen(sess.id, TRUE)
             on == {id \in Ids : EffectiveIn(ov, default, id)}
             d == Reopening(Context(early, owned), on)
             p == IF pane = NoPane THEN NewPane ELSE pane
             q == [p EXCEPT !.key = sess.id, !.enabled = TRUE]
             k == [Here EXCEPT !.pane = q]
             b == IF LimitStop(sess) THEN Stopped(k, usage, sess) ELSE k
  <2>1. Commit(b, ov, default, usage, sess) /\ Eligible(sess)
    BY <1>3 DEF Toggle
  <2>i. sess.id \in Ids
    BY <1>0, <1>1, <2>1 DEF Sound, Core, Fit, Eligible
  <2>2. ov \in [Ids -> {"unset", "on", "off"}] /\ EffectiveIn(ov, default, sess.id)
    BY <1>c, <2>i
  <2> HIDE DEF ov
  <2>3. d \in Contexts /\ Sound(Here, sess, AllOn(d)) /\ d.over = {} /\ sess.id \in d.on
    <3>1. on \in SUBSET Ids /\ sess.id \in on
      BY <2>2, <2>i
    <3> HIDE DEF on
    <3> QED BY <3>1, Reconsidered
  <2>5. d = Reopening(Context(early, owned), {id \in Ids : EffectiveIn(ov, default, id)})
    OBVIOUS
  <2> DEFINE a == AllOn(d)
  <2> HIDE DEF d
  <2>6. /\ a \in Contexts /\ a.owned = d.owned /\ a.on = Ids /\ a.over = d.over /\ a.sent = d.sent
        /\ a.stops = d.stops
    BY <2>3, AllOnFields
  <2>s. Sound(Here, sess, a)
    BY <2>3
  <2> HIDE DEF a
  <2>7. Sound(k, sess, a)
    <3>1. p = IF Here.pane = NoPane THEN NewPane ELSE Here.pane
      BY HereFields
    <3> HIDE DEF p
    <3>2. [Here EXCEPT !.pane = q] = k
      OBVIOUS
    <3> QED BY <2>1, <2>6, <2>i, <2>s, <3>1, <3>2, EnableSound
  <2> HIDE DEF k
  <2>8. ASSUME LimitStop(sess) PROVE Sound(Stopped(k, usage, sess), sess, a)
    <3>1. a.owned => Len(a.stops) # 0 /\ a.stops[Len(a.stops)] = sess.id /\ Len(a.stops) \notin a.sent
      BY <2>8, <2>s DEF Sound, Core, OwnedStop
    <3>2. Len(a.stops) # 0 => Len(a.stops) \in DOMAIN a.stops
      <4>1. a.stops \in Seq(Ids)
        BY <2>6 DEF Contexts
      <4>2. Len(a.stops) \in Nat /\ DOMAIN a.stops = 1..Len(a.stops)
        BY <4>1
      <4> QED BY <4>2
    <3>3. Answerable(sess, a)
      BY <2>3, <2>6, <3>1, <3>2 DEF Answerable, Open
    <3> QED BY <1>1, <2>6, <2>7, <2>8, <3>3, StoppedSound
  <2>9. Sound(b, sess, AllOn(d))
    BY <2>7, <2>8 DEF a
  <2> HIDE DEF b
  <2> QED BY <1>0, <1>1, <2>1, <2>2, <2>3, <2>5, <2>9, ReconsideringStep
<1> QED BY <1>2, <1>3

\* A timer that only looks, or may no longer act.
LEMMA TimerIdles ==
  ASSUME NEW early \in BOOLEAN, NEW owned \in BOOLEAN, ContinueInv(early, owned), NEW tm \in timers,
         TimerChunk(tm) \/ TimerRefused(tm)
  PROVE  ContinueInv(early, owned)'
<1> DEFINE c == Context(early, owned)
<1>1. Sound(Here, sess, c) /\ now \in Nat
  BY DEF ContinueInv, RestOK
<1>2. c \in Contexts
  BY ContextFields
<1>3. Core(Without(tm), sess, c) /\ (~ArmedFor(tm.gen) => Sound(Without(tm), sess, c))
  BY <1>1, <1>2, WithoutSound
<1>4. Sound(Disarm(Without(tm)), sess, c)
  BY <1>2, <1>3, DisarmSound
<1>5. CASE TimerChunk(tm)
  <2> DEFINE again == [Without(tm) EXCEPT !.timers = @ \cup {[tm EXCEPT !.wake = MinOf(tm.at, now + Chunk)]}]
  <2>1. Sound(again, sess, c)
    BY <1>1, <1>2, ChunkSound
  <2>2. Quiet /\ Settle(IF ArmedFor(tm.gen) THEN again ELSE Without(tm), usage) /\ UNCHANGED <<world, history>>
    BY <1>5 DEF TimerChunk
  <2> HIDE DEF again
  <2>3. Sound(IF ArmedFor(tm.gen) THEN again ELSE Without(tm), sess, c)
    BY <1>3, <2>1
  <2> QED BY <2>2, <2>3, QuietStep
<1>6. CASE TimerRefused(tm)
  <2>1. Quiet /\ UNCHANGED <<world, history>>
    BY <1>6 DEF TimerRefused
  <2>2. \/ Settle(Disarm(Without(tm)), usage)
        \/ ~ArmedFor(tm.gen) /\ Settle(Without(tm), usage)
    BY <1>6 DEF TimerRefused
  <2> QED BY <1>3, <1>4, <2>1, <2>2, QuietStep
<1> QED BY <1>5, <1>6

\* A timer whose arm may fire belongs to the pane's own arm.
LEMMA MayFireFields ==
  ASSUME NEW early \in BOOLEAN, NEW owned \in BOOLEAN, ContinueInv(early, owned), NEW tm \in timers, MayFire(tm)
  PROVE  /\ pane # NoPane /\ pane \in Panes /\ pane.enabled /\ pane.gen \in Nat /\ pane.armed \in Arms
         /\ pane.armed # NoArm /\ pane.armed.gen = pane.gen /\ tm.gen = pane.gen
         /\ Core(Without(tm), sess, Context(early, owned)) /\ Without(tm).pane = pane
         /\ sess # NoSession /\ sess.id = pane.armed.id /\ sess.id \in Ids /\ sess.rich
<1> DEFINE c == Context(early, owned)
<1>1. Sound(Here, sess, c) /\ Here \in Blocks /\ Kept(Here, sess) /\ Fit(sess)
  BY DEF ContinueInv, Sound, Core
<1>2. c \in Contexts
  BY ContextFields
<1>3. Core(Without(tm), sess, c) /\ Without(tm).pane = pane
  BY <1>1, <1>2, WithoutSound
<1>4. pane # NoPane /\ pane.armed # NoArm /\ pane.enabled /\ pane.armed.gen = tm.gen
      /\ sess # NoSession /\ sess.id = pane.armed.id
  BY DEF MayFire, ArmedFor, SessionMatches, Eligible
<1>5. pane \in Panes /\ pane.armed.gen = pane.gen /\ sess.rich /\ sess.id \in Ids
  BY <1>1, <1>4, HereFields DEF Blocks, Kept, Fit
<1>6. pane.gen \in Nat /\ pane.armed \in Arms
  BY <1>4, <1>5 DEF Panes
<1> QED BY <1>3, <1>4, <1>5, <1>6

\* A timer that tries again later moves its arm, and gives up after the last attempt.
LEMMA TimerRetries ==
  ASSUME NEW early \in BOOLEAN, NEW owned \in BOOLEAN, ContinueInv(early, owned), NEW tm \in timers,
         TimerFails(tm) \/ TimerRearms(tm)
  PROVE  ContinueInv(early, owned)'
<1> DEFINE c == Context(early, owned)
           b == Without(tm)
<1>1. MayFire(tm)
  BY DEF TimerFails, TimerRearms
<1>2. /\ pane # NoPane /\ pane.enabled /\ pane.gen \in Nat /\ pane.armed \in Arms /\ pane.armed # NoArm
      /\ Core(b, sess, c) /\ b.pane = pane
  BY <1>1, MayFireFields
<1>3. c \in Contexts /\ now \in Nat /\ usage \in Usages
  BY ContextFields DEF ContinueInv, RestOK
<1> HIDE DEF c, b
<1>4. ASSUME NEW arm \in Arms, arm.gen = pane.gen + 1, arm.id = pane.armed.id, arm.stop = pane.armed.stop
      PROVE  Sound(Arm(b, arm), sess, c)
  <2>1. c.owned => arm.id = sess.id /\ arm.stop \in Open(c, sess.id)
    BY <1>2, <1>4 DEF Core, OwnedPane
  <2> QED BY <1>2, <1>3, <1>4, <2>1, ArmSound
<1>5. CASE TimerFails(tm)
  <2> DEFINE next == [pane.armed EXCEPT !.tries = @ + 1, !.gen = pane.gen + 1, !.at = now + Retry]
             r == IF pane.armed.tries >= MaxAttempts THEN Fired(b) ELSE Arm(b, next)
  <2>1. Quiet /\ UNCHANGED <<world, history>> /\ Settle(r, usage)
    BY <1>5 DEF TimerFails, Fired, b
  <2>2. /\ next \in Arms /\ next.gen = pane.gen + 1 /\ next.id = pane.armed.id
        /\ next.stop = pane.armed.stop
    <3>1. pane.gen + 1 \in Nat /\ now + Retry \in Nat /\ pane.armed.tries \in Nat /\ pane.armed.tries + 1 \in Nat
      BY <1>2, <1>3 DEF Retry, Arms
    <3> QED BY <1>2, <3>1 DEF Arms
  <2> HIDE DEF next
  <2>3. Sound(Arm(b, next), sess, c)
    BY <1>4, <2>2
  <2>4. Sound(Fired(b), sess, c)
    BY <1>2, <1>3, FiredSound
  <2>5. Sound(r, sess, c)
    BY <2>3, <2>4
  <2> HIDE DEF r
  <2> QED BY <2>1, <2>5, QuietStep DEF c
<1>6. CASE TimerRearms(tm)
  <2> DEFINE at == IF usage.kind = "full" THEN usage.reset + Slack ELSE now + Retry
             next == [pane.armed EXCEPT !.gen = pane.gen + 1, !.at = at]
  <2>1. Quiet /\ UNCHANGED <<world, history>> /\ Settle(Arm(b, next), usage)
    BY <1>6 DEF TimerRearms, b
  <2>a. at \in Nat
    <3>1. CASE usage.kind = "full"
      <4>1. usage \in [kind : {"near", "full"}, reset : Resets]
        BY <1>3, <3>1 DEF Usages
      <4>2. usage.reset \in Nat
        BY <4>1, SessionAssumption
      <4> QED BY <3>1, <4>2 DEF Slack
    <3>2. CASE usage.kind # "full"
      BY <1>3, <3>2 DEF Retry
    <3> QED BY <3>1, <3>2
  <2> HIDE DEF at
  <2>2. /\ next \in Arms /\ next.gen = pane.gen + 1 /\ next.id = pane.armed.id
        /\ next.stop = pane.armed.stop
    <3>1. pane.gen + 1 \in Nat
      BY <1>2
    <3> QED BY <1>2, <2>a, <3>1 DEF Arms
  <2> HIDE DEF next
  <2>3. Sound(Arm(b, next), sess, c)
    BY <1>4, <2>2
  <2> QED BY <2>1, <2>3, QuietStep DEF c
<1> QED BY <1>5, <1>6

\* A Continue is added to the history.
LEMMA HistoryGrows ==
  ASSUME History, sent \in Seq(Sendings), NEW x \in Sendings, sent' = Append(sent, x),
         UNCHANGED <<dismissed, stops>>, x.stop \in DOMAIN stops, x.stop \notin {sent[k].stop : k \in DOMAIN sent},
         stops[x.stop] = x.into, ~x.dismissed, x.wanted
  PROVE  History'
<1> DEFINE n == Len(sent) + 1
<1>1. /\ DOMAIN sent' = DOMAIN sent \cup {n} /\ n \notin DOMAIN sent /\ sent'[n] = x
      /\ \A k \in DOMAIN sent : sent'[k] = sent[k]
  <2>1. Len(sent) \in Nat /\ DOMAIN sent = 1..Len(sent) /\ Len(sent') = n
        /\ DOMAIN sent' = 1..n
    OBVIOUS
  <2>2. sent'[n] = x /\ \A k \in 1..Len(sent) : sent'[k] = sent[k]
    BY <2>1
  <2> QED BY <2>1, <2>2
<1> HIDE DEF n
<1>2. (dismissed \cup {sent[k].stop : k \in DOMAIN sent} \subseteq DOMAIN stops)'
  BY <1>1 DEF History
<1>3. OneContinuePerStop'
  <2> SUFFICES ASSUME NEW k \in DOMAIN sent', NEW l \in DOMAIN sent', sent'[k].stop = sent'[l].stop
               PROVE  k = l
    BY DEF OneContinuePerStop
  <2>1. \A m \in DOMAIN sent : sent[m].stop # x.stop
    OBVIOUS
  <2> QED BY <1>1, <2>1 DEF History, OneContinuePerStop
<1>4. TakeoverIsFinal' /\ OffMeansOff'
  BY <1>1 DEF History, TakeoverIsFinal, OffMeansOff
<1>5. ContinueOnlyForItsSession'
  BY <1>1 DEF History, ContinueOnlyForItsSession
<1> QED BY <1>2, <1>3, <1>4, <1>5 DEF History

\* The arm fires: Continue is typed, and its stop can not be answered again.
LEMMA TimerSendsKeeps ==
  ASSUME NEW early \in BOOLEAN, NEW owned \in BOOLEAN, ContinueInv(early, owned), NEW tm \in timers,
         TimerSends(tm)
  PROVE  ContinueInv(early, owned)'
<1> DEFINE c == Context(early, owned)
           b == Fired(Without(tm))
           n == pane.armed.stop
           x == [stop |-> pane.armed.stop, into |-> sess.id, at |-> now, due |-> pane.armed.at,
                 dismissed |-> pane.armed.stop \in dismissed,
                 wanted |-> EffectiveIn(overrides, default, sess.id)]
           gone == {sent'[k].stop : k \in DOMAIN sent'}
           d == Closing(c, dismissed', gone)
<1>0. /\ MayFire(tm) /\ ClinchSubmit /\ UNCHANGED <<world, dismissed>>
      /\ Settle(Reactions(b, usage, sess', emitted'), usage) /\ sent' = Append(sent, x)
  BY DEF TimerSends
<1>1. /\ pane # NoPane /\ pane \in Panes /\ pane.enabled /\ pane.gen \in Nat /\ pane.armed \in Arms
      /\ pane.armed # NoArm /\ pane.armed.gen = pane.gen /\ tm.gen = pane.gen
      /\ Core(Without(tm), sess, c) /\ Without(tm).pane = pane
      /\ sess # NoSession /\ sess.id = pane.armed.id /\ sess.id \in Ids /\ sess.rich
  BY <1>0, MayFireFields
<1>2. /\ c \in Contexts /\ c.early = early /\ c.owned = owned /\ c.stops = stops /\ c.over = dismissed
      /\ c.sent = {sent[k].stop : k \in DOMAIN sent} /\ After(c, stops) = c /\ c.on \in SUBSET Ids
      /\ c.on = {id \in Ids : EffectiveIn(overrides, default, id)}
  BY ContextFields DEF Contexts
<1>3. Sound(Here, sess, c) /\ RestOK /\ now \in Nat /\ default \in BOOLEAN /\ sent \in Seq(Sendings)
      /\ dismissed \in SUBSET Nat /\ usage \in Usages
  BY DEF ContinueInv, RestOK
<1>4. SessionInv' /\ SessionMove
  BY <1>0, SessionSteps DEF ContinueInv, SessionNext, SessionStep
<1>5. /\ sess' \in Sessions /\ sess'.id = sess.id /\ sess'.status = "working" /\ emitted' = <<"status">>
      /\ sess' # NoSession /\ ~LimitStop(sess')
  <2>1. sess \in Sessions /\ sess' = Submitted(sess) /\ emitted' = <<"status">>
    BY <1>0, <1>1 DEF ContinueInv, SessionInv, SessionTypeOK, ClinchSubmit
  <2>2. sess' \in Sessions \cup {NoSession}
    BY <1>4 DEF SessionInv, SessionTypeOK
  <2>3. sess'.id = sess.id /\ sess'.status = "working"
    BY <2>1 DEF Submitted, Sessions
  <2>4. sess' \in Sessions
    <3>1. NoStop \in Stops
      BY DEF NoStop, Stops
    <3> QED BY <2>1, <3>1 DEF Submitted, Sessions, Statuses
  <2> QED BY <2>1, <2>3, <2>4, SessionAssumption DEF LimitStop
<1>a. pane.armed.at \in Nat /\ n \in Nat
  BY <1>1 DEF Arms
<1>o. ASSUME owned
      PROVE  n \in Open(c, sess.id) /\ pane.key = sess.id /\ sess.id \in c.on
  BY <1>1, <1>2, <1>o DEF Core, OwnedPane
<1>x. x \in Sendings /\ x.stop = n /\ x.into = sess.id
  <2> DEFINE over == n \in dismissed
             on == EffectiveIn(overrides, default, sess.id)
  <2>1. over \in BOOLEAN /\ on \in BOOLEAN
    <3>1. on = default \/ on = (overrides[sess.id] = "on")
      BY DEF EffectiveIn
    <3>2. (overrides[sess.id] = "on") \in BOOLEAN /\ default \in BOOLEAN /\ over \in BOOLEAN
      BY <1>3
    <3> HIDE DEF on, over
    <3> QED BY <3>1, <3>2
  <2>2. x = [stop |-> n, into |-> sess.id, at |-> now, due |-> pane.armed.at, dismissed |-> over,
             wanted |-> on]
    OBVIOUS
  <2> HIDE DEF over, on, x, n
  <2> QED BY <1>1, <1>3, <1>a, <2>1, <2>2 DEF Sendings
<1>y. x.at = now /\ x.due = pane.armed.at /\ x.dismissed = (n \in dismissed)
      /\ x.wanted = EffectiveIn(overrides, default, sess.id)
  OBVIOUS
<1> HIDE DEF x
<1>s. sent' \in Seq(Sendings) /\ gone \in SUBSET Nat /\ gone \subseteq c.sent \cup {n}
  <2>1. sent' \in Seq(Sendings)
    BY <1>0, <1>3, <1>x
  <2>2. \A k \in DOMAIN sent' : sent'[k] \in Sendings
    BY <2>1
  <2>3. \A k \in DOMAIN sent' : sent'[k].stop \in Nat
    BY <2>2 DEF Sendings
  <2>4. \A k \in DOMAIN sent' : sent'[k] = x \/ (k \in DOMAIN sent /\ sent'[k] = sent[k])
    BY <1>0, <1>3, <1>x
  <2>5. \A k \in DOMAIN sent' : sent'[k].stop = n \/ (k \in DOMAIN sent /\ sent'[k].stop = sent[k].stop)
    BY <2>4, <1>x
  <2> HIDE DEF c, n
  <2> QED BY <1>2, <2>1, <2>3, <2>5
<1> HIDE DEF gone, c
<1>d. /\ d \in Contexts /\ d.early = c.early /\ d.owned = c.owned /\ d.stops = c.stops /\ d.on = c.on
      /\ d.over = c.over /\ d.sent = gone
  <2>1. d = [c EXCEPT !.sent = gone]
    BY <1>0, <1>2 DEF Closing, Contexts
  <2>2. d \in Contexts
    BY <1>2, <1>s, <2>1 DEF Contexts
  <2>3. d.early = c.early /\ d.owned = c.owned
    BY <1>2, <2>1 DEF Contexts
  <2>4. d.stops = c.stops /\ d.on = c.on /\ d.over = c.over /\ d.sent = gone
    BY <1>2, <2>1 DEF Contexts
  <2> QED BY <2>2, <2>3, <2>4
<1> HIDE DEF d
<1>6. /\ Sound(b, sess, c) /\ b \in Blocks /\ b.stops = stops
      /\ owned => b.store[sess.id] = NoTime
      /\ b.pane # NoPane => b.pane.armed = NoArm
  <2>1. Sound(b, sess, c)
    BY <1>1, <1>2, FiredSound
  <2>2. Without(tm) \in Blocks
    BY <1>1 DEF Core
  <2>3. /\ b.pane.armed = NoArm
        /\ pane.key \in Ids => b.store = [Without(tm).store EXCEPT ![pane.key] = NoTime]
    BY <1>1, <2>2, FiredFields
  <2>4. Without(tm).store \in [Ids -> Saved \cup {NoTime}]
    BY <2>2 DEF Blocks
  <2> HIDE DEF b
  <2>5. owned => b.store[sess.id] = NoTime
    BY <1>1, <1>o, <2>3, <2>4
  <2> QED BY <1>2, <2>1, <2>3, <2>5 DEF Sound, Core
<1> HIDE DEF b
\* Nothing is counted: the session works.
<1>7. Sound(b, sess', c) /\ Counted(b, sess', emitted') = b
  <2>1. Counted(b, sess', emitted') = b
    BY <1>5 DEF Counted
  <2>2. c.owned => c.over \cup c.sent \subseteq DOMAIN c.stops
    BY <1>2 DEF ContinueInv, History
  <2>3. Sound(Counted(b, sess', emitted'), sess', After(c, Counted(b, sess', emitted').stops))
    BY <1>2, <1>4, <1>5, <1>6, <2>2, CountedSound
  <2> QED BY <1>2, <1>6, <2>1, <2>3
<1>8. Reactions(b, usage, sess', emitted') = Disarm(b)
  <2>1. Reactions(b, usage, sess', emitted') = React(b, usage, sess', "status")
    <3>1. emitted' \in Seq(EventNames) /\ Len(emitted') = 1 /\ emitted'[1] = "status" /\ Len(emitted') <= 5
      BY <1>4, <1>5 DEF SessionInv, SessionTypeOK
    <3>2. Reactions(b, usage, sess', emitted') = React(Counted(b, sess', emitted'), usage, sess', emitted'[1])
      BY <3>1, ReactionsFew
    <3> QED BY <1>7, <3>1, <3>2
  <2> QED BY <1>5, <2>1 DEF React
<1>9. Sound(Disarm(b), sess', d)
  <2>1. Sound(Disarm(b), sess', c)
    BY <1>2, <1>7, DisarmSound DEF Sound
  <2>2. CASE ~owned
    <3>1. ~d.owned /\ ~c.owned
      BY <1>2, <1>d, <2>2
    <3> QED BY <1>d, <2>1, <3>1 DEF Sound, Core
  <2>3. CASE owned
    <3>1. /\ b.pane # NoPane => Disarm(b).pane.armed = NoArm /\ Disarm(b).pane.pending = 0
          /\ Disarm(b).store[sess.id] = NoTime
      <4>1. CASE b.pane = NoPane
        BY <1>6, <2>3, <4>1 DEF Disarm
      <4>2. CASE b.pane # NoPane
        <5>1. /\ Disarm(b).pane.armed = NoArm /\ Disarm(b).pane.pending = 0
              /\ \/ Disarm(b).store = b.store
                 \/ b.pane.key \in Ids /\ Disarm(b).store = [b.store EXCEPT ![b.pane.key] = NoTime]
          BY <1>6, <4>2, DisarmFields
        <5>2. b.store \in [Ids -> Saved \cup {NoTime}]
          BY <1>6 DEF Blocks
        <5> QED BY <1>1, <1>6, <2>3, <5>1, <5>2
      <4> QED BY <4>1, <4>2
    <3>2. b.pane = NoPane => Disarm(b).pane = NoPane
      BY DEF Disarm
    <3>3. n \in Open(c, sess'.id) /\ Disarm(b).store[sess'.id] = NoTime
      BY <1>5, <1>o, <2>3, <3>1
    <3>4. d.over \cup d.sent \subseteq c.over \cup c.sent \cup {n}
      BY <1>d, <1>s
    <3> QED BY <1>2, <1>5, <1>d, <2>1, <3>1, <3>2, <3>3, <3>4, ClosedSound
  <2> QED BY <2>2, <2>3
<1>10. Sound(Here, sess, Context(early, owned))' /\ RestOK' /\ UNCHANGED <<stops, overrides, default>>
  <2>1. Settle(Disarm(b), usage)
    BY <1>0, <1>8 DEF b
  <2>2. d = Closing(Context(early, owned), dismissed', {sent'[k].stop : k \in DOMAIN sent'})
    BY DEF d, c, gone
  <2>3. dismissed' \in SUBSET Nat /\ UNCHANGED world
    BY <1>0, <1>3
  <2> QED BY <1>9, <1>d, <1>s, <2>1, <2>2, <2>3, ClosingStep
<1>11. ASSUME early PROVE NeverEarly'
  <2>1. Early(Here) /\ Here.pane # NoPane /\ Here.timers = timers
    BY <1>1, <1>2, <1>3, <1>11, HereFields DEF Sound, Core
  <2>2. pane.armed.at <= tm.at
    BY <1>1, <2>1, HereFields DEF Early
  <2>3. tm.at <= now /\ tm.at \in Nat
    <3>1. tm \in TimerRecords
      BY <1>3, HereFields DEF Sound, Core, Blocks
    <3> QED BY <1>0, <3>1 DEF MayFire, Due, TimerRecords
  <2>4. x.at >= x.due
    BY <1>3, <1>a, <1>y, <2>2, <2>3
  <2>5. \A k \in DOMAIN sent' : sent'[k] = x \/ (k \in DOMAIN sent /\ sent'[k] = sent[k])
    BY <1>0, <1>3, <1>x
  <2>6. NeverEarly
    BY <1>11 DEF ContinueInv
  <2> QED BY <2>4, <2>5, <2>6 DEF NeverEarly
<1>12. ASSUME owned PROVE History'
  <2>1. n \in DOMAIN stops /\ stops[n] = sess.id /\ n \notin dismissed
        /\ n \notin {sent[k].stop : k \in DOMAIN sent}
    BY <1>2, <1>o, <1>12 DEF Open
  <2>2. EffectiveIn(overrides, default, sess.id)
    BY <1>2, <1>o, <1>12
  <2>3. x.stop \in DOMAIN stops /\ stops[x.stop] = x.into /\ ~x.dismissed /\ x.wanted
        /\ x.stop \notin {sent[k].stop : k \in DOMAIN sent}
    BY <1>x, <1>y, <2>1, <2>2
  <2>4. History
    BY <1>12 DEF ContinueInv
  <2> QED BY <1>0, <1>3, <1>10, <1>x, <2>3, <2>4, HistoryGrows
<1> QED BY <1>4, <1>10, <1>11, <1>12 DEF ContinueInv

\* The world around the pane.
LEMMA WorldKeeps ==
  ASSUME NEW early \in BOOLEAN, NEW owned \in BOOLEAN, ContinueInv(early, owned), WritableChanges \/ Clock
  PROVE  ContinueInv(early, owned)'
<1>0. RestOK
  BY DEF ContinueInv
<1>1. /\ Quiet /\ UNCHANGED <<pane, timers, settings, usage, restarts, stops, history>>
      /\ now' \in Nat /\ writable' \in BOOLEAN
  <2>1. CASE WritableChanges
    <3>1. now' = now /\ writable' = ~writable
      BY <2>1 DEF WritableChanges
    <3>2. (~writable) \in BOOLEAN
      OBVIOUS
    <3>3. now' \in Nat /\ writable' \in BOOLEAN
      BY <1>0, <3>1, <3>2 DEF RestOK
    <3> QED BY <2>1, <3>3 DEF WritableChanges
  <2>2. CASE Clock
    <3>1. now' \in Nat /\ writable' \in BOOLEAN
      BY <1>0, <2>2 DEF Clock, RestOK
    <3> QED BY <2>2, <3>1 DEF Clock
  <2> QED BY <2>1, <2>2
<1>2. SessionInv' /\ sess' = sess
  BY <1>1, QuietSteps DEF ContinueInv
<1>3. Here' = Here /\ Context(early, owned)' = Context(early, owned)
  BY <1>1 DEF Here, Context, EffectiveIn, settings, history
<1>4. Sound(Here, sess, Context(early, owned))'
  BY <1>2, <1>3 DEF ContinueInv
<1>5. RestOK'
  BY <1>0, <1>1 DEF RestOK, settings, history
<1>6. early => NeverEarly'
  BY <1>1 DEF ContinueInv, NeverEarly, history
<1>7. owned => History'
  BY <1>1, HistoryStays DEF ContinueInv, history
<1> QED BY <1>2, <1>4, <1>5, <1>6, <1>7 DEF ContinueInv

\* A restart leaves the persisted arms, and no pane and no timer.
LEMMA RestartKeeps ==
  ASSUME NEW early \in BOOLEAN, NEW owned \in BOOLEAN, ContinueInv(early, owned), Restart
  PROVE  ContinueInv(early, owned)'
<1> DEFINE c == Context(early, owned)
           b == [Here EXCEPT !.timers = {}]
<1>0. /\ RestOK /\ sess' = NoSession /\ pane' = NoPane /\ timers' = {}
      /\ UNCHANGED <<settings, writable, now, stops, history>> /\ restarts' \in Nat
  BY DEF ContinueInv, RestOK, Restart
<1>1. usage' \in Usages
  BY DEF Restart, Usages
<1>2. SessionInv'
  <2>1. NoTitles \in Titles /\ <<>> \in Seq(EventNames) /\ "none" \in Guesses
    BY SessionAssumption DEF NoTitles, Titles, Guesses
  <2> QED BY <2>1 DEF Restart, ContinueInv, SessionInv, SessionTypeOK
<1>3. c \in Contexts /\ Sound(Here, sess, c)
  BY ContextFields DEF ContinueInv
<1> HIDE DEF c
<1>4. Core(b, sess, c) /\ b.timers = {}
  <2>1. {} \in SUBSET TimerRecords
    OBVIOUS
  <2> QED BY <1>3, <2>1, TimersCore DEF Sound
<1>5. Sound([b EXCEPT !.pane = NoPane], NoSession, c)
  <2> HIDE DEF b
  <2> QED BY <1>3, <1>4, EndedSound
<1>6. Here' = [b EXCEPT !.pane = NoPane]
  <2>1. Here' = [pane |-> NoPane, timers |-> {}, store |-> store, stops |-> stops]
    BY <1>0 DEF Here, settings
  <2>2. b = [pane |-> pane, timers |-> {}, store |-> store, stops |-> stops]
    BY DEF Here
  <2>3. [b EXCEPT !.pane = NoPane] = [pane |-> NoPane, timers |-> {}, store |-> store, stops |-> stops]
    <3> HIDE DEF b
    <3> QED BY <2>2
  <2> QED BY <2>1, <2>3
<1>7. Context(early, owned)' = c
  BY <1>0 DEF c, Context, EffectiveIn, settings, history
<1>8. Sound(Here, sess, Context(early, owned))'
  BY <1>0, <1>5, <1>6, <1>7
<1>9. RestOK'
  BY <1>0, <1>1 DEF RestOK, settings, history
<1>10. early => NeverEarly'
  BY <1>0 DEF ContinueInv, NeverEarly, history
<1>11. owned => History'
  BY <1>0, HistoryStays DEF ContinueInv, history
<1> QED BY <1>2, <1>8, <1>9, <1>10, <1>11 DEF ContinueInv

-----------------------------------------------------------------------------
(* Theorems *)

\* The initial states.
LEMMA InitHolds ==
  ASSUME NEW early \in BOOLEAN, NEW owned \in BOOLEAN, Init
  PROVE  ContinueInv(early, owned)
<1>1. SessionInv
  <2>1. NoTitles \in Titles /\ <<>> \in Seq(EventNames) /\ "none" \in Guesses
    BY SessionAssumption DEF NoTitles, Titles, Guesses
  <2> QED BY <2>1, SessionAssumption DEF Init, SessionInit, SessionInv, SessionTypeOK
<1>2. RestOK
  <2>1. [kind |-> "none", reset |-> 0] \in Usages
    BY DEF Usages
  <2> QED BY <2>1 DEF Init, RestOK
<1>3. Here \in Blocks
  BY DEF Init, Here, Blocks
<1>4. /\ pane = NoPane /\ timers = {} /\ sess = NoSession /\ stops = <<>> /\ sent = <<>> /\ dismissed = {}
      /\ \A id \in Ids : store[id] = NoTime
  BY DEF Init, SessionInit
<1>5. Sound(Here, sess, Context(early, owned))
  <2> DEFINE c == Context(early, owned)
  <2>1. c.stops = stops
    BY DEF Context
  <2> HIDE DEF c
  <2>2. Fit(sess) /\ Kept(Here, sess) /\ Early(Here) /\ HasTimer(Here)
    BY <1>4, HereFields DEF Fit, Kept, Early, HasTimer
  <2>3. OwnedPane(Here, sess, c) /\ OwnedStore(Here, c) /\ OwnedStop(Here, sess, c)
    BY <1>4, HereFields DEF OwnedPane, OwnedStore, OwnedStop, LimitStop
  <2> QED BY <1>3, <2>1, <2>2, <2>3, HereFields DEF Sound, Core, c
<1>6. DOMAIN sent = {}
  BY <1>4
<1>7. NeverEarly /\ History
  BY <1>4, <1>6
     DEF NeverEarly, History, OneContinuePerStop, TakeoverIsFinal, ContinueOnlyForItsSession, OffMeansOff
<1> QED BY <1>1, <1>2, <1>5, <1>7 DEF ContinueInv

\* Every step.  early and owned: the parts of the invariant that need a hypothesis.
LEMMA NextKeeps ==
  ASSUME NEW early \in BOOLEAN, NEW owned \in BOOLEAN, ContinueInv(early, owned), [Next]_vars,
         owned => [RenamesAtRest]_vars, early => TimersEndWithPane'
  PROVE  ContinueInv(early, owned)'
<1>1. CASE UNCHANGED vars
  <2>1. /\ UNCHANGED <<provider, sess, titles, settling, idles, rollout, emitted, guess>>
        /\ UNCHANGED <<pane, timers, store, overrides, default, usage, writable, now, restarts>>
        /\ UNCHANGED <<stops, dismissed, sent>>
    BY <1>1 DEF vars, sessionVars, settings, world
  <2>2. SessionInv' /\ RestOK'
    BY <2>1 DEF ContinueInv, SessionInv, SessionTypeOK, SessionOK, RestOK
  <2>3. Here' = Here /\ Context(early, owned)' = Context(early, owned)
    BY <2>1 DEF Here, Context, EffectiveIn
  <2>4. Sound(Here, sess, Context(early, owned))'
    BY <2>1, <2>3 DEF ContinueInv
  <2>5. (early => NeverEarly') /\ (owned => History')
    BY <2>1, HistoryStays DEF ContinueInv, NeverEarly
  <2> QED BY <2>2, <2>4, <2>5 DEF ContinueInv
<1>2. CASE Next /\ vars' # vars
  <2>1. owned => RenamesAtRest
    BY <1>2
  <2>2. CASE SessionActs
    BY <2>1, <2>2, SessionActsKeep
  <2>3. CASE \E u \in Usages : UsageScan(u)
    BY <2>3, UsageScanKeeps
  <2>4. CASE UserInput
    BY <2>4, UserInputKeeps
  <2>5. CASE Toggle
    BY <2>5, ToggleKeeps
  <2>6. CASE SetDefault
    BY <2>6, SetDefaultKeeps
  <2>7. CASE \E tm \in timers : TimerStep(tm)
    <3>1. PICK tm \in timers : TimerStep(tm)
      BY <2>7
    <3>2. CASE TimerChunk(tm) \/ TimerRefused(tm)
      BY <3>2, TimerIdles
    <3>3. CASE TimerFails(tm) \/ TimerRearms(tm)
      BY <3>3, TimerRetries
    <3>4. CASE TimerSends(tm)
      BY <3>4, TimerSendsKeeps
    <3> QED BY <3>1, <3>2, <3>3, <3>4 DEF TimerStep
  <2>8. CASE WritableChanges \/ Clock
    BY <2>8, WorldKeeps
  <2>9. CASE Restart
    BY <2>9, RestartKeeps
  <2> QED BY <1>2, <2>2, <2>3, <2>4, <2>5, <2>6, <2>7, <2>8, <2>9 DEF Next
<1> QED BY <1>1, <1>2

\* What the invariant says in any case.
LEMMA InvTypes ==
  ASSUME NEW early \in BOOLEAN, NEW owned \in BOOLEAN, ContinueInv(early, owned)
  PROVE  TypeOK /\ ArmHasTimer
<1>1. Here \in Blocks /\ HasTimer(Here)
  BY DEF ContinueInv, Sound, Core
<1>2. pane \in Panes \cup {NoPane} /\ timers \in SUBSET TimerRecords
      /\ store \in [Ids -> Saved \cup {NoTime}] /\ stops \in Seq(Ids)
  BY <1>1, HereFields DEF Blocks
<1>3. TypeOK
  BY <1>2 DEF ContinueInv, SessionInv, RestOK, TypeOK
<1>4. ArmHasTimer
  BY <1>1, HereFields DEF HasTimer, ArmHasTimer, Pending
<1> QED BY <1>3, <1>4

\* ... and when no session is renamed under a pane that waits for something.
LEMMA InvArms ==
  ASSUME ContinueInv(FALSE, TRUE)
  PROVE  ArmIsPersisted
<1> SUFFICES ASSUME Pending, pane.armed # NoArm, pane.key = pane.armed.id
             PROVE  store[pane.key] # NoTime /\ store[pane.key].stop = pane.armed.stop
  BY DEF ArmIsPersisted
<1> DEFINE c == Context(FALSE, TRUE)
<1>1. pane # NoPane
  BY DEF Pending
<1>2. c.owned
  BY DEF Context
<1>3. OwnedPane(Here, sess, c)
  BY <1>2 DEF ContinueInv, Sound, Core
<1> HIDE DEF c
<1> QED BY <1>1, <1>3, HereFields DEF OwnedPane

\* All that is proved of every behaviour.
LEMMA ContinueInvariant == Spec => [](TypeOK /\ ArmHasTimer)
<1>0. FALSE \in BOOLEAN
  OBVIOUS
<1>1. Init => ContinueInv(FALSE, FALSE)
  BY InitHolds
<1>2. ContinueInv(FALSE, FALSE) /\ [Next]_vars => ContinueInv(FALSE, FALSE)'
  BY NextKeeps
<1>3. ContinueInv(FALSE, FALSE) => TypeOK /\ ArmHasTimer
  BY InvTypes
<1> QED BY <1>1, <1>2, <1>3, PTL DEF Spec

\* ... and of those in which no session is renamed under a pane that waits for something.
LEMMA OwnedInvariant ==
  Spec /\ [][RenamesAtRest]_vars =>
    [](/\ ArmIsPersisted /\ OneContinuePerStop /\ TakeoverIsFinal
       /\ ContinueOnlyForItsSession /\ OffMeansOff)
<1>1. Init => ContinueInv(FALSE, TRUE)
  BY InitHolds
<1>2. ContinueInv(FALSE, TRUE) /\ [Next]_vars /\ [RenamesAtRest]_vars => ContinueInv(FALSE, TRUE)'
  BY NextKeeps
<1>3. ContinueInv(FALSE, TRUE) =>
        /\ ArmIsPersisted /\ OneContinuePerStop /\ TakeoverIsFinal
        /\ ContinueOnlyForItsSession /\ OffMeansOff
  BY InvArms DEF ContinueInv, History
<1> QED BY <1>1, <1>2, <1>3, PTL DEF Spec

\* The invariant of the behaviours in which a pane's state begins without timers:
\* after a session has ended its timers may stay, until the next one opens.
EarlyInv == ContinueInv(FALSE, FALSE) /\ NeverEarly /\ (TimersEndWithPane => Early(Here))

\* The part of the invariant about time.
LEMMA EarlyPart ==
  ContinueInv(TRUE, FALSE) <=> ContinueInv(FALSE, FALSE) /\ NeverEarly /\ Early(Here)
<1> DEFINE c == Context(TRUE, FALSE)
           d == Context(FALSE, FALSE)
<1>1. c.early /\ ~d.early /\ ~c.owned /\ ~d.owned /\ c.stops = stops /\ d.stops = stops
  BY DEF Context
<1> HIDE DEF c, d
<1>2. Core(Here, sess, c) <=> Core(Here, sess, d) /\ Early(Here)
  BY <1>1 DEF Core
<1>3. Sound(Here, sess, c) <=> Sound(Here, sess, d) /\ Early(Here)
  BY <1>2 DEF Sound
<1> QED BY <1>3 DEF ContinueInv, c, d

LEMMA InitEarly == Init => EarlyInv
<1> SUFFICES ASSUME Init PROVE EarlyInv
  OBVIOUS
<1>1. ContinueInv(TRUE, FALSE)
  BY InitHolds
<1> QED BY <1>1, EarlyPart DEF EarlyInv

\* Only a timer that fires types.
LEMMA OthersTypeNothing ==
  ASSUME [Next]_vars PROVE sent' = sent \/ \E tm \in timers : TimerSends(tm)
<1>1. CASE UNCHANGED vars
  BY <1>1 DEF vars
<1>2. CASE SessionActs
  BY <1>2 DEF SessionActs, Reacts, history
<1>3. CASE \E u \in Usages : UsageScan(u)
  BY <1>3 DEF UsageScan, history
<1>4. CASE UserInput \/ Toggle \/ SetDefault
  BY <1>4 DEF UserInput, Toggle, SetDefault
<1>5. CASE \E tm \in timers : TimerStep(tm)
  BY <1>5 DEF TimerStep, TimerChunk, TimerRefused, TimerFails, TimerRearms, history
<1>6. CASE WritableChanges \/ Clock \/ Restart
  BY <1>6 DEF WritableChanges, Clock, Restart, history
<1> QED BY <1>1, <1>2, <1>3, <1>4, <1>5, <1>6 DEF Next

LEMMA EarlyKeeps ==
  ASSUME EarlyInv, [Next]_vars, [PaneFindsNoTimers]_vars
  PROVE  EarlyInv'
<1>0. ContinueInv(FALSE, FALSE)'
  BY NextKeeps DEF EarlyInv
<1>1. CASE TimersEndWithPane
  <2>1. ContinueInv(TRUE, FALSE)
    BY <1>1, EarlyPart DEF EarlyInv
  <2>2. NeverEarly'
    <3>1. CASE sent' = sent
      BY <3>1 DEF EarlyInv, NeverEarly
    <3>2. CASE \E tm \in timers : TimerSends(tm)
      <4>1. ContinueInv(TRUE, FALSE)'
        BY <2>1, <3>2, TimerSendsKeeps
      <4> QED BY <4>1 DEF ContinueInv
    <3> QED BY <3>1, <3>2, OthersTypeNothing
  <2>3. ASSUME TimersEndWithPane' PROVE Early(Here)'
    <3>1. ContinueInv(TRUE, FALSE)'
      BY <2>1, <2>3, NextKeeps
    <3>2. ContinueInv(TRUE, FALSE)' => Early(Here)'
      BY EarlyPart, PTL
    <3> QED BY <3>1, <3>2
  <2> QED BY <1>0, <2>2, <2>3 DEF EarlyInv
<1>2. CASE pane = NoPane /\ timers # {}
  <2>1. pane' = NoPane
    BY <1>2 DEF PaneFindsNoTimers, vars
  <2>2. \A tm \in timers : ~TimerSends(tm)
    BY <1>2 DEF TimerSends, MayFire, ArmedFor
  <2>3. NeverEarly'
    BY <2>2, OthersTypeNothing DEF EarlyInv, NeverEarly
  <2>4. TimersEndWithPane' => Early(Here)'
    BY <2>1 DEF TimersEndWithPane, Early, Here
  <2> QED BY <1>0, <2>3, <2>4 DEF EarlyInv
<1> QED BY <1>1, <1>2 DEF TimersEndWithPane

\* Every variable of auto-continue has its type.
THEOREM ContinueTypeCorrect == Spec => []TypeOK
BY ContinueInvariant, PTL

\* In every behaviour, renames of a session and timers left behind by a closed
\* session included, an armed continue has a timer of its own generation that is
\* due no later than the arm: apply_auto_continue_event schedules one for every
\* Armed event, and no timer that goes away belonged to the pane's arm.
THEOREM ArmsHaveTimers == Spec => []ArmHasTimer
BY ContinueInvariant, PTL

\* If a pane's state begins only when no timer of an earlier one is left, nothing is
\* typed before the fire time of its arm.  The generation check of claim_due_arm is
\* sound as long as generations are not counted from 0 again under a timer of the
\* old count; a session that opens in a terminal where another one ended, before
\* the timers of that one have gone off, is the one way in which that happens.
THEOREM NothingIsEarly == Spec /\ [][PaneFindsNoTimers]_vars => []NeverEarly
<1>1. Init => EarlyInv
  BY InitEarly
<1>2. EarlyInv /\ [Next]_vars /\ [PaneFindsNoTimers]_vars => EarlyInv'
  BY EarlyKeeps
<1>3. EarlyInv => NeverEarly
  BY DEF EarlyInv
<1> QED BY <1>1, <1>2, <1>3, PTL DEF Spec

\* The arm in memory is always backed by the persisted one (install_arm and
\* set_persisted_arm go together), so a restart cannot lose it, as long as no
\* session is given another name while the pane waits for something.
THEOREM ArmsArePersisted == Spec /\ [][RenamesAtRest]_vars => []ArmIsPersisted
BY OwnedInvariant, PTL

\* At most one Continue answers a limit stop, however often the arm is retried,
\* moved, restored from the settings by a restart or re-enabled by a switch:
\* claiming an arm removes every other way to answer its stop.
THEOREM OneContinue == Spec /\ [][RenamesAtRest]_vars => []OneContinuePerStop
BY OwnedInvariant, PTL

\* A stop over which the user typed is never answered, not even from the persisted
\* arm or by a limit stop that is still shown when the pane is restored.
THEOREM TakeoversAreFinal == Spec /\ [][RenamesAtRest]_vars => []TakeoverIsFinal
BY OwnedInvariant, PTL

\* Continue is typed only into the session that hit the limit.
THEOREM ContinuesReachTheirSession == Spec /\ [][RenamesAtRest]_vars => []ContinueOnlyForItsSession
BY OwnedInvariant, PTL

\* Continue is typed only while the settings have it on for that session: a switch
\* reaches every pane before a timer can look at it.
THEOREM OffIsOff == Spec /\ [][RenamesAtRest]_vars => []OffMeansOff
BY OwnedInvariant, PTL
=============================================================================
