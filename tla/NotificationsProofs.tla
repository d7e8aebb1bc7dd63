-------------------------- MODULE NotificationsProofs --------------------------
(***************************************************************************)
(* A person gets a message at most once, with consent, for any set of      *)
(* people, channels and addresses, any batch and any number of attempts,   *)
(* and for every interleaving of the dispatcher, the worker, people,       *)
(* failing calls and restarts.                                             *)
(*                                                                         *)
(* SentOnce is not inductive.  It rests on three facts: no delivery is     *)
(* queued twice (Dispatching), the worker holds a list of distinct rows of *)
(* which only the first has changed since they were read (Listed), and a   *)
(* row that may still be sent was taken no more often than there are       *)
(* excuses (Once).  SentWithConsent rests on what the worker saw since it  *)
(* took the delivery up (Consent).                                         *)
(***************************************************************************)
EXTENDS Notifications, FiniteSetTheorems, TLAPS

----------------------------------------------------------------------------
(* The dispatcher.                                                          *)

Wants == UNION {[U -> SUBSET Surfaces] : U \in SUBSET Users}
Activation ==
  [pc : {"none", "resolve", "prefs", "users", "queue"}, todo : SUBSET Users, wants : Wants,
   cur : SUBSET Users, left : SUBSET Channels]

\* What an activation still has to do for its event was not done before.
Sound(e, a) ==
  /\ e > Len(log) => a.pc = "none"
  /\ a.pc \in {"users", "queue"} => a.todo \subseteq DOMAIN a.wants
  /\ a.left # {} => a.pc = "queue"
  /\ a.pc = "queue" => a.cur \cap a.todo = {}
  /\ \A u \in Users, c \in Channels :
       <<e, u, c>> \in DOMAIN rows =>
         /\ e <= Len(log) /\ a.pc \notin {"resolve", "prefs"}
         /\ a.pc \in {"users", "queue"} => u \notin a.todo
         /\ a.pc = "queue" /\ u \in a.cur => c \notin a.left

Dispatching ==
  /\ log \in Seq(Keys) /\ DOMAIN rows \subseteq Ids
  /\ prefs \in [Users -> [Keys -> SUBSET Surfaces]]
  /\ disp \in [Events -> Activation]
  /\ \A e \in Events : Sound(e, disp[e])

----------------------------------------------------------------------------
(* The worker.                                                              *)

Waiting(d) == d \in DOMAIN rows /\ rows[d].status \in {"pending", "failed"}

\* A row that is to be sent again has an attempt left.
GoodRow == {r \in Row : r.status \in {"pending", "failed"} => r.attempts < MaxAttempts}

SendTyped ==
  /\ DOMAIN rows \subseteq Ids /\ IsFiniteSet(DOMAIN rows) /\ rows \in [DOMAIN rows -> GoodRow]
  /\ worker \in [pc : Phases, list : Seq(Ids), addr : Addresses \cup {Nowhere}]
  /\ accepted \in [Ids -> Nat] /\ excuses \in [Ids -> Nat]

\* The stage of the worker and the status of the row it is at.
Stage(p, status) ==
  /\ p \in {"user", "dest", "mark"} => status \in {"pending", "failed"}
  /\ p \in {"bot", "photo", "send", "accept"} => status = "sending"
  /\ p = "success" => status = "provider_accepted"

\* The rows of the list are distinct; only the first one has been touched.
Listed ==
  /\ worker.pc = "idle" <=> worker.list = <<>>
  /\ \A i, j \in DOMAIN worker.list : worker.list[i] = worker.list[j] => i = j
  /\ \A i \in DOMAIN worker.list : worker.list[i] \in DOMAIN rows
  /\ \A i \in DOMAIN worker.list : i > 1 => Waiting(worker.list[i])
  /\ worker.list # <<>> => Stage(worker.pc, rows[Cur].status)

\* A row with this status, at this stage of the worker, was taken a times with x
\* excuses.  One that may still be sent has used up none of the bound.
Cleared(p, status, a, x) ==
  /\ a <= x + (IF status \in {"pending", "failed"} \/ p \in {"bot", "photo", "send", "fail"}
                 THEN 0 ELSE 1)
  /\ p \in {"accept", "success"} => a > 0
  /\ status \in Settled /\ x = 0 => (status = "provider_accepted" <=> a > 0)

StageOf(d) == IF worker.list # <<>> /\ Cur = d THEN worker.pc ELSE "idle"

OnceFor(d) ==
  IF d \in DOMAIN rows THEN Cleared(StageOf(d), rows[d].status, accepted[d], excuses[d])
  ELSE accepted[d] <= excuses[d]

Once == \A d \in Ids : OnceFor(d)

SendInv == SendTyped /\ Listed /\ Once

----------------------------------------------------------------------------
(* Consent.                                                                 *)

Consent ==
  /\ worker.pc \in {"dest", "mark", "bot", "photo", "send"} => since.active # {}
  /\ worker.pc \in {"mark", "bot", "photo", "send"} => worker.addr \in since.dest

----------------------------------------------------------------------------
(* No delivery is queued twice.                                             *)

LEMMA NoDispatchIs ==
  /\ NoDispatch \in Activation
  /\ NoDispatch.pc = "none" /\ NoDispatch.todo = {} /\ NoDispatch.left = {}
<1>1. <<>> \in Wants
  <2>1. <<>> \in [{} -> SUBSET Surfaces] OBVIOUS
  <2> QED BY <2>1 DEF Wants
<1> QED BY <1>1 DEF NoDispatch, Activation

LEMMA DispatchingInit == Init => Dispatching
<1> SUFFICES ASSUME Init PROVE Dispatching OBVIOUS
<1>1. log = <<>> /\ rows = <<>> /\ disp = [e \in Events |-> NoDispatch] BY DEF Init
<1>2. DOMAIN rows = {}
  <2>1. DOMAIN <<>> = {} OBVIOUS
  <2> QED BY <1>1, <2>1
<1>3. log \in Seq(Keys) /\ Len(log) = 0 BY <1>1
<1>4. prefs \in [Users -> [Keys -> SUBSET Surfaces]]
  <2>1. PICK C \in FirstPrefs : prefs = [u \in Users |-> [k \in Keys |-> C]] BY DEF Init
  <2>2. C \in SUBSET Surfaces BY PreferenceAssumption DEF Surfaces
  <2> QED BY <2>1, <2>2
<1>5. disp \in [Events -> Activation] BY <1>1, NoDispatchIs
<1>6. \A e \in Events : Sound(e, disp[e]) BY <1>1, <1>2, NoDispatchIs DEF Sound
<1> QED BY <1>2, <1>3, <1>4, <1>5, <1>6 DEF Dispatching

LEMMA DispatchRests ==
  ASSUME Dispatching, UNCHANGED <<log, disp>>, DOMAIN rows' = DOMAIN rows,
         prefs' \in [Users -> [Keys -> SUBSET Surfaces]]
  PROVE  Dispatching'
BY DEF Dispatching, Sound

\* One activation moves on; the rows may have grown by deliveries of its event.
LEMMA DispatchMoves ==
  ASSUME Dispatching, NEW e \in Events, NEW a \in Activation,
         disp' = [disp EXCEPT ![e] = a], UNCHANGED <<log, prefs>>,
         DOMAIN rows' \subseteq Ids,
         \A d \in DOMAIN rows' : d \in DOMAIN rows \/ d[1] = e,
         Sound(e, a)'
  PROVE  Dispatching'
<1>1. disp' \in [Events -> Activation] BY DEF Dispatching
<1>2. ASSUME NEW f \in Events, f # e PROVE Sound(f, disp[f])'
  <2>1. disp'[f] = disp[f] /\ Sound(f, disp[f]) BY <1>2 DEF Dispatching
  <2>2. \A u \in Users, c \in Channels : <<f, u, c>> \in DOMAIN rows' => <<f, u, c>> \in DOMAIN rows
    BY <1>2
  <2> QED BY <2>1, <2>2 DEF Sound
<1>3. disp'[e] = a BY DEF Dispatching
<1>4. Sound(e, disp[e])' BY <1>3 DEF Sound
<1>5. \A f \in Events : Sound(f, disp[f])' BY <1>2, <1>4
<1> QED BY <1>1, <1>5 DEF Dispatching

LEMMA PublishKeeps ==
  ASSUME Dispatching, Watch PROVE Dispatching'
<1>1. UNCHANGED <<prefs, rows>> BY DEF Watch, people, queue
<1>2. PICK key : Publish(key) /\ key \in Keys \cup {"no edge"}
  BY DEF Watch, Edge, Keys
<1>3. CASE UNCHANGED <<log, disp>> BY <1>1, <1>3, DispatchRests DEF Dispatching
<1>4. CASE ~UNCHANGED <<log, disp>>
  <2>1. /\ key \in Keys /\ log' = Append(log, key)
        /\ disp' = [disp EXCEPT ![Len(log) + 1].pc = "resolve"]
    BY <1>2, <1>4 DEF Publish
  <2>2. log \in Seq(Keys) /\ disp \in [Events -> Activation] BY DEF Dispatching
  <2>3. log' \in Seq(Keys) /\ Len(log') = Len(log) + 1 BY <2>1, <2>2
  <2>4. ASSUME NEW e \in Events PROVE disp'[e] \in Activation /\ Sound(e, disp[e])'
    <3>1. disp[e] \in Activation /\ Sound(e, disp[e]) BY <2>2 DEF Dispatching
    <3>2. CASE e # Len(log) + 1
      <4>1. disp'[e] = disp[e] BY <2>1, <2>2, <3>2
      <4>2. Len(log) \in Nat /\ e \in Nat BY <2>2 DEF Events
      <4>3. Sound(e, disp[e])'
        BY <1>1, <2>3, <3>1, <3>2, <4>1, <4>2 DEF Sound
      <4> QED BY <3>1, <4>1, <4>3
    <3>3. CASE e = Len(log) + 1
      <4> DEFINE a == [disp[e] EXCEPT !.pc = "resolve"]
      <4>1. disp'[e] = a BY <2>1, <2>2, <3>3
      <4>2. a \in Activation /\ a.pc = "resolve" /\ a.left = disp[e].left BY <3>1 DEF Activation
      <4> HIDE DEF a
      <4>3. Len(log) \in Nat BY <2>2
      <4>4. \A u \in Users, c \in Channels : <<e, u, c>> \notin DOMAIN rows
        BY <3>1, <3>3, <4>3 DEF Sound
      <4>5. disp[e].left = {} BY <3>1, <3>3, <4>3 DEF Sound
      <4>6. Sound(e, disp[e])' BY <1>1, <2>3, <3>3, <4>1, <4>2, <4>3, <4>4, <4>5 DEF Sound
      <4> QED BY <4>1, <4>2, <4>6
    <3> QED BY <3>2, <3>3
  <2>5. disp' \in [Events -> Activation] BY <2>1, <2>2, <2>4
  <2> QED BY <1>1, <2>3, <2>4, <2>5 DEF Dispatching
<1> QED BY <1>3, <1>4

\* The steps of an activation that queue nothing.
LEMMA DispatchSteps ==
  ASSUME Dispatching, NEW e \in Events,
         \/ Resolve(e) \/ ReadPreferences(e) \/ NextUser(e) \/ DispatchEnds(e) \/ DispatchFails(e)
         \/ \E u \in Users : SkipUser(e, u) \/ CreateInApp(e, u)
  PROVE  Dispatching'
<1>1. UNCHANGED <<log, prefs, rows>>
  BY DEF Resolve, ReadPreferences, NextUser, DispatchEnds, DispatchFails, SkipUser, CreateInApp,
         sys, people, queue
<1>2. disp[e] \in Activation /\ Sound(e, disp[e]) /\ DOMAIN rows \subseteq Ids
  BY DEF Dispatching
<1>3. ASSUME NEW a \in Activation, disp' = [disp EXCEPT ![e] = a], Sound(e, a) PROVE Dispatching'
  <2>1. Sound(e, a)' BY <1>1, <1>3 DEF Sound
  <2> QED BY <1>1, <1>2, <1>3, <2>1, DispatchMoves
<1>4. disp \in [Events -> Activation] BY DEF Dispatching
<1>5. CASE Resolve(e)
  <2> DEFINE U == {u \in Users : account[u]}
             a == [disp[e] EXCEPT !.pc = "prefs", !.todo = U]
  <2>1. disp' = [disp EXCEPT ![e] = a] /\ disp[e].pc = "resolve" BY <1>5 DEF Resolve
  <2>2. U \in SUBSET Users OBVIOUS
  <2> HIDE DEF U
  <2>3. a \in Activation /\ a.pc = "prefs" /\ a.left = disp[e].left BY <1>2, <2>2 DEF Activation
  <2> HIDE DEF a
  <2>4. Sound(e, a) BY <1>2, <2>1, <2>3 DEF Sound
  <2> QED BY <1>3, <2>1, <2>3, <2>4
<1>6. CASE ReadPreferences(e)
  <2> DEFINE w == [u \in disp[e].todo |-> prefs[u][log[e]]]
             a == [disp[e] EXCEPT !.pc = "users", !.wants = w]
  <2>1. disp' = [disp EXCEPT ![e] = a] /\ disp[e].pc = "prefs" BY <1>6 DEF ReadPreferences
  <2>2. disp[e].todo \subseteq Users BY <1>2 DEF Activation
  <2>3. log[e] \in Keys
    <3>1. log \in Seq(Keys) /\ e \in Nat /\ e >= 1 BY DEF Dispatching, Events
    <3>2. e <= Len(log) BY <1>2, <2>1, <3>1 DEF Sound
    <3> QED BY <3>1, <3>2
  <2>4. w \in Wants /\ DOMAIN w = disp[e].todo
    <3>1. \A u \in disp[e].todo : prefs[u][log[e]] \in SUBSET Surfaces
      BY <2>2, <2>3 DEF Dispatching
    <3>2. w \in [disp[e].todo -> SUBSET Surfaces] BY <3>1
    <3> QED BY <2>2, <3>2 DEF Wants
  <2> HIDE DEF w
  <2>5. /\ a \in Activation /\ a.pc = "users" /\ a.left = disp[e].left /\ a.todo = disp[e].todo
        /\ a.wants = w
    BY <1>2, <2>4 DEF Activation
  <2> HIDE DEF a
  <2>6. Sound(e, a) BY <1>2, <2>1, <2>4, <2>5 DEF Sound
  <2> QED BY <1>3, <2>1, <2>5, <2>6
<1>7. CASE NextUser(e)
  <2> DEFINE a == [disp[e] EXCEPT !.pc = "users", !.cur = {}]
  <2>1. disp' = [disp EXCEPT ![e] = a] /\ disp[e].pc = "queue" /\ disp[e].left = {}
    BY <1>7 DEF NextUser
  <2>2. /\ a \in Activation /\ a.pc = "users" /\ a.left = disp[e].left /\ a.todo = disp[e].todo
        /\ a.wants = disp[e].wants
    BY <1>2 DEF Activation
  <2> HIDE DEF a
  <2>3. Sound(e, a) BY <1>2, <2>1, <2>2 DEF Sound
  <2> QED BY <1>3, <2>1, <2>2, <2>3
<1>8. ASSUME disp' = [disp EXCEPT ![e] = NoDispatch], disp[e].pc # "none" PROVE Dispatching'
  <2>1. \A u \in Users, c \in Channels : <<e, u, c>> \in DOMAIN rows => e <= Len(log)
    BY <1>2 DEF Sound
  <2>2. Sound(e, NoDispatch) BY <2>1, NoDispatchIs DEF Sound
  <2> QED BY <1>3, <1>8, <2>2, NoDispatchIs
<1>9. ASSUME NEW u, disp' = [disp EXCEPT ![e].todo = @ \ {u}] PROVE Dispatching'
  <2> DEFINE a == [disp[e] EXCEPT !.todo = @ \ {u}]
  <2>1. disp' = [disp EXCEPT ![e] = a] BY <1>4, <1>9
  <2>2. /\ a \in Activation /\ a.pc = disp[e].pc /\ a.left = disp[e].left
        /\ a.todo = disp[e].todo \ {u} /\ a.wants = disp[e].wants /\ a.cur = disp[e].cur
    BY <1>2 DEF Activation
  <2> HIDE DEF a
  <2>3. Sound(e, a) BY <1>2, <2>2 DEF Sound
  <2> QED BY <1>3, <2>1, <2>2, <2>3
<1>10. ASSUME NEW c, disp' = [disp EXCEPT ![e].left = @ \ {c}] PROVE Dispatching'
  <2> DEFINE a == [disp[e] EXCEPT !.left = @ \ {c}]
  <2>1. disp' = [disp EXCEPT ![e] = a] BY <1>4, <1>10
  <2>2. /\ a \in Activation /\ a.pc = disp[e].pc /\ a.left = disp[e].left \ {c}
        /\ a.todo = disp[e].todo /\ a.wants = disp[e].wants /\ a.cur = disp[e].cur
    BY <1>2 DEF Activation
  <2> HIDE DEF a
  <2>3. Sound(e, a) BY <1>2, <2>2 DEF Sound
  <2> QED BY <1>3, <2>1, <2>2, <2>3
<1>11. ASSUME NEW u \in Users, CreateInApp(e, u) PROVE Dispatching'
  <2> DEFINE L == disp[e].wants[u] \ {"in_app"}
             a == [disp[e] EXCEPT !.pc = "queue", !.todo = disp[e].todo \ {u}, !.cur = {u}, !.left = L]
  <2>1. disp[e].pc = "users" /\ u \in disp[e].todo BY <1>11 DEF CreateInApp
  <2>6. disp' = [disp EXCEPT ![e] = a] BY <1>11 DEF CreateInApp
  <2>2. L \in SUBSET Channels
    <3>1. disp[e].wants \in Wants /\ u \in DOMAIN disp[e].wants BY <1>2, <2>1 DEF Activation, Sound
    <3>2. disp[e].wants[u] \subseteq Surfaces BY <3>1 DEF Wants
    <3> QED BY <3>2 DEF Surfaces
  <2> HIDE DEF L
  <2>3. /\ a \in Activation /\ a.pc = "queue" /\ a.left = L /\ a.cur = {u}
        /\ a.todo = disp[e].todo \ {u} /\ a.wants = disp[e].wants
    BY <1>2, <2>2 DEF Activation
  <2> HIDE DEF a
  <2>4. \A c \in Channels : <<e, u, c>> \notin DOMAIN rows BY <1>2, <2>1 DEF Sound
  <2>5. Sound(e, a) BY <1>2, <2>1, <2>3, <2>4 DEF Sound
  <2> QED BY <1>3, <2>3, <2>5, <2>6
<1>12. CASE DispatchEnds(e) BY <1>8, <1>12 DEF DispatchEnds
<1>13. CASE DispatchFails(e) BY <1>8, <1>9, <1>10, <1>13 DEF DispatchFails
<1>14. CASE \E u \in Users : SkipUser(e, u) BY <1>9, <1>14 DEF SkipUser
<1> QED BY <1>5, <1>6, <1>7, <1>11, <1>12, <1>13, <1>14

\* A delivery that is queued is new, and is not queued again.
LEMMA QueueKeeps ==
  ASSUME Dispatching, NEW e \in Events, NEW u \in Users, NEW c \in Channels, QueueDelivery(e, u, c)
  PROVE  Dispatching' /\ <<e, u, c>> \notin DOMAIN rows
<1>1. UNCHANGED <<log, prefs>> /\ rows' = Inserted(<<e, u, c>>)
  BY DEF QueueDelivery, sys, people
<1>2. disp[e] \in Activation /\ Sound(e, disp[e]) /\ disp \in [Events -> Activation]
      /\ DOMAIN rows \subseteq Ids
  BY DEF Dispatching
<1>3. disp[e].pc = "queue" /\ disp[e].cur = {u} /\ c \in disp[e].left BY DEF QueueDelivery
<1>4. <<e, u, c>> \notin DOMAIN rows BY <1>2, <1>3 DEF Sound
<1>5. DOMAIN rows' = DOMAIN rows \cup {<<e, u, c>>} BY <1>1 DEF Inserted
<1>6. PICK a \in Activation :
        /\ disp' = [disp EXCEPT ![e] = a]
        /\ a.pc = disp[e].pc /\ a.left = disp[e].left \ {c}
        /\ a.todo = disp[e].todo /\ a.wants = disp[e].wants /\ a.cur = disp[e].cur
  <2> DEFINE b == [disp[e] EXCEPT !.left = @ \ {c}]
  <2>1. disp' = [disp EXCEPT ![e] = b] BY <1>2 DEF QueueDelivery
  <2>2. /\ b \in Activation /\ b.pc = disp[e].pc /\ b.left = disp[e].left \ {c}
        /\ b.todo = disp[e].todo /\ b.wants = disp[e].wants /\ b.cur = disp[e].cur
    BY <1>2 DEF Activation
  <2> HIDE DEF b
  <2> QED BY <2>1, <2>2
<1>7. e <= Len(log)
  <2>1. e \in Nat /\ Len(log) \in Nat BY DEF Events, Dispatching
  <2> QED BY <1>2, <1>3, <2>1 DEF Sound
<1>8. Sound(e, a)'
  <2>1. \A v \in Users, b \in Channels :
          <<e, v, b>> \in DOMAIN rows' => <<e, v, b>> \in DOMAIN rows \/ (v = u /\ b = c)
    BY <1>5
  <2>2. u \notin a.todo BY <1>2, <1>3, <1>6 DEF Sound
  <2> QED BY <1>1, <1>2, <1>3, <1>6, <1>7, <2>1, <2>2 DEF Sound
<1>9. DOMAIN rows' \subseteq Ids BY <1>2, <1>5 DEF Ids
<1>10. \A d \in DOMAIN rows' : d \in DOMAIN rows \/ d[1] = e BY <1>5
<1>11. UNCHANGED <<log, prefs>> BY <1>1
<1>12. Dispatching' BY <1>6, <1>8, <1>9, <1>10, <1>11, DispatchMoves
<1> QED BY <1>4, <1>12

LEMMA DispatchRestart == ASSUME Dispatching, Restart PROVE Dispatching'
<1>1. UNCHANGED <<log, prefs, rows>> /\ disp' = [e \in Events |-> NoDispatch]
  BY DEF Restart, queue
<1>2. disp' \in [Events -> Activation] BY <1>1, NoDispatchIs
<1>3. ASSUME NEW e \in Events PROVE Sound(e, disp[e])'
  <2>1. \A u \in Users, c \in Channels : <<e, u, c>> \in DOMAIN rows => e <= Len(log)
    BY DEF Dispatching, Sound
  <2>2. disp'[e] = NoDispatch BY <1>1
  <2> QED BY <1>1, <2>1, <2>2, NoDispatchIs DEF Sound
<1> QED BY <1>1, <1>2, <1>3 DEF Dispatching

----------------------------------------------------------------------------
(* The worker.                                                              *)

LEMMA RestingIs ==
  /\ Resting \in [pc : Phases, list : Seq(Ids), addr : Addresses \cup {Nowhere}]
  /\ Resting.pc = "idle" /\ Resting.list = <<>>
BY DEF Resting, Phases

LEMMA SendInit == Init => SendInv
<1> SUFFICES ASSUME Init PROVE SendInv OBVIOUS
<1>1. rows = <<>> /\ worker = Resting /\ accepted = [d \in Ids |-> 0] /\ excuses = [d \in Ids |-> 0]
  BY DEF Init
<1>2. DOMAIN rows = {} /\ rows \in [{} -> GoodRow]
  <2>1. DOMAIN <<>> = {} OBVIOUS
  <2>2. <<>> \in [{} -> GoodRow] OBVIOUS
  <2> QED BY <1>1, <2>1, <2>2
<1>3. SendTyped BY <1>1, <1>2, RestingIs, FS_EmptySet DEF SendTyped
<1>4. worker.pc = "idle" /\ worker.list = <<>> BY <1>1, RestingIs
<1>5. Listed BY <1>4 DEF Listed
<1>6. Once BY <1>1, <1>2 DEF Once, OnceFor
<1> QED BY <1>3, <1>5, <1>6 DEF SendInv

\* Nobody gains by the worker leaving a row.
LEMMA Left ==
  ASSUME NEW p, NEW s, NEW a \in Nat, NEW x \in Nat, Cleared(p, s, a, x)
  PROVE  Cleared("idle", s, a, x)
BY DEF Cleared

\* A row that is still to be sent after the step.
WaitsNext(d) == d \in DOMAIN rows' /\ rows'[d].status \in {"pending", "failed"}

\* The step of the worker that is over leaves the row n with status s and counts a, x.
Leaves(n, s, a, x) ==
  /\ rows' \in [DOMAIN rows -> GoodRow] /\ rows'[n].status = s
  /\ \A d \in DOMAIN rows : d # n => rows'[d] = rows[d]
  /\ accepted' \in [Ids -> Nat] /\ excuses' \in [Ids -> Nat]
  /\ accepted'[n] = a /\ excuses'[n] = x
  /\ \A d \in Ids : d # n => accepted'[d] = accepted[d] /\ excuses'[d] = excuses[d]

LEMMA EmptyIs == ASSUME NEW S, NEW q \in Seq(S) PROVE Len(q) \in Nat /\ (q = <<>> <=> Len(q) = 0)
OBVIOUS

LEMMA TailIs ==
  ASSUME NEW S, NEW q \in Seq(S), q # <<>>, Len(q) # 1
  PROVE  /\ Tail(q) \in Seq(S) /\ Tail(q) # <<>>
         /\ \A i \in DOMAIN Tail(q) : i + 1 \in DOMAIN q /\ Tail(q)[i] = q[i + 1]
<1>1. Len(q) \in Nat /\ Len(q) # 0 BY EmptyIs
<1>2. Len(q) > 1
  <2>1. ASSUME NEW k \in Nat, k # 0, k # 1 PROVE k > 1 BY <2>1
  <2> QED BY <1>1, <2>1
<1>3. Tail(q) \in Seq(S) /\ Len(Tail(q)) = Len(q) - 1 BY <1>1, <1>2
<1>4. Len(Tail(q)) # 0 BY <1>1, <1>2, <1>3
<1>5. Tail(q) # <<>> BY <1>3, <1>4, EmptyIs
<1>6. \A i \in DOMAIN Tail(q) : i + 1 \in DOMAIN q /\ Tail(q)[i] = q[i + 1] BY <1>1, <1>2, <1>3
<1> QED BY <1>3, <1>5, <1>6

LEMMA HeadOf ==
  ASSUME SendInv, worker.list # <<>>
  PROVE  /\ Cur \in DOMAIN rows /\ Cur \in Ids /\ Cur = worker.list[1]
         /\ 1 \in DOMAIN worker.list
         /\ \A i \in DOMAIN worker.list : i > 1 => worker.list[i] # Cur
<1>1. worker.list \in Seq(Ids) BY DEF SendInv, SendTyped
<1>2. 1 \in DOMAIN worker.list /\ Cur = worker.list[1] BY <1>1 DEF Cur
<1> QED BY <1>1, <1>2 DEF SendInv, SendTyped, Listed

\* The worker stays with its row.
LEMMA StaysKeeps ==
  ASSUME SendInv, worker.list # <<>>, NEW n, n = Cur, NEW p \in Phases \ {"idle"}, NEW s, NEW a, NEW x,
         Leaves(n, s, a, x), Stage(p, s), Cleared(p, s, a, x),
         worker' \in [pc : Phases, list : Seq(Ids), addr : Addresses \cup {Nowhere}],
         worker'.pc = p, worker'.list = worker.list
  PROVE  SendInv'
<1>1. DOMAIN rows' = DOMAIN rows BY DEF Leaves
<1>2. SendTyped' BY <1>1 DEF SendInv, SendTyped, Leaves
<1>3. n \in DOMAIN rows /\ Cur' = n BY HeadOf DEF Cur
<1>4. \A i \in DOMAIN worker.list : i > 1 => worker.list[i] # n BY HeadOf
<1>5. Listed'
  <2>1. \A i \in DOMAIN worker.list : i > 1 => WaitsNext(worker.list[i])
    BY <1>1, <1>4 DEF SendInv, Listed, Waiting, WaitsNext, Leaves
  <2>2. worker'.pc # "idle" OBVIOUS
  <2>3. Stage(worker'.pc, rows'[n].status) BY DEF Leaves
  <2> QED BY <1>1, <1>3, <2>1, <2>2, <2>3 DEF SendInv, Listed, Waiting, WaitsNext
<1>6. ASSUME NEW d \in Ids PROVE OnceFor(d)'
  <2>1. OnceFor(d) BY DEF SendInv, Once
  <2>2. CASE d # n
    <3>1. StageOf(d)' = StageOf(d) BY <1>3, <2>2 DEF StageOf
    <3> QED BY <1>1, <2>1, <2>2, <3>1 DEF OnceFor, Leaves
  <2>3. CASE d = n
    <3>1. StageOf(d)' = p BY <1>3, <2>3 DEF StageOf
    <3> QED BY <1>1, <1>3, <2>3, <3>1 DEF OnceFor, Leaves
  <2> QED BY <2>2, <2>3
<1> QED BY <1>2, <1>5, <1>6 DEF SendInv, Once

\* The worker goes on to the next row of its list.
LEMMA AdvanceKeeps ==
  ASSUME SendInv, worker.list # <<>>, NEW n, n = Cur, NEW s, NEW a, NEW x,
         Leaves(n, s, a, x), Cleared("idle", s, a, x), Advance
  PROVE  SendInv'
<1>1. DOMAIN rows' = DOMAIN rows BY DEF Leaves
<1>2. n \in DOMAIN rows /\ \A i \in DOMAIN worker.list : i > 1 => worker.list[i] # n BY HeadOf
<1>3. worker.list \in Seq(Ids) BY DEF SendInv, SendTyped
<1>4. \A i \in DOMAIN worker.list :
        i > 1 => WaitsNext(worker.list[i])
  BY <1>1, <1>2 DEF SendInv, Listed, Waiting, WaitsNext, Leaves
<1>5. /\ worker' \in [pc : Phases, list : Seq(Ids), addr : Addresses \cup {Nowhere}]
      /\ worker'.pc \in {"idle", "user"} /\ (worker'.pc = "idle" <=> worker'.list = <<>>)
      /\ \A i \in DOMAIN worker'.list : /\ i + 1 \in DOMAIN worker.list
                                        /\ worker'.list[i] = worker.list[i + 1]
  <2>1. CASE Len(worker.list) = 1
    <3>1. worker' = Resting BY <2>1 DEF Advance
    <3>2. DOMAIN <<>> = {} OBVIOUS
    <3> QED BY <3>1, <3>2, RestingIs
  <2>2. CASE Len(worker.list) # 1
    <3>1. worker' = [pc |-> "user", list |-> Tail(worker.list), addr |-> Nowhere]
      BY <2>2 DEF Advance
    <3>2. /\ Tail(worker.list) \in Seq(Ids) /\ Tail(worker.list) # <<>>
          /\ \A i \in DOMAIN Tail(worker.list) : /\ i + 1 \in DOMAIN worker.list
                                                /\ Tail(worker.list)[i] = worker.list[i + 1]
      BY <1>3, <2>2, TailIs
    <3>5. worker' \in [pc : Phases, list : Seq(Ids), addr : Addresses \cup {Nowhere}]
      BY <3>1, <3>2 DEF Phases
    <3>6. worker'.pc = "user" /\ worker'.list = Tail(worker.list) BY <3>1
    <3>7. \A i \in DOMAIN worker'.list : /\ i + 1 \in DOMAIN worker.list
                                         /\ worker'.list[i] = worker.list[i + 1]
      BY <3>2, <3>6
    <3> QED BY <3>2, <3>5, <3>6, <3>7
  <2> QED BY <2>1, <2>2
<1>6. SendTyped' BY <1>1, <1>5 DEF SendInv, SendTyped, Leaves
<1>7. worker'.list \in Seq(Ids) BY <1>5
<1>8. \A i \in DOMAIN worker'.list : i \in Nat /\ i + 1 > 1 BY <1>7
<1>9. \A i \in DOMAIN worker'.list : WaitsNext(worker'.list[i])
  BY <1>4, <1>5, <1>8
<1>10. worker'.list # <<>> => Cur' = worker'.list[1] /\ 1 \in DOMAIN worker'.list
  BY <1>7 DEF Cur
<1>11. Listed'
  <2>1. \A i, j \in DOMAIN worker'.list : worker'.list[i] = worker'.list[j] => i = j
    <3> SUFFICES ASSUME NEW i \in DOMAIN worker'.list, NEW j \in DOMAIN worker'.list,
                        worker'.list[i] = worker'.list[j]
                 PROVE  i = j
      OBVIOUS
    <3>1. i + 1 = j + 1 BY <1>5 DEF SendInv, Listed
    <3> QED BY <1>8, <3>1
  <2>2. worker'.list # <<>> => rows'[Cur'].status \in {"pending", "failed"}
    BY <1>9, <1>10 DEF WaitsNext
  <2>3. worker'.list # <<>> => Stage(worker'.pc, rows'[Cur'].status) BY <1>5, <2>2 DEF Stage
  <2> QED BY <1>1, <1>5, <1>9, <2>1, <2>3 DEF Listed, Waiting, WaitsNext
<1>12. ASSUME NEW d \in Ids PROVE OnceFor(d)'
  <2>1. OnceFor(d) BY DEF SendInv, Once
  <2>2. accepted[d] \in Nat /\ excuses[d] \in Nat BY DEF SendInv, SendTyped
  <2>3. StageOf(d)' \in {"idle", "user"} BY <1>5 DEF StageOf
  <2>4. CASE d # n
    <3>1. d \in DOMAIN rows => Cleared("idle", rows[d].status, accepted[d], excuses[d])
      BY <2>1, <2>2, Left DEF OnceFor
    <3>2. d \in DOMAIN rows => Cleared(StageOf(d)', rows[d].status, accepted[d], excuses[d])
      BY <2>3, <3>1 DEF Cleared
    <3> QED BY <1>1, <2>1, <2>4, <3>2 DEF OnceFor, Leaves
  <2>5. CASE d = n
    <3>1. Cleared(StageOf(d)', s, a, x) BY <2>3 DEF Cleared
    <3> QED BY <1>1, <1>2, <2>5, <3>1 DEF OnceFor, Leaves
  <2> QED BY <2>4, <2>5
<1> QED BY <1>6, <1>11, <1>12 DEF SendInv, Once

\* The row the worker is at.
LEMMA AtRow ==
  ASSUME SendInv, worker.pc # "idle"
  PROVE  /\ worker.list # <<>> /\ Cur \in DOMAIN rows /\ Cur \in Ids
         /\ rows[Cur] \in GoodRow /\ accepted[Cur] \in Nat /\ excuses[Cur] \in Nat
         /\ Stage(worker.pc, rows[Cur].status)
         /\ Cleared(worker.pc, rows[Cur].status, accepted[Cur], excuses[Cur])
<1>1. worker.list # <<>> BY DEF SendInv, Listed
<1>2. Cur \in DOMAIN rows /\ Cur \in Ids BY <1>1, HeadOf
<1>3. rows[Cur] \in GoodRow /\ accepted[Cur] \in Nat /\ excuses[Cur] \in Nat
  BY <1>2 DEF SendInv, SendTyped
<1>4. Stage(worker.pc, rows[Cur].status) BY <1>1 DEF SendInv, Listed
<1>5. OnceFor(Cur) BY <1>2 DEF SendInv, Once
<1>6. StageOf(Cur) = worker.pc BY <1>1 DEF StageOf
<1> QED BY <1>1, <1>2, <1>3, <1>4, <1>5, <1>6 DEF OnceFor

Statuses == {"pending", "sending", "provider_accepted", "failed", "exhausted", "cancelled"}

LEMMA RowUpdates ==
  ASSUME NEW r \in GoodRow, NEW st \in Statuses,
         st \in {"pending", "failed"} => r.attempts < MaxAttempts
  PROVE  /\ [r EXCEPT !.status = st] \in GoodRow /\ [r EXCEPT !.status = st].status = st
         /\ [r EXCEPT !.status = st, !.due = FALSE] \in GoodRow
         /\ [r EXCEPT !.status = st, !.due = FALSE].status = st
<1>1. r \in Row BY DEF GoodRow
<1> DEFINE a == [r EXCEPT !.status = st]
           b == [r EXCEPT !.status = st, !.due = FALSE]
<1>2. a \in Row /\ a.status = st /\ a.attempts = r.attempts BY <1>1 DEF Row, Statuses
<1>3. b \in Row /\ b.status = st /\ b.attempts = r.attempts BY <1>1 DEF Row, Statuses
<1> HIDE DEF a, b
<1>4. a \in GoodRow /\ b \in GoodRow BY <1>2, <1>3 DEF GoodRow
<1> QED BY <1>2, <1>3, <1>4 DEF a, b

\* Steps that leave the counts alone.
LEMMA LeavesRow ==
  ASSUME SendInv, NEW n \in DOMAIN rows, NEW r \in GoodRow, rows' = [rows EXCEPT ![n] = r],
         UNCHANGED <<accepted, excuses>>
  PROVE  Leaves(n, r.status, accepted[n], excuses[n])
BY DEF SendInv, SendTyped, Leaves

LEMMA LeavesAll ==
  ASSUME SendInv, NEW n \in DOMAIN rows, UNCHANGED <<rows, accepted, excuses>>
  PROVE  Leaves(n, rows[n].status, accepted[n], excuses[n])
BY DEF SendInv, SendTyped, Leaves

LEMMA Goes ==
  ASSUME SendInv, NEW p \in Phases, Goto(p)
  PROVE  /\ worker' \in [pc : Phases, list : Seq(Ids), addr : Addresses \cup {Nowhere}]
         /\ worker'.pc = p /\ worker'.list = worker.list /\ worker'.addr = worker.addr
BY DEF SendInv, SendTyped, Goto

\* Cancel, from a stage before anything was sent.
LEMMA CancelKeeps ==
  ASSUME SendInv, Cancel, UNCHANGED <<accepted, excuses>>, worker.pc \in {"user", "dest", "bot"}
  PROVE  SendInv'
<1>1. PICK n \in DOMAIN rows : n = Cur BY AtRow
<1> DEFINE r == [rows[n] EXCEPT !.status = "cancelled", !.due = FALSE]
<1>2. rows' = [rows EXCEPT ![n] = r] /\ Advance BY <1>1 DEF Cancel, StatusAndDue
<1>3. r \in GoodRow /\ r.status = "cancelled" BY <1>1, AtRow, RowUpdates DEF Statuses
<1> HIDE DEF r
<1>4. Leaves(n, "cancelled", accepted[n], excuses[n]) BY <1>2, <1>3, LeavesRow
<1>5. accepted[n] <= excuses[n] /\ accepted[n] \in Nat /\ excuses[n] \in Nat
  BY <1>1, AtRow DEF Cleared, Stage
<1>6. Cleared("idle", "cancelled", accepted[n], excuses[n]) BY <1>5 DEF Cleared
<1> QED BY <1>1, <1>2, <1>4, <1>6, AtRow, AdvanceKeeps

\* The worker keeps its row and its list, and the counts stay.
LEMMA MovesOn ==
  ASSUME SendInv, worker.pc # "idle", NEW p \in Phases \ {"idle"}, Goto(p),
         UNCHANGED <<rows, accepted, excuses>>,
         Stage(p, rows[Cur].status), Cleared(p, rows[Cur].status, accepted[Cur], excuses[Cur])
  PROVE  SendInv'
<1>1. PICK n \in DOMAIN rows : n = Cur BY AtRow
<1>2. Leaves(n, rows[n].status, accepted[n], excuses[n]) BY LeavesAll
<1> QED BY <1>1, <1>2, AtRow, Goes, StaysKeeps

LEMMA AdvancesOn ==
  ASSUME SendInv, worker.pc # "idle", Advance, UNCHANGED <<rows, accepted, excuses>>
  PROVE  SendInv'
<1>1. PICK n \in DOMAIN rows : n = Cur BY AtRow
<1>2. Leaves(n, rows[n].status, accepted[n], excuses[n]) BY LeavesAll
<1>3. Cleared("idle", rows[n].status, accepted[n], excuses[n]) BY <1>1, AtRow, Left
<1> QED BY <1>1, <1>2, <1>3, AtRow, AdvanceKeeps

LEMMA ReadUserSends == ASSUME SendInv, ReadUser PROVE SendInv'
<1>1. worker.pc = "user" /\ UNCHANGED <<accepted, excuses>> BY DEF ReadUser, At, sent
<1>2. CASE Goto("dest") /\ UNCHANGED rows
  <2>1. /\ Stage("dest", rows[Cur].status)
        /\ Cleared("dest", rows[Cur].status, accepted[Cur], excuses[Cur])
    BY <1>1, AtRow DEF Stage, Cleared
  <2> QED BY <1>1, <1>2, <2>1, MovesOn DEF Phases
<1>3. CASE Cancel BY <1>1, <1>3, CancelKeeps
<1> QED BY <1>2, <1>3 DEF ReadUser

\* The table of connections.
Connections == [Users -> [Channels -> [addr : Addresses \cup {Nowhere}, verified : BOOLEAN]]]

LEMMA DestinationIs ==
  ASSUME chan \in Connections, NEW d \in Ids
  PROVE  /\ User(d) \in Users /\ Channel(d) \in Channels
         /\ Destination(User(d), Channel(d)) \in Addresses \cup {Nowhere}
         /\ Destination(User(d), Channel(d)) # Nowhere
              => /\ Destination(User(d), Channel(d)) \in Addresses
                 /\ chan[User(d)][Channel(d)] =
                      [addr |-> Destination(User(d), Channel(d)), verified |-> TRUE]
<1>1. User(d) \in Users /\ Channel(d) \in Channels BY DEF Ids, User, Channel
<1>2. chan[User(d)][Channel(d)] \in [addr : Addresses \cup {Nowhere}, verified : BOOLEAN]
  BY <1>1 DEF Connections
<1> QED BY <1>1, <1>2 DEF Destination

LEMMA ReadDestinationSends ==
  ASSUME SendInv, chan \in Connections, ReadDestination PROVE SendInv'
<1>1. worker.pc = "dest" /\ UNCHANGED <<accepted, excuses>> BY DEF ReadDestination, At, sent
<1>2. PICK n \in DOMAIN rows : n = Cur /\ n \in Ids BY <1>1, AtRow
<1>3. CASE Cancel BY <1>1, <1>3, CancelKeeps
<1>4. ASSUME NEW a \in Addresses \cup {Nowhere}, worker' = [worker EXCEPT !.pc = "mark", !.addr = a],
             UNCHANGED rows
      PROVE  SendInv'
  <2>1. /\ Stage("mark", rows[n].status)
        /\ Cleared("mark", rows[n].status, accepted[n], excuses[n])
    BY <1>1, <1>2, AtRow DEF Stage, Cleared
  <2>2. /\ worker' \in [pc : Phases, list : Seq(Ids), addr : Addresses \cup {Nowhere}]
        /\ worker'.pc = "mark" /\ worker'.list = worker.list
    BY <1>4 DEF SendInv, SendTyped, Phases
  <2>3. Leaves(n, rows[n].status, accepted[n], excuses[n]) BY <1>1, <1>4, LeavesAll
  <2>4. "mark" \in Phases \ {"idle"} BY DEF Phases
  <2> QED BY <1>1, <1>2, <2>1, <2>2, <2>3, <2>4, AtRow, StaysKeeps
<1>5. Destination(User(n), Channel(n)) \in Addresses \cup {Nowhere} BY <1>2, DestinationIs
<1> QED BY <1>2, <1>3, <1>4, <1>5 DEF ReadDestination

LEMMA MarkSendingSends == ASSUME SendInv, MarkSending PROVE SendInv'
<1>1. worker.pc = "mark" /\ UNCHANGED <<accepted, excuses>> BY DEF MarkSending, At, sent
<1>2. PICK n \in DOMAIN rows : n = Cur BY <1>1, AtRow
<1> DEFINE r == [rows[n] EXCEPT !.status = "sending", !.attempts = rows[n].attempts + 1]
<1>3. rows' = [rows EXCEPT ![n] = r] BY <1>2 DEF MarkSending
<1>4. rows[n] \in Row /\ rows[n].attempts < MaxAttempts BY <1>1, <1>2, AtRow DEF GoodRow, Stage
<1>5. rows[n].attempts + 1 \in 0..MaxAttempts
  <2>1. rows[n].attempts \in 0..MaxAttempts /\ MaxAttempts \in Nat BY <1>4, LimitAssumption DEF Row
  <2>2. ASSUME NEW i \in 0..MaxAttempts, MaxAttempts \in Nat, i < MaxAttempts
        PROVE  i + 1 \in 0..MaxAttempts
    BY <2>2
  <2> QED BY <1>4, <2>1, <2>2
<1>6. PICK k \in 0..MaxAttempts : k = rows[n].attempts + 1 BY <1>5
<1>7. r \in Row /\ r.status = "sending"
  <2>1. r = [rows[n] EXCEPT !.status = "sending", !.attempts = k] BY <1>6
  <2> HIDE DEF r
  <2> QED BY <1>4, <2>1 DEF Row
<1> HIDE DEF r
<1>8. r \in GoodRow BY <1>7 DEF GoodRow
<1>9. Leaves(n, "sending", accepted[n], excuses[n]) BY <1>1, <1>3, <1>7, <1>8, LeavesRow
<1>10. PICK p \in {"bot", "send"} : Goto(p) BY DEF MarkSending
<1>11. accepted[n] <= excuses[n] /\ accepted[n] \in Nat /\ excuses[n] \in Nat
  BY <1>1, <1>2, AtRow DEF Stage, Cleared
<1>12. Stage(p, "sending") /\ Cleared(p, "sending", accepted[n], excuses[n])
  BY <1>11 DEF Stage, Cleared, Settled
<1>13. p \in Phases \ {"idle"} BY DEF Phases
<1> QED BY <1>1, <1>2, <1>9, <1>10, <1>12, <1>13, AtRow, Goes, StaysKeeps

LEMMA FindBotSends == ASSUME SendInv, FindBot PROVE SendInv'
<1>1. worker.pc = "bot" /\ UNCHANGED <<accepted, excuses>> BY DEF FindBot, At, sent
<1>2. ASSUME NEW p \in {"photo", "send"}, Goto(p), UNCHANGED rows PROVE SendInv'
  <2>1. Stage(p, rows[Cur].status) /\ Cleared(p, rows[Cur].status, accepted[Cur], excuses[Cur])
    BY <1>1, AtRow DEF Stage, Cleared
  <2> QED BY <1>1, <1>2, <2>1, MovesOn DEF Phases
<1>3. CASE Cancel BY <1>1, <1>3, CancelKeeps
<1> QED BY <1>2, <1>3 DEF FindBot

\* What the counts are after the provider has, or may have, taken the message.
LEMMA Counts ==
  ASSUME SendInv, NEW n \in DOMAIN rows, UNCHANGED rows, NEW i \in {0, 1}, NEW j \in {0, 1},
         accepted' = [accepted EXCEPT ![n] = accepted[n] + i],
         excuses' = [excuses EXCEPT ![n] = excuses[n] + j]
  PROVE  Leaves(n, rows[n].status, accepted[n] + i, excuses[n] + j)
<1>1. n \in Ids /\ accepted \in [Ids -> Nat] /\ excuses \in [Ids -> Nat]
  BY DEF SendInv, SendTyped
<1>2. accepted[n] + i \in Nat /\ excuses[n] + j \in Nat BY <1>1
<1>3. accepted' \in [Ids -> Nat] /\ excuses' \in [Ids -> Nat] BY <1>1, <1>2
<1> QED BY <1>1, <1>3 DEF SendInv, SendTyped, Leaves

LEMMA ProviderKeeps ==
  ASSUME SendInv, worker.pc \in {"photo", "send"}, NEW failed \in {"send", "fail"},
         Provider(failed), UNCHANGED rows
  PROVE  SendInv'
<1>1. PICK n \in DOMAIN rows : n = Cur BY AtRow
<1>2. /\ rows[n].status = "sending" /\ accepted[n] \in Nat /\ excuses[n] \in Nat
      /\ accepted[n] <= excuses[n] /\ n \in Ids
  BY <1>1, AtRow DEF Stage, Cleared
<1>3. accepted \in [Ids -> Nat] /\ excuses \in [Ids -> Nat] BY DEF SendInv, SendTyped
<1>4. ASSUME NEW p \in {"accept", "send", "fail"}, Goto(p), NEW i \in {0, 1}, NEW j \in {0, 1},
             i <= j \/ (p = "accept" /\ i = 1),
             p = "accept" => i = 1,
             accepted' = [accepted EXCEPT ![n] = accepted[n] + i],
             excuses' = [excuses EXCEPT ![n] = excuses[n] + j]
      PROVE  SendInv'
  <2>1. Leaves(n, rows[n].status, accepted[n] + i, excuses[n] + j) BY <1>4, Counts
  <2>2. ASSUME NEW a \in Nat, NEW x \in Nat, a <= x
        PROVE  Cleared(p, "sending", a + i, x + j)
    BY <1>4, <2>2 DEF Cleared, Settled
  <2>3. Stage(p, "sending") BY <1>4 DEF Stage
  <2>4. p \in Phases \ {"idle"} BY DEF Phases
  <2> QED BY <1>1, <1>2, <1>4, <2>1, <2>2, <2>3, <2>4, AtRow, Goes, StaysKeeps
<1>5. [accepted EXCEPT ![n] = accepted[n] + 0] = accepted /\ [excuses EXCEPT ![n] = excuses[n] + 0] = excuses
  BY <1>2, <1>3
<1>6. CASE Taken /\ Goto("accept") /\ UNCHANGED excuses
  <2>1. accepted' = [accepted EXCEPT ![n] = accepted[n] + 1] BY <1>1, <1>6 DEF Taken
  <2>2. excuses' = [excuses EXCEPT ![n] = excuses[n] + 0] BY <1>5, <1>6
  <2> QED BY <1>4, <1>6, <2>1, <2>2
<1>7. CASE Goto(failed) /\ UNCHANGED sent
  <2>1. accepted' = [accepted EXCEPT ![n] = accepted[n] + 0] BY <1>5, <1>7 DEF sent
  <2>2. excuses' = [excuses EXCEPT ![n] = excuses[n] + 0] BY <1>5, <1>7 DEF sent
  <2> QED BY <1>4, <1>7, <2>1, <2>2
<1>8. CASE Goto(failed) /\ Taken /\ excuses' = [excuses EXCEPT ![Cur] = @ + 1]
  <2>1. accepted' = [accepted EXCEPT ![n] = accepted[n] + 1] BY <1>1, <1>8 DEF Taken
  <2>2. excuses' = [excuses EXCEPT ![n] = excuses[n] + 1] BY <1>1, <1>8
  <2>3. 1 \in {0, 1} /\ 1 <= 1 /\ failed \in {"accept", "send", "fail"} /\ failed # "accept"
    OBVIOUS
  <2>4. Goto(failed) BY <1>8
  <2> QED BY <1>4, <2>1, <2>2, <2>3, <2>4
<1> QED BY <1>6, <1>7, <1>8 DEF Provider

LEMMA RecordAcceptedSends == ASSUME SendInv, RecordAccepted PROVE SendInv'
<1>1. worker.pc = "accept" /\ UNCHANGED <<accepted, excuses>> BY DEF RecordAccepted, At, sent
<1>2. PICK n \in DOMAIN rows : n = Cur BY <1>1, AtRow
<1> DEFINE r == [rows[n] EXCEPT !.status = "provider_accepted"]
<1>3. rows' = [rows EXCEPT ![n] = r] BY <1>2 DEF RecordAccepted, Status
<1>4. r \in GoodRow /\ r.status = "provider_accepted" BY <1>1, <1>2, AtRow, RowUpdates DEF Statuses
<1> HIDE DEF r
<1>5. Leaves(n, "provider_accepted", accepted[n], excuses[n]) BY <1>1, <1>3, <1>4, LeavesRow
<1>6. /\ accepted[n] > 0 /\ accepted[n] <= excuses[n] + 1
      /\ accepted[n] \in Nat /\ excuses[n] \in Nat
  BY <1>1, <1>2, AtRow DEF Stage, Cleared
<1>7. /\ Stage("success", "provider_accepted")
      /\ Cleared("success", "provider_accepted", accepted[n], excuses[n])
  BY <1>6 DEF Stage, Cleared
<1>8. "success" \in Phases \ {"idle"} /\ Goto("success") BY DEF Phases, RecordAccepted
<1> QED BY <1>1, <1>2, <1>5, <1>7, <1>8, AtRow, Goes, StaysKeeps

LEMMA RecordFailedSends == ASSUME SendInv, RecordFailed PROVE SendInv'
<1>1. worker.pc = "fail" /\ UNCHANGED <<accepted, excuses>> BY DEF RecordFailed, At, sent
<1>2. PICK n \in DOMAIN rows : n = Cur BY <1>1, AtRow
<1>3. PICK st \in {"failed", "exhausted"} :
        st = IF Exhausted(rows[Cur].attempts) THEN "exhausted" ELSE "failed"
  OBVIOUS
<1> DEFINE r == [rows[n] EXCEPT !.status = st, !.due = FALSE]
<1>4. rows' = [rows EXCEPT ![n] = r] BY <1>2, <1>3 DEF RecordFailed, StatusAndDue
<1>5. st = "failed" => rows[n].attempts < MaxAttempts
  <2>1. rows[n].attempts \in 0..MaxAttempts /\ MaxAttempts \in Nat
    BY <1>1, <1>2, AtRow, LimitAssumption DEF GoodRow, Row
  <2> QED BY <1>2, <1>3, <2>1 DEF Exhausted
<1>6. r \in GoodRow /\ r.status = st
  <2>1. rows[n] \in GoodRow /\ st \in Statuses BY <1>1, <1>2, AtRow DEF Statuses
  <2>2. st \in {"pending", "failed"} => rows[n].attempts < MaxAttempts BY <1>5
  <2> QED BY <2>1, <2>2, RowUpdates
<1> HIDE DEF r
<1>7. Leaves(n, st, accepted[n], excuses[n]) BY <1>1, <1>4, <1>6, LeavesRow
<1>8. accepted[n] <= excuses[n] /\ accepted[n] \in Nat /\ excuses[n] \in Nat
  BY <1>1, <1>2, AtRow DEF Cleared
<1>9. Cleared("idle", st, accepted[n], excuses[n]) BY <1>8 DEF Cleared
<1> QED BY <1>1, <1>2, <1>7, <1>9, AtRow, AdvanceKeeps DEF RecordFailed

LEMMA CallFailsSends == ASSUME SendInv, CallFails PROVE SendInv'
<1>1. UNCHANGED rows BY DEF CallFails, queue
<1>2. CASE worker.pc # "idle" /\ Advance /\ UNCHANGED sent BY <1>1, <1>2, AdvancesOn DEF sent
<1>3. CASE worker.pc = "bot" /\ Goto("fail") /\ UNCHANGED sent
  <2>1. /\ Stage("fail", rows[Cur].status)
        /\ Cleared("fail", rows[Cur].status, accepted[Cur], excuses[Cur])
    BY <1>3, AtRow DEF Stage, Cleared
  <2> QED BY <1>1, <1>3, <2>1, MovesOn DEF Phases, sent
<1>4. CASE /\ worker.pc \in {"accept", "success"} /\ Goto("fail")
           /\ excuses' = [excuses EXCEPT ![Cur] = @ + 1] /\ UNCHANGED accepted
  <2>1. PICK n \in DOMAIN rows : n = Cur BY <1>4, AtRow
  <2>2. accepted \in [Ids -> Nat] /\ n \in Ids BY <2>1 DEF SendInv, SendTyped
  <2>3. /\ accepted' = [accepted EXCEPT ![n] = accepted[n] + 0]
        /\ excuses' = [excuses EXCEPT ![n] = excuses[n] + 1]
    BY <1>4, <2>1, <2>2
  <2>4. Leaves(n, rows[n].status, accepted[n] + 0, excuses[n] + 1) BY <1>1, <2>3, Counts
  <2>5. /\ accepted[n] \in Nat /\ excuses[n] \in Nat /\ accepted[n] <= excuses[n] + 1
    BY <1>4, <2>1, AtRow DEF Cleared
  <2>6. ASSUME NEW a \in Nat, NEW x \in Nat, a <= x + 1, NEW st
        PROVE  Cleared("fail", st, a + 0, x + 1)
    BY <2>6 DEF Cleared
  <2>7. Cleared("fail", rows[n].status, accepted[n] + 0, excuses[n] + 1) BY <2>5, <2>6
  <2>8. Stage("fail", rows[n].status) /\ "fail" \in Phases \ {"idle"} BY DEF Stage, Phases
  <2> QED BY <1>4, <2>1, <2>4, <2>7, <2>8, AtRow, Goes, StaysKeeps
<1> QED BY <1>2, <1>3, <1>4 DEF CallFails, At

\* The worker holds nothing, or a list whose rows all wait.
LEMMA FreshList ==
  ASSUME SendInv, UNCHANGED <<rows, accepted, excuses>>,
         worker' \in [pc : {"idle", "user"}, list : Seq(Ids), addr : Addresses \cup {Nowhere}],
         worker'.pc = "idle" <=> worker'.list = <<>>,
         \A i, j \in DOMAIN worker'.list : worker'.list[i] = worker'.list[j] => i = j,
         \A i \in DOMAIN worker'.list : Waiting(worker'.list[i])
  PROVE  SendInv'
<1>1. SendTyped'
  <2>1. worker' \in [pc : Phases, list : Seq(Ids), addr : Addresses \cup {Nowhere}] BY DEF Phases
  <2> QED BY <2>1 DEF SendInv, SendTyped
<1>2. worker'.list # <<>> => Cur' = worker'.list[1] /\ 1 \in DOMAIN worker'.list BY DEF Cur
<1>3. worker'.list # <<>> => Stage(worker'.pc, rows'[Cur'].status)
  BY <1>2 DEF Stage, Waiting
<1>4. Listed' BY <1>3 DEF Listed, Waiting
<1>5. ASSUME NEW d \in Ids PROVE OnceFor(d)'
  <2>1. OnceFor(d) /\ accepted[d] \in Nat /\ excuses[d] \in Nat BY DEF SendInv, Once, SendTyped
  <2>2. StageOf(d)' \in {"idle", "user"} BY DEF StageOf
  <2>3. d \in DOMAIN rows => Cleared("idle", rows[d].status, accepted[d], excuses[d])
    BY <2>1, Left DEF OnceFor
  <2>4. d \in DOMAIN rows => Cleared(StageOf(d)', rows[d].status, accepted[d], excuses[d])
    BY <2>2, <2>3 DEF Cleared
  <2> QED BY <2>1, <2>4 DEF OnceFor
<1> QED BY <1>1, <1>4, <1>5 DEF SendInv, Once

LEMMA RestartSends == ASSUME SendInv, Restart PROVE SendInv'
<1>1. worker' = Resting /\ UNCHANGED <<rows, accepted, excuses>> BY DEF Restart, queue, sent
<1>2. worker' \in [pc : {"idle", "user"}, list : Seq(Ids), addr : Addresses \cup {Nowhere}]
  BY <1>1 DEF Resting
<1>3. worker'.pc = "idle" /\ worker'.list = <<>> /\ DOMAIN worker'.list = {}
  <2>1. DOMAIN <<>> = {} OBVIOUS
  <2> QED BY <1>1, <2>1, RestingIs
<1> QED BY <1>1, <1>2, <1>3, FreshList

LEMMA ListIs ==
  ASSUME NEW S, NEW n \in Nat \ {0}, NEW q \in [1..n -> S]
  PROVE  q \in Seq(S) /\ DOMAIN q = 1..n /\ q # <<>>
<1>1. q \in Seq(S) /\ DOMAIN q = 1..n OBVIOUS
<1>2. 1 \in DOMAIN q BY <1>1
<1>3. DOMAIN <<>> = {} OBVIOUS
<1> QED BY <1>1, <1>2, <1>3

LEMMA DrainSends == ASSUME SendInv, Drain PROVE SendInv'
<1> DEFINE D == {d \in DOMAIN rows : Due(d)}
<1>1. PICK n \in 1..Batch : \E list \in [1..n -> D] :
        FirstDue(list) /\ worker' = [pc |-> "user", list |-> list, addr |-> Nowhere]
  BY DEF Drain
<1>2. PICK list \in [1..n -> D] :
        FirstDue(list) /\ worker' = [pc |-> "user", list |-> list, addr |-> Nowhere]
  BY <1>1
<1>3. n \in Nat \ {0} BY LimitAssumption
<1>4. list \in Seq(D) /\ DOMAIN list = 1..n /\ list # <<>> BY <1>3, ListIs
<1>5. D \subseteq Ids BY DEF SendInv, SendTyped
<1>6. list \in Seq(Ids)
  <2>1. list \in [1..n -> Ids] BY <1>5
  <2> QED BY <1>3, <2>1, ListIs
<1>7. \A i \in DOMAIN list : Waiting(list[i]) /\ rows[list[i]].createdAt \in Nat
  <2>1. ASSUME NEW i \in DOMAIN list PROVE Waiting(list[i]) /\ rows[list[i]].createdAt \in Nat
    <3>1. list[i] \in DOMAIN rows /\ Due(list[i]) BY <1>4, <2>1
    <3>2. rows[list[i]] \in Row BY <3>1 DEF SendInv, SendTyped, GoodRow
    <3> QED BY <3>1, <3>2 DEF Waiting, Due, Row
  <2> QED BY <2>1
<1>8. \A i, j \in DOMAIN list : list[i] = list[j] => i = j
  <2> SUFFICES ASSUME NEW i \in DOMAIN list, NEW j \in DOMAIN list, list[i] = list[j] PROVE i = j
    OBVIOUS
  <2>1. ~(i < j) /\ ~(j < i) BY <1>2, <1>7 DEF FirstDue, Older
  <2>2. i \in Nat /\ j \in Nat BY <1>3, <1>4
  <2> QED BY <2>1, <2>2
<1> HIDE DEF D
<1>9. worker'.pc = "user" /\ worker'.list = list BY <1>2
<1>10. worker' \in [pc : {"idle", "user"}, list : Seq(Ids), addr : Addresses \cup {Nowhere}]
  BY <1>2, <1>6
<1>11. UNCHANGED <<rows, accepted, excuses>> BY DEF Drain, queue, sent
<1> QED BY <1>4, <1>7, <1>8, <1>9, <1>10, <1>11, FreshList

\* The worker, the counts and what its rows say stay; a row may be added.
LEMMA RowsKeep ==
  ASSUME SendInv, UNCHANGED <<worker, accepted, excuses>>,
         DOMAIN rows' \subseteq Ids, IsFiniteSet(DOMAIN rows'), rows' \in [DOMAIN rows' -> GoodRow],
         DOMAIN rows \subseteq DOMAIN rows',
         \A d \in DOMAIN rows : rows'[d].status = rows[d].status,
         \A d \in DOMAIN rows' : d \notin DOMAIN rows => rows'[d].status = "pending"
  PROVE  SendInv'
<1>1. SendTyped' BY DEF SendInv, SendTyped
<1>2. Cur' = Cur /\ (worker.list # <<>> => Cur \in DOMAIN rows) BY HeadOf DEF Cur
<1>3. Listed' BY <1>2 DEF SendInv, Listed, Waiting
<1>4. ASSUME NEW d \in Ids PROVE OnceFor(d)'
  <2>1. OnceFor(d) /\ accepted[d] \in Nat /\ excuses[d] \in Nat BY DEF SendInv, Once, SendTyped
  <2>2. StageOf(d)' = StageOf(d) BY <1>2 DEF StageOf
  <2>3. CASE d \in DOMAIN rows \/ d \notin DOMAIN rows' BY <2>1, <2>2, <2>3 DEF OnceFor
  <2>4. CASE d \notin DOMAIN rows /\ d \in DOMAIN rows'
    <3>1. StageOf(d)' = "idle" BY <1>2, <2>4 DEF StageOf
    <3>2. accepted[d] <= excuses[d] BY <2>1, <2>4 DEF OnceFor
    <3>3. Cleared("idle", "pending", accepted[d], excuses[d]) BY <2>1, <3>2 DEF Cleared, Settled
    <3> QED BY <2>4, <3>1, <3>3 DEF OnceFor
  <2> QED BY <2>3, <2>4
<1> QED BY <1>1, <1>3, <1>4 DEF SendInv, Once

LEMMA BackoffSends == ASSUME SendInv, NEW d \in Ids, BackoffElapses(d) PROVE SendInv'
<1>1. /\ d \in DOMAIN rows /\ rows' = [rows EXCEPT ![d].due = TRUE]
      /\ UNCHANGED <<worker, accepted, excuses>>
  BY DEF BackoffElapses, sent
<1>2. PICK r \in GoodRow : r.status = rows[d].status /\ rows' = [rows EXCEPT ![d] = r]
  <2> DEFINE b == [rows[d] EXCEPT !.due = TRUE]
  <2>1. rows[d] \in Row /\ rows[d] \in GoodRow BY <1>1 DEF SendInv, SendTyped, GoodRow
  <2>2. b \in Row /\ b.status = rows[d].status /\ b.attempts = rows[d].attempts BY <2>1 DEF Row
  <2>3. rows' = [rows EXCEPT ![d] = b] BY <1>1
  <2> HIDE DEF b
  <2>4. b \in GoodRow BY <2>1, <2>2 DEF GoodRow
  <2> QED BY <2>2, <2>3, <2>4
<1>3. DOMAIN rows' = DOMAIN rows /\ rows' \in [DOMAIN rows -> GoodRow]
      /\ \A g \in DOMAIN rows : rows'[g].status = rows[g].status
  BY <1>1, <1>2 DEF SendInv, SendTyped
<1>4. DOMAIN rows \subseteq Ids /\ IsFiniteSet(DOMAIN rows) BY DEF SendInv, SendTyped
<1> QED BY <1>1, <1>3, <1>4, RowsKeep

LEMMA QueueSends ==
  ASSUME SendInv, NEW e \in Events, NEW u \in Users, NEW c \in Channels, QueueDelivery(e, u, c),
         <<e, u, c>> \notin DOMAIN rows
  PROVE  SendInv'
<1>1. rows' = Inserted(<<e, u, c>>) /\ UNCHANGED <<worker, accepted, excuses>>
  BY DEF QueueDelivery, sent
<1>2. PICK d \in Ids : d = <<e, u, c>> BY DEF Ids
<1>3. PICK k \in Nat : k = Cardinality(DOMAIN rows) BY FS_CardinalityType DEF SendInv, SendTyped
<1>4. PICK r \in GoodRow : r = [status |-> "pending", attempts |-> 0, due |-> TRUE, createdAt |-> k]
                            /\ r.status = "pending"
  <2> DEFINE b == [status |-> "pending", attempts |-> 0, due |-> TRUE, createdAt |-> k]
  <2>1. 0 \in 0..MaxAttempts /\ 0 < MaxAttempts BY LimitAssumption
  <2>2. b \in Row /\ b.status = "pending" /\ b.attempts = 0 BY <2>1 DEF Row
  <2> HIDE DEF b
  <2>3. b \in GoodRow BY <2>1, <2>2 DEF GoodRow
  <2> QED BY <2>2, <2>3 DEF b
<1>5. rows' = [g \in DOMAIN rows \cup {d} |-> IF g = d THEN r ELSE rows[g]]
  BY <1>1, <1>2, <1>3, <1>4 DEF Inserted
<1>6. DOMAIN rows \subseteq Ids /\ IsFiniteSet(DOMAIN rows) /\ rows \in [DOMAIN rows -> GoodRow]
  BY DEF SendInv, SendTyped
<1>7. DOMAIN rows' = DOMAIN rows \cup {d} BY <1>5
<1>8. IsFiniteSet(DOMAIN rows') BY <1>6, <1>7, FS_AddElement
<1>9. rows' \in [DOMAIN rows' -> GoodRow] BY <1>4, <1>5, <1>6, <1>7
<1>10. \A g \in DOMAIN rows : rows'[g].status = rows[g].status BY <1>2, <1>5
<1>11. \A g \in DOMAIN rows' : g \notin DOMAIN rows => rows'[g].status = "pending"
  BY <1>4, <1>5, <1>7
<1> QED BY <1>1, <1>6, <1>7, <1>8, <1>9, <1>10, <1>11, RowsKeep

\* The steps that do not concern the worker.
Aside == UNCHANGED <<rows, worker, accepted, excuses>>

LEMMA AsideSends == ASSUME SendInv, Aside PROVE SendInv'
<1>1. UNCHANGED <<rows, worker, accepted, excuses>> BY DEF Aside
<1>2. SendTyped' BY <1>1 DEF SendInv, SendTyped
<1>3. Listed' BY <1>1 DEF SendInv, Listed, Waiting, Cur
<1>4. Once' BY <1>1 DEF SendInv, Once, OnceFor, StageOf, Cur
<1> QED BY <1>2, <1>3, <1>4 DEF SendInv

LEMMA AsideIs ==
  /\ EngineFlips \/ Watch \/ WindowEnds \/ PeopleAct => Aside
  /\ \A r \in Requests : RequestStep(r) => Aside
  /\ \A e \in Events :
       /\ DispatchFails(e) => Aside
       /\ Dispatch(e) => Aside \/ \E u \in Users, c \in Channels : QueueDelivery(e, u, c)
<1>1. EngineFlips \/ Watch \/ WindowEnds => Aside
  BY DEF EngineFlips, Watch, WindowEnds, queue, sent, Aside
<1>2. PeopleAct => Aside
  BY DEF PeopleAct, SetActive, SetPreference, Disconnect, ConnectTelegram, TestEmail, ConnectEmail,
         queue, sent, Aside
<1>3. \A r \in Requests : RequestStep(r) => Aside
  BY DEF RequestStep, ResolveForTest, SendTest, MarkVerified, queue, sent, Aside
<1>4. \A e \in Events : DispatchFails(e) => Aside BY DEF DispatchFails, queue, sent, Aside
<1>5. ASSUME NEW e \in Events, Dispatch(e)
      PROVE  Aside \/ \E u \in Users, c \in Channels : QueueDelivery(e, u, c)
  <2>1. CASE Resolve(e) \/ ReadPreferences(e) \/ NextUser(e) \/ DispatchEnds(e)
    BY <2>1 DEF Resolve, ReadPreferences, NextUser, DispatchEnds, queue, sent, Aside
  <2>2. CASE \E u \in Users : SkipUser(e, u) \/ CreateInApp(e, u)
    BY <2>2 DEF SkipUser, CreateInApp, queue, sent, Aside
  <2> QED BY <1>5, <2>1, <2>2 DEF Dispatch
<1> QED BY <1>1, <1>2, <1>3, <1>4, <1>5

\* The steps of the worker and what befalls it keep the rows there are, and touch
\* neither the dispatcher nor people.
Served == /\ WorkerStep \/ CallFails \/ \E d \in Ids : BackoffElapses(d)

LEMMA ServedIs ==
  ASSUME Served
  PROVE  UNCHANGED <<log, disp, account, prefs, chan>> /\ DOMAIN rows' = DOMAIN rows
<1>1. CASE WorkerStep
  BY <1>1 DEF WorkerStep, Drain, ReadUser, ReadDestination, MarkSending, FindBot, SendPhoto, Send,
       RecordAccepted, RecordSuccess, RecordFailed, Cancel, Status, StatusAndDue, sys, people, queue
<1>2. CASE CallFails BY <1>2 DEF CallFails, sys, people, queue
<1>3. CASE \E d \in Ids : BackoffElapses(d) BY <1>3 DEF BackoffElapses, sys, people
<1> QED BY <1>1, <1>2, <1>3 DEF Served

----------------------------------------------------------------------------
(* Consent.                                                                 *)

Registered == chan \in Connections /\ account \in [Users -> BOOLEAN]

LEMMA RegisteredInit == Init => Registered
<1> SUFFICES ASSUME Init PROVE Registered OBVIOUS
<1>1. PICK on \in [Users -> {FirstAddress, Nowhere}] :
        chan = [u \in Users |-> [c \in Channels |->
                 [addr |-> on[u], verified |-> on[u] # Nowhere]]]
  BY DEF Init
<1>2. \A u \in Users : on[u] \in Addresses \cup {Nowhere} BY AddressAssumption
<1>3. chan \in Connections BY <1>1, <1>2 DEF Connections
<1> QED BY <1>3 DEF Init, Registered

LEMMA RegisteredRests == ASSUME Registered, UNCHANGED <<chan, account>> PROVE Registered'
BY DEF Registered

LEMMA Connects ==
  ASSUME Registered, UNCHANGED account, NEW u, NEW c,
         NEW v \in [addr : Addresses \cup {Nowhere}, verified : BOOLEAN],
         chan' = [chan EXCEPT ![u][c] = v]
  PROVE  Registered'
BY DEF Registered, Connections

LEMMA RegisteredPeople == ASSUME Registered, PeopleAct PROVE Registered'
<1>1. ASSUME NEW u \in Users, SetActive(u) PROVE Registered'
  BY <1>1 DEF SetActive, Registered
<1>2. ASSUME NEW u \in Users, NEW k \in Keys, SetPreference(u, k) PROVE Registered'
  BY <1>2, RegisteredRests DEF SetPreference
<1>6. ASSUME NEW u \in Users, NEW r \in Requests, TestEmail(r, u) PROVE Registered'
  BY <1>6, RegisteredRests DEF TestEmail
<1>3. ASSUME NEW u \in Users, NEW c \in Channels, Disconnect(u, c) PROVE Registered'
  <2>1. Gone \in [addr : Addresses \cup {Nowhere}, verified : BOOLEAN] BY DEF Gone
  <2>2. chan' = [chan EXCEPT ![u][c] = Gone] /\ UNCHANGED account BY <1>3 DEF Disconnect
  <2> QED BY <2>1, <2>2, Connects
<1>4. ASSUME NEW u \in Users, NEW a \in Addresses, ConnectTelegram(u, a) PROVE Registered'
  <2>1. [addr |-> a, verified |-> TRUE] \in [addr : Addresses \cup {Nowhere}, verified : BOOLEAN]
    OBVIOUS
  <2>2. chan' = [chan EXCEPT ![u]["telegram"] = [addr |-> a, verified |-> TRUE]] /\ UNCHANGED account
    BY <1>4 DEF ConnectTelegram
  <2> QED BY <2>1, <2>2, Connects
<1>5. ASSUME NEW r \in Requests, NEW u \in Users, NEW a \in Addresses, ConnectEmail(r, u, a)
      PROVE  Registered'
  <2>1. [addr |-> a, verified |-> FALSE] \in [addr : Addresses \cup {Nowhere}, verified : BOOLEAN]
    OBVIOUS
  <2>2. chan' = [chan EXCEPT ![u]["email"] = [addr |-> a, verified |-> FALSE]] /\ UNCHANGED account
    BY <1>5 DEF ConnectEmail
  <2> QED BY <2>1, <2>2, Connects
<1> QED BY <1>1, <1>2, <1>3, <1>4, <1>5, <1>6, Zenon DEF PeopleAct

LEMMA RegisteredRequest == ASSUME Registered, NEW r \in Requests, RequestStep(r) PROVE Registered'
<1>1. CASE ResolveForTest(r) \/ SendTest(r)
  BY <1>1, RegisteredRests DEF ResolveForTest, SendTest
<1>2. CASE MarkVerified(r)
  <2>1. PICK u : u = tests[r].user OBVIOUS
  <2>2. PICK b \in BOOLEAN : b = (chan[u]["email"].verified \/ chan[u]["email"].addr # Nowhere)
    OBVIOUS
  <2>3. chan' = [chan EXCEPT ![u]["email"].verified = b] /\ UNCHANGED account
    BY <1>2, <2>1, <2>2 DEF MarkVerified
  <2>4. CASE u \in Users /\ "email" \in Channels
    <3> DEFINE v == [chan[u]["email"] EXCEPT !.verified = b]
    <3>1. chan[u]["email"] \in [addr : Addresses \cup {Nowhere}, verified : BOOLEAN]
      BY <2>4 DEF Registered, Connections
    <3>2. v \in [addr : Addresses \cup {Nowhere}, verified : BOOLEAN] BY <3>1
    <3>3. chan' = [chan EXCEPT ![u]["email"] = v] BY <2>3
    <3> HIDE DEF v
    <3> QED BY <2>3, <3>2, <3>3, Connects
  <2>5. CASE ~(u \in Users /\ "email" \in Channels)
    <3>1. \A w \in Users : chan'[w] \in [Channels -> [addr : Addresses \cup {Nowhere}, verified : BOOLEAN]]
      BY <2>3, <2>5 DEF Registered, Connections
    <3>2. chan' = [w \in Users |-> chan'[w]] BY <2>3 DEF Registered, Connections
    <3>3. chan' \in Connections BY <3>1, <3>2 DEF Connections
    <3> QED BY <2>3, <3>3 DEF Registered
  <2> QED BY <2>4, <2>5
<1> QED BY <1>1, <1>2 DEF RequestStep

LEMMA RegisteredRun ==
  ASSUME Registered, \/ EngineFlips \/ Watch \/ WindowEnds \/ Restart
                     \/ \E e \in Events : Dispatch(e) \/ DispatchFails(e)
  PROVE  Registered'
<1>1. UNCHANGED <<chan, account>>
  <2>1. CASE EngineFlips \/ Watch \/ WindowEnds \/ Restart
    BY <2>1 DEF EngineFlips, Watch, WindowEnds, Restart, people
  <2>2. ASSUME NEW e \in Events, Dispatch(e) PROVE UNCHANGED <<chan, account>>
    BY <2>2 DEF Dispatch, Resolve, ReadPreferences, NextUser, DispatchEnds, SkipUser, CreateInApp,
                QueueDelivery, people
  <2>3. ASSUME NEW e \in Events, DispatchFails(e) PROVE UNCHANGED <<chan, account>>
    BY <2>3 DEF DispatchFails, people
  <2> QED BY <2>1, <2>2, <2>3
<1> QED BY <1>1, RegisteredRests

\* What was known of the delivery is still known, with what holds after the step.
LEMMA Gathered ==
  ASSUME Track, worker'.list # <<>>, worker'.list = worker.list
  PROVE  /\ since.active \subseteq since'.active /\ since.dest \subseteq since'.dest
         /\ Standing(Cur).active \subseteq since'.active /\ Standing(Cur).dest \subseteq since'.dest
<1>1. since' = [f \in DOMAIN Unknown |-> Standing(Cur)[f] \cup since[f]] BY DEF Track, Cur
<1>2. DOMAIN Unknown = {"active", "wants", "dest"} BY DEF Unknown
<1>3. /\ since'["active"] = Standing(Cur)["active"] \cup since["active"]
      /\ since'["dest"] = Standing(Cur)["dest"] \cup since["dest"]
  BY <1>1, <1>2
<1> QED BY <1>3

\* The worker stays with its delivery, and claims no more than it has seen.
LEMMA ConsentStays ==
  ASSUME SendInv, Consent, Track, worker'.list = worker.list, worker'.addr = worker.addr,
         worker'.pc = "idle" <=> worker.pc = "idle",
         worker'.pc \in {"dest", "mark", "bot", "photo", "send"}
           => worker.pc \in {"dest", "mark", "bot", "photo", "send"},
         worker'.pc \in {"mark", "bot", "photo", "send"}
           => worker.pc \in {"mark", "bot", "photo", "send"}
  PROVE  Consent'
<1>1. CASE worker.pc = "idle" BY <1>1 DEF Consent
<1>2. CASE worker.pc # "idle"
  <2>1. worker.list # <<>> BY <1>2 DEF SendInv, Listed
  <2>2. since.active \subseteq since'.active /\ since.dest \subseteq since'.dest BY <2>1, Gathered
  <2> QED BY <2>2 DEF Consent
<1> QED BY <1>1, <1>2

LEMMA ConsentGoes ==
  ASSUME SendInv, Consent, Track, worker.pc # "idle", NEW p \in Phases \ {"idle"}, Goto(p),
         p \in {"dest", "mark", "bot", "photo", "send"}
           => worker.pc \in {"dest", "mark", "bot", "photo", "send"},
         p \in {"mark", "bot", "photo", "send"}
           => worker.pc \in {"mark", "bot", "photo", "send"}
  PROVE  Consent'
BY Goes, ConsentStays

\* A delivery is taken up, or the list is finished.
LEMMA ConsentAnew == ASSUME worker'.pc \in {"idle", "user"} PROVE Consent'
BY DEF Consent

LEMMA ConsentAdvances == ASSUME Advance PROVE Consent'
<1>1. worker'.pc \in {"idle", "user"} BY DEF Advance, Resting
<1> QED BY <1>1, ConsentAnew

LEMMA ConsentServed == ASSUME SendInv, Registered, Consent, Track, Served PROVE Consent'
<1>1. UNCHANGED <<log, account, chan>> BY ServedIs
<1>2. CASE Advance BY <1>2, ConsentAdvances
<1>3. CASE Drain
  <2>1. worker'.pc = "user" BY <1>3 DEF Drain
  <2> QED BY <2>1, ConsentAnew
<1>4. CASE ReadUser
  <2>1. worker.pc = "user" BY <1>4 DEF ReadUser, At
  <2>2. CASE account[User(Cur)] /\ Goto("dest")
    <3>1. worker'.pc = "dest" /\ worker'.list = worker.list /\ worker.list # <<>>
      BY <2>1, <2>2, AtRow, Goes DEF Phases
    <3>2. TRUE \in Standing(Cur).active BY <1>1, <2>2 DEF Standing
    <3>3. since'.active # {} BY <3>1, <3>2, Gathered
    <3> QED BY <3>1, <3>3 DEF Consent
  <2> QED BY <1>2, <1>4, <2>2 DEF ReadUser, Cancel
<1>5. CASE ReadDestination
  <2>1. worker.pc = "dest" BY <1>5 DEF ReadDestination, At
  <2>2. PICK d \in Ids : d = Cur BY <2>1, AtRow
  <2>3. PICK a : a = Destination(User(d), Channel(d)) OBVIOUS
  <2>4. CASE a # Nowhere /\ worker' = [worker EXCEPT !.pc = "mark", !.addr = a]
    <3>1. worker'.pc = "mark" /\ worker'.list = worker.list /\ worker'.addr = a
      BY <2>4 DEF SendInv, SendTyped
    <3>2. a \in Addresses /\ chan[User(d)][Channel(d)] = [addr |-> a, verified |-> TRUE]
      BY <2>3, <2>4, DestinationIs DEF Registered
    <3>3. a \in Standing(Cur).dest BY <1>1, <2>2, <3>2 DEF Standing
    <3>4. worker.list # <<>> BY <2>1, AtRow
    <3>5. a \in since'.dest /\ since.active \subseteq since'.active BY <3>1, <3>3, <3>4, Gathered
    <3> QED BY <2>1, <3>1, <3>5 DEF Consent
  <2> QED BY <1>2, <1>5, <2>2, <2>3, <2>4 DEF ReadDestination, Cancel
<1>6. CASE MarkSending
  <2>1. worker.pc = "mark" BY <1>6 DEF MarkSending, At
  <2>2. PICK p \in {"bot", "send"} : Goto(p) BY <1>6 DEF MarkSending
  <2> QED BY <2>1, <2>2, ConsentGoes DEF Phases
<1>7. CASE FindBot
  <2>1. worker.pc = "bot" BY <1>7 DEF FindBot, At
  <2>2. ASSUME NEW p \in {"photo", "send"}, Goto(p) PROVE Consent'
    BY <2>1, <2>2, ConsentGoes DEF Phases
  <2> QED BY <1>2, <1>7, <2>2 DEF FindBot, Cancel
<1>8. CASE SendPhoto \/ Send
  <2>1. worker.pc \in {"photo", "send"} BY <1>8 DEF SendPhoto, Send, At
  <2>2. PICK p \in {"accept", "send", "fail"} : Goto(p)
    BY <1>8 DEF SendPhoto, Send, Provider
  <2> QED BY <2>1, <2>2, ConsentGoes DEF Phases
<1>9. CASE RecordAccepted
  BY <1>9, ConsentGoes DEF RecordAccepted, At, Phases
<1>10. CASE CallFails
  <2>1. CASE worker.pc # "idle" /\ Goto("fail") BY <2>1, ConsentGoes DEF Phases
  <2> QED BY <1>2, <1>10, <2>1 DEF CallFails, At
<1>11. CASE \E d \in Ids : BackoffElapses(d)
  <2>1. UNCHANGED worker BY <1>11 DEF BackoffElapses
  <2> QED BY <2>1, ConsentStays
<1> QED BY <1>2, <1>3, <1>4, <1>5, <1>6, <1>7, <1>8, <1>9, <1>10, <1>11
     DEF Served, WorkerStep, RecordSuccess, RecordFailed

----------------------------------------------------------------------------
(* The invariant of the specification.                                      *)

NotifyInv == Dispatching /\ SendInv /\ Registered /\ Consent

LEMMA NotifyInit == Init => NotifyInv
<1>1. Init => Consent BY RestingIs DEF Init, Consent
<1> QED BY <1>1, DispatchingInit, SendInit, RegisteredInit DEF NotifyInv

LEMMA DispatchingPeople == ASSUME Dispatching, PeopleAct PROVE Dispatching'
<1>1. UNCHANGED rows BY AsideIs DEF Aside
<1>2. ASSUME NEW u \in Users, NEW k \in Keys, SetPreference(u, k) PROVE Dispatching'
  <2>1. UNCHANGED <<log, disp>> BY <1>2 DEF SetPreference, sys
  <2>2. prefs' \in [Users -> [Keys -> SUBSET Surfaces]]
    <3>1. PICK C \in SUBSET Surfaces : C = IF prefs[u][k] = {} THEN Surfaces ELSE {} OBVIOUS
    <3>2. prefs' = [prefs EXCEPT ![u][k] = C] BY <1>2, <3>1 DEF SetPreference
    <3> QED BY <3>2 DEF Dispatching
  <2> QED BY <1>1, <2>1, <2>2, DispatchRests
<1>3. CASE UNCHANGED <<log, disp, prefs>> BY <1>1, <1>3, DispatchRests DEF Dispatching
<1>4. \A u \in Users : SetActive(u) => UNCHANGED <<log, disp, prefs>> BY DEF SetActive, sys
<1>5. \A u \in Users, c \in Channels : Disconnect(u, c) => UNCHANGED <<log, disp, prefs>>
  BY DEF Disconnect, sys
<1>6. \A u \in Users, a \in Addresses : ConnectTelegram(u, a) => UNCHANGED <<log, disp, prefs>>
  BY DEF ConnectTelegram, sys
<1>7. \A u \in Users, r \in Requests : TestEmail(r, u) => UNCHANGED <<log, disp, prefs>>
  BY DEF TestEmail, sys
<1>8. \A u \in Users, r \in Requests, a \in Addresses :
        ConnectEmail(r, u, a) => UNCHANGED <<log, disp, prefs>>
  BY DEF ConnectEmail, sys
<1> QED BY <1>2, <1>3, <1>4, <1>5, <1>6, <1>7, <1>8, Zenon DEF PeopleAct

\* A step that does not concern the worker.
LEMMA AsideKeeps == ASSUME SendInv, Consent, Aside, Track PROVE SendInv' /\ Consent'
<1>1. UNCHANGED worker BY DEF Aside
<1> QED BY <1>1, AsideSends, ConsentStays

LEMMA NotifyNext == NotifyInv /\ [Next]_vars => NotifyInv'
<1> SUFFICES ASSUME NotifyInv, [Next]_vars PROVE NotifyInv' OBVIOUS
<1> USE DEF NotifyInv
<1>1. CASE EngineFlips /\ Track
  <2>1. Aside BY <1>1, AsideIs
  <2>2. UNCHANGED <<log, disp, rows, prefs>> BY <1>1 DEF EngineFlips, people, queue
  <2>3. Dispatching' BY <2>2, DispatchRests DEF Dispatching
  <2> QED BY <1>1, <2>1, <2>3, AsideKeeps, RegisteredRun
<1>2. CASE Watch /\ Track
  <2>1. Aside BY <1>2, AsideIs
  <2> QED BY <1>2, <2>1, AsideKeeps, RegisteredRun, PublishKeeps
<1>3. CASE WindowEnds /\ Track
  <2>1. Aside BY <1>3, AsideIs
  <2>2. UNCHANGED <<log, disp, rows, prefs>> BY <1>3 DEF WindowEnds, people, queue
  <2>3. Dispatching' BY <2>2, DispatchRests DEF Dispatching
  <2> QED BY <1>3, <2>1, <2>3, AsideKeeps, RegisteredRun
<1>4. CASE PeopleAct /\ Track
  <2>1. Aside BY <1>4, AsideIs
  <2> QED BY <1>4, <2>1, AsideKeeps, DispatchingPeople, RegisteredPeople
<1>5. ASSUME Served, Track PROVE Consent' /\ Dispatching' /\ Registered'
  <2>1. UNCHANGED <<log, disp, account, prefs, chan>> /\ DOMAIN rows' = DOMAIN rows BY <1>5, ServedIs
  <2>2. Dispatching' BY <2>1, DispatchRests DEF Dispatching
  <2> QED BY <1>5, <2>1, <2>2, ConsentServed, RegisteredRests
<1>6. CASE WorkerStep /\ Track
  <2>1. ASSUME SendPhoto \/ Send PROVE SendInv'
    <3>1. PICK p \in {"send", "fail"} : Provider(p) BY <2>1 DEF SendPhoto, Send
    <3>2. worker.pc \in {"photo", "send"} /\ UNCHANGED rows BY <2>1 DEF SendPhoto, Send, At, queue
    <3> QED BY <3>1, <3>2, ProviderKeeps
  <2>2. ASSUME RecordSuccess PROVE SendInv'
    <3>1. worker.pc = "success" /\ Advance /\ UNCHANGED <<rows, accepted, excuses>>
      BY <2>2 DEF RecordSuccess, At, queue, sent
    <3> QED BY <3>1, AdvancesOn
  <2>3. SendInv'
    BY <1>6, <2>1, <2>2, DrainSends, ReadUserSends, ReadDestinationSends, MarkSendingSends,
       FindBotSends, RecordAcceptedSends, RecordFailedSends DEF WorkerStep, Registered
  <2> QED BY <1>5, <1>6, <2>3 DEF Served
<1>7. CASE CallFails /\ Track BY <1>5, <1>7, CallFailsSends DEF Served
<1>8. CASE Restart /\ Track
  <2>1. worker'.pc = "idle" BY <1>8, RestingIs DEF Restart
  <2> QED BY <1>8, <2>1, ConsentAnew, RestartSends, DispatchRestart, RegisteredRun
<1>9. ASSUME NEW e \in Events, Dispatch(e) \/ DispatchFails(e), Track PROVE NotifyInv'
  <2>1. Registered' BY <1>9, RegisteredRun
  <2>2. ASSUME NEW u \in Users, NEW c \in Channels, QueueDelivery(e, u, c) PROVE NotifyInv'
    <3>1. UNCHANGED worker BY <2>2 DEF QueueDelivery
    <3>2. Dispatching' /\ SendInv' BY <2>2, QueueKeeps, QueueSends
    <3>3. Consent' BY <1>9, <3>1, ConsentStays
    <3> QED BY <2>1, <3>2, <3>3
  <2>3. ASSUME \A u \in Users, c \in Channels : ~QueueDelivery(e, u, c) PROVE NotifyInv'
    <3>1. Aside BY <1>9, <2>3, AsideIs
    <3>2. Dispatching' BY <1>9, <2>3, DispatchSteps DEF Dispatch
    <3> QED BY <1>9, <2>1, <3>1, <3>2, AsideKeeps
  <2> QED BY <2>2, <2>3
<1>10. ASSUME NEW r \in Requests, RequestStep(r), Track PROVE NotifyInv'
  <2>1. Aside BY <1>10, AsideIs
  <2>2. UNCHANGED <<log, disp, rows, prefs>>
    BY <1>10 DEF RequestStep, ResolveForTest, SendTest, MarkVerified, sys, queue
  <2>3. Dispatching' BY <2>2, DispatchRests DEF Dispatching
  <2> QED BY <1>10, <2>1, <2>3, AsideKeeps, RegisteredRequest
<1>11. ASSUME NEW d \in Ids, BackoffElapses(d), Track PROVE NotifyInv'
  BY <1>5, <1>11, BackoffSends DEF Served
<1>12. CASE UNCHANGED vars
  <2>1. UNCHANGED <<rows, worker, accepted, excuses, since, log, disp, prefs, chan, account>>
    BY <1>12 DEF vars, sys, people, queue, sent
  <2>2. SendInv' BY <2>1, AsideSends DEF Aside
  <2>3. Dispatching' BY <2>1, DispatchRests DEF Dispatching
  <2>4. Consent' BY <2>1 DEF Consent
  <2> QED BY <2>1, <2>2, <2>3, <2>4, RegisteredRests
<1> QED BY <1>1, <1>2, <1>3, <1>4, <1>6, <1>7, <1>8, <1>9, <1>10, <1>11, <1>12 DEF Next

\* The invariant of the dispatcher, the worker and consent, for every behaviour: no
\* delivery is queued twice, and each row was taken as often as its status allows.
THEOREM NotifyInvariant == Spec => []NotifyInv
<1>1. Init => NotifyInv BY NotifyInit
<1>2. NotifyInv /\ [Next]_vars => NotifyInv' BY NotifyNext
<1> QED BY <1>1, <1>2, PTL DEF Spec

\* A provider takes a delivery at most once more than it has been excused, through
\* retries, restarts and failing records, and a settled row tells what became of it.
THEOREM SentOnceCorrect == Spec => []SentOnce
<1>1. ASSUME NotifyInv PROVE SentOnce
  <2>1. SUFFICES ASSUME NEW d \in Ids
                 PROVE  /\ accepted[d] <= 1 + excuses[d]
                        /\ d \in DOMAIN rows /\ rows[d].status \in Settled /\ excuses[d] = 0
                             => (rows[d].status = "provider_accepted" <=> accepted[d] > 0)
    BY DEF SentOnce
  <2>2. OnceFor(d) /\ accepted[d] \in Nat /\ excuses[d] \in Nat
    BY <1>1 DEF NotifyInv, SendInv, Once, SendTyped
  <2>3. CASE d \in DOMAIN rows BY <2>2, <2>3 DEF OnceFor, Cleared
  <2>4. CASE d \notin DOMAIN rows BY <2>2, <2>4 DEF OnceFor
  <2> QED BY <2>3, <2>4
<1> QED BY <1>1, NotifyInvariant, PTL

\* The worker sends only to somebody it has seen active, at an address that was
\* theirs and verified, since it took the delivery up, whatever people do meanwhile.
THEOREM SentWithConsentCorrect == Spec => []SentWithConsent
<1>1. NotifyInv => SentWithConsent BY DEF NotifyInv, Consent, SentWithConsent
<1> QED BY <1>1, NotifyInvariant, PTL

----------------------------------------------------------------------------
(* Type correctness.  An event needs an edge and an edge an act of the      *)
(* engine, so there are no more events than acts.                           *)

\* The watch is about to see an edge.
Pending == IF seen # "none" /\ seen # (IF up THEN "up" ELSE "down") THEN 1 ELSE 0

Counted ==
  /\ up \in BOOLEAN /\ enabled \in BOOLEAN /\ window \in BOOLEAN /\ upset \in BOOLEAN
  /\ seen \in {"none", "up", "down"}
  /\ acts \in 0..MaxActs /\ faults \in 0..MaxFaults
  /\ log \in Seq(Keys) /\ Len(log) + Pending <= acts

TestType == [pc : {"idle", "read", "send", "mark"}, user : Users, addr : Addresses \cup {Nowhere}]

EmailUsed == \A r \in Requests : tests[r].pc # "idle" => "email" \in Channels

Minor ==
  /\ tests \in [Requests -> TestType] /\ EmailUsed
  /\ notes \subseteq Events \X Users
  /\ Len(worker.list) <= Batch

LEMMA HistoryCounts ==
  ASSUME acts \in 0..MaxActs, faults \in 0..MaxFaults, upset \in BOOLEAN
  PROVE  /\ Act => acts' \in 0..MaxActs /\ acts' = acts + 1 /\ UNCHANGED <<faults, upset>>
         /\ \A b \in BOOLEAN :
              Fault(b) => faults' \in 0..MaxFaults /\ upset' \in BOOLEAN /\ UNCHANGED acts
<1>1. MaxActs \in Nat /\ MaxFaults \in Nat BY BoundAssumption
<1>2. Act => acts' \in 0..MaxActs /\ acts' = acts + 1 /\ UNCHANGED <<faults, upset>>
  BY <1>1 DEF Act
<1>3. ASSUME NEW b \in BOOLEAN, Fault(b)
      PROVE  faults' \in 0..MaxFaults /\ upset' \in BOOLEAN /\ UNCHANGED acts
  <2>1. upset' = (upset \/ b) /\ UNCHANGED acts /\ faults < MaxFaults /\ faults' = faults + 1
    BY <1>3 DEF Fault
  <2>2. upset' \in BOOLEAN BY <2>1
  <2>3. faults' \in 0..MaxFaults BY <1>1, <2>1
  <2> QED BY <2>1, <2>2, <2>3
<1> QED BY <1>2, <1>3

\* The engine, the watch and the bus rest.
LEMMA CountedRests ==
  ASSUME Counted, UNCHANGED <<up, enabled, seen, window, log>>,
         \/ Act \/ (\E b \in BOOLEAN : Fault(b)) \/ UNCHANGED <<acts, faults, upset>>
  PROVE  Counted'
<1>1. /\ acts' \in 0..MaxActs /\ faults' \in 0..MaxFaults /\ upset' \in BOOLEAN
      /\ acts' = acts \/ acts' = acts + 1
  BY HistoryCounts DEF Counted
<1>2. Pending' = Pending /\ Pending \in {0, 1} BY DEF Pending
<1>3. Len(log) \in Nat /\ acts \in Nat BY DEF Counted
<1>4. Len(log) + Pending <= acts BY DEF Counted
<1>5. Len(log) + Pending <= acts' BY <1>1, <1>2, <1>3, <1>4
<1> QED BY <1>1, <1>2, <1>5 DEF Counted

LEMMA CountedFlips == ASSUME Counted, EngineFlips PROVE Counted'
<1>1. Act /\ UNCHANGED <<seen, window, log>> BY DEF EngineFlips
<1>2. up' \in BOOLEAN /\ enabled' \in BOOLEAN BY DEF EngineFlips, Counted
<1>3. acts' \in 0..MaxActs /\ acts' = acts + 1 /\ UNCHANGED <<faults, upset>>
  BY <1>1, HistoryCounts DEF Counted
<1>4. Pending' \in {0, 1} /\ Pending \in {0, 1} BY DEF Pending
<1>5. Len(log) \in Nat /\ acts \in Nat /\ Len(log) + Pending <= acts BY DEF Counted
<1>6. Len(log) + Pending' <= acts' BY <1>3, <1>4, <1>5
<1> QED BY <1>1, <1>2, <1>3, <1>6 DEF Counted

LEMMA CountedWatch == ASSUME Counted, Watch PROVE Counted'
<1>1. UNCHANGED <<up, enabled, acts, faults, upset>> BY DEF Watch, hist
<1>2. PICK key : /\ Publish(key) /\ key \in Keys \cup {"no edge"}
                 /\ key = IF enabled THEN Edge(seen, seen') ELSE "no edge"
  BY DEF Watch, Edge, Keys
<1>3. /\ seen' \in {"none", "up", "down"}
      /\ seen' # "none" => seen' = IF up THEN "up" ELSE "down"
  BY DEF Watch, Counted
<1>4. Pending' = 0 BY <1>1, <1>3 DEF Pending
<1>5. key # "no edge" => Pending = 1 BY <1>2, <1>3 DEF Edge, Pending
<1>6. Pending \in {0, 1} BY DEF Pending
<1>7. log \in Seq(Keys) /\ acts \in Nat /\ Len(log) + Pending <= acts BY DEF Counted
<1>8. CASE UNCHANGED <<log, window>>
  <2>1. Len(log) + 0 <= acts BY <1>6, <1>7
  <2> QED BY <1>1, <1>3, <1>4, <1>8, <2>1 DEF Counted
<1>9. CASE key \in Keys /\ log' = Append(log, key) /\ window' = (window \/ key = "offline")
  <2>1. log' \in Seq(Keys) /\ Len(log') = Len(log) + 1 BY <1>7, <1>9
  <2>2. Pending = 1 BY <1>5, <1>9 DEF Keys
  <2>3. Len(log') + 0 <= acts
    <3>1. Len(log) \in Nat BY <1>7
    <3> QED BY <1>7, <2>1, <2>2, <3>1
  <2>4. window' \in BOOLEAN BY <1>9
  <2> QED BY <1>1, <1>3, <1>4, <2>1, <2>3, <2>4 DEF Counted
<1> QED BY <1>2, <1>8, <1>9 DEF Publish

LEMMA CountedRestart == ASSUME Counted, Restart PROVE Counted'
<1>1. Fault(TRUE) /\ seen' = "none" /\ window' = FALSE /\ UNCHANGED <<up, enabled, log>>
  BY DEF Restart
<1>2. faults' \in 0..MaxFaults /\ upset' \in BOOLEAN /\ UNCHANGED acts
  BY <1>1, HistoryCounts DEF Counted
<1>3. Pending' = 0 /\ Pending \in {0, 1} BY <1>1 DEF Pending
<1>4. Len(log) \in Nat /\ acts \in Nat /\ Len(log) + Pending <= acts BY DEF Counted
<1>5. Len(log) + 0 <= acts BY <1>3, <1>4
<1> QED BY <1>1, <1>2, <1>3, <1>5 DEF Counted

LEMMA CountedPeople == ASSUME Counted, PeopleAct PROVE Counted'
<1>1. Act /\ UNCHANGED <<up, enabled, seen, window, log>>
  BY DEF PeopleAct, SetActive, SetPreference, Disconnect, ConnectTelegram, TestEmail, ConnectEmail, sys
<1> QED BY <1>1, CountedRests

LEMMA CountedServed == ASSUME Counted, Served PROVE Counted'
<1>1. UNCHANGED <<up, enabled, seen, window, log>>
  <2>1. CASE WorkerStep
    BY <2>1 DEF WorkerStep, Drain, ReadUser, ReadDestination, MarkSending, FindBot, SendPhoto, Send,
         RecordAccepted, RecordSuccess, RecordFailed, sys
  <2>2. CASE CallFails BY <2>2 DEF CallFails, sys
  <2>3. CASE \E d \in Ids : BackoffElapses(d) BY <2>3 DEF BackoffElapses, sys
  <2> QED BY <2>1, <2>2, <2>3 DEF Served
<1>2. (\E b \in BOOLEAN : Fault(b)) \/ UNCHANGED <<acts, faults, upset>>
  <2>1. CASE SendPhoto \/ Send BY <2>1 DEF SendPhoto, Send, Provider, hist
  <2>2. CASE CallFails BY <2>2 DEF CallFails
  <2>3. CASE \E d \in Ids : BackoffElapses(d) BY <2>3 DEF BackoffElapses, hist
  <2>4. CASE WorkerStep /\ ~(SendPhoto \/ Send)
    BY <2>4 DEF WorkerStep, Drain, ReadUser, ReadDestination, MarkSending, FindBot,
         RecordAccepted, RecordSuccess, RecordFailed, hist
  <2> QED BY <2>1, <2>2, <2>3, <2>4 DEF Served
<1> QED BY <1>1, <1>2, CountedRests

LEMMA CountedDispatch ==
  ASSUME Counted, NEW e \in Events, Dispatch(e) \/ DispatchFails(e) PROVE Counted'
<1>1. CASE Dispatch(e)
  <2>1. UNCHANGED <<up, enabled, seen, window, log>> /\ UNCHANGED <<acts, faults, upset>>
    BY <1>1 DEF Dispatch, Resolve, ReadPreferences, NextUser, DispatchEnds, SkipUser, CreateInApp,
                QueueDelivery, sys, hist
  <2> QED BY <2>1, CountedRests
<1>2. CASE DispatchFails(e)
  <2>1. UNCHANGED <<up, enabled, seen, window, log>> /\ Fault(TRUE) BY <1>2 DEF DispatchFails, sys
  <2> QED BY <2>1, CountedRests
<1> QED BY <1>1, <1>2

LEMMA CountedRequest == ASSUME Counted, NEW r \in Requests, RequestStep(r) PROVE Counted'
<1>1. UNCHANGED <<up, enabled, seen, window, log>> /\ UNCHANGED <<acts, faults, upset>>
  BY DEF RequestStep, ResolveForTest, SendTest, MarkVerified, sys, hist
<1> QED BY <1>1, CountedRests

LEMMA CountedWindow == ASSUME Counted, WindowEnds PROVE Counted'
<1>1. UNCHANGED <<up, enabled, seen, log, acts, faults, upset>> /\ window' = FALSE
  BY DEF WindowEnds, hist
<1>2. Pending' = Pending BY <1>1 DEF Pending
<1> QED BY <1>1, <1>2 DEF Counted

LEMMA CountedInit == Init => Counted
<1> SUFFICES ASSUME Init PROVE Counted OBVIOUS
<1>1. log = <<>> /\ acts = 0 /\ faults = 0 /\ seen = "none" BY DEF Init
<1>2. Pending = 0 /\ Len(log) = 0 /\ log \in Seq(Keys) BY <1>1 DEF Pending
<1>3. acts \in 0..MaxActs /\ faults \in 0..MaxFaults BY <1>1, BoundAssumption
<1>4. Len(log) + Pending <= acts BY <1>1, <1>2
<1> QED BY <1>1, <1>2, <1>3, <1>4 DEF Init, Counted

----------------------------------------------------------------------------
LEMMA NoRequestIs == NoRequest \in TestType
<1>1. (CHOOSE u \in Users : TRUE) \in Users BY UserAssumption
<1> QED BY <1>1 DEF NoRequest, TestType

LEMMA TestsKeep ==
  ASSUME Registered, tests \in [Requests -> TestType], EmailUsed,
         PeopleAct \/ Restart \/ \E r \in Requests : RequestStep(r)
  PROVE  tests' \in [Requests -> TestType]
<1>1. ASSUME NEW r \in Requests, NEW t \in TestType, tests' = [tests EXCEPT ![r] = t]
      PROVE  tests' \in [Requests -> TestType]
  BY <1>1
<1>2. ASSUME NEW u \in Users, NEW r \in Requests,
             tests' = [tests EXCEPT ![r] = [pc |-> "read", user |-> u, addr |-> Nowhere]]
      PROVE  tests' \in [Requests -> TestType]
  <2>1. [pc |-> "read", user |-> u, addr |-> Nowhere] \in TestType BY DEF TestType
  <2> QED BY <1>1, <1>2, <2>1
<1>3. CASE PeopleAct
  <2>1. \A u \in Users, r \in Requests :
          TestEmail(r, u) => tests' = [tests EXCEPT ![r] = [pc |-> "read", user |-> u, addr |-> Nowhere]]
    BY DEF TestEmail
  <2>2. \A u \in Users, r \in Requests, a \in Addresses :
          ConnectEmail(r, u, a)
            => tests' = [tests EXCEPT ![r] = [pc |-> "read", user |-> u, addr |-> Nowhere]]
    BY DEF ConnectEmail
  <2>3. \A u \in Users :
          /\ SetActive(u) => UNCHANGED tests
          /\ \A k \in Keys : SetPreference(u, k) => UNCHANGED tests
          /\ \A c \in Channels : Disconnect(u, c) => UNCHANGED tests
          /\ \A a \in Addresses : ConnectTelegram(u, a) => UNCHANGED tests
    BY DEF SetActive, SetPreference, Disconnect, ConnectTelegram
  <2>4. UNCHANGED tests => tests' \in [Requests -> TestType] OBVIOUS
  <2> QED BY <1>2, <1>3, <2>1, <2>2, <2>3, <2>4, Zenon DEF PeopleAct
<1>4. CASE Restart BY <1>4, NoRequestIs DEF Restart
<1>5. ASSUME NEW r \in Requests, RequestStep(r) PROVE tests' \in [Requests -> TestType]
  <2>1. PICK t \in TestType : t = tests[r] OBVIOUS
  <2>2. ASSUME NEW p \in {"send", "mark"}, NEW a \in Addresses \cup {Nowhere}
        PROVE  [t EXCEPT !.pc = p, !.addr = a] \in TestType /\ [t EXCEPT !.pc = p] \in TestType
    BY DEF TestType
  <2>3. CASE tests' = [tests EXCEPT ![r] = NoRequest] BY <1>1, <2>3, NoRequestIs
  <2>4. CASE SendTest(r) /\ tests' = [tests EXCEPT ![r].pc = "mark"]
    <3>1. tests' = [tests EXCEPT ![r] = [t EXCEPT !.pc = "mark"]] BY <2>1, <2>4
    <3> QED BY <1>1, <2>2, <3>1
  <2>5. CASE ResolveForTest(r)
    <3>1. PICK a : a = chan[t.user]["email"].addr OBVIOUS
    <3>2. CASE a = Nowhere BY <2>1, <2>3, <2>5, <3>1, <3>2 DEF ResolveForTest
    <3>3. CASE a # Nowhere
      <4>1. tests' = [tests EXCEPT ![r] = [t EXCEPT !.pc = "send", !.addr = a]]
        BY <2>1, <2>5, <3>1, <3>3 DEF ResolveForTest
      <4>2. "email" \in Channels BY <2>5 DEF ResolveForTest, EmailUsed
      <4>3. chan[t.user]["email"] \in [addr : Addresses \cup {Nowhere}, verified : BOOLEAN]
        <5>1. t.user \in Users BY DEF TestType
        <5> QED BY <4>2, <5>1 DEF Registered, Connections
      <4>4. a \in Addresses \cup {Nowhere} BY <3>1, <4>3
      <4> QED BY <1>1, <2>2, <4>1, <4>4
    <3> QED BY <3>2, <3>3
  <2> QED BY <1>5, <2>3, <2>4, <2>5 DEF RequestStep, SendTest, MarkVerified
<1> QED BY <1>3, <1>4, <1>5

LEMMA EmailKeeps ==
  ASSUME tests \in [Requests -> TestType], EmailUsed,
         PeopleAct \/ Restart \/ \E r \in Requests : RequestStep(r)
  PROVE  EmailUsed'
<1>1. CASE "email" \in Channels BY <1>1 DEF EmailUsed
<1>2. CASE "email" \notin Channels
  <2>1. \A r \in Requests : tests[r].pc = "idle" BY <1>2 DEF EmailUsed
  <2>2. \A r \in Requests : ~RequestStep(r)
    BY <2>1 DEF RequestStep, ResolveForTest, SendTest, MarkVerified
  <2>3. PeopleAct => UNCHANGED tests
    <3>1. \A u \in Users, r \in Requests :
            ~TestEmail(r, u) /\ \A a \in Addresses : ~ConnectEmail(r, u, a)
      BY <1>2 DEF TestEmail, ConnectEmail
    <3>2. \A u \in Users :
            /\ SetActive(u) => UNCHANGED tests
            /\ \A k \in Keys : SetPreference(u, k) => UNCHANGED tests
            /\ \A c \in Channels : Disconnect(u, c) => UNCHANGED tests
            /\ \A a \in Addresses : ConnectTelegram(u, a) => UNCHANGED tests
      BY DEF SetActive, SetPreference, Disconnect, ConnectTelegram
    <3> QED BY <3>1, <3>2, Zenon DEF PeopleAct
  <2>4. Restart => \A r \in Requests : tests'[r].pc = "idle" BY DEF Restart, NoRequest
  <2> QED BY <2>1, <2>2, <2>3, <2>4 DEF EmailUsed
<1> QED BY <1>1, <1>2

LEMMA ListShort ==
  ASSUME SendInv, Len(worker.list) <= Batch,
         worker'.list = worker.list \/ Advance \/ Drain \/ Restart
  PROVE  Len(worker'.list) <= Batch
<1>1. Batch \in Nat \ {0} /\ worker.list \in Seq(Ids) BY LimitAssumption DEF SendInv, SendTyped
<1>2. ASSUME worker'.list = <<>> PROVE Len(worker'.list) <= Batch
  <2>1. Len(<<>>) = 0 OBVIOUS
  <2> QED BY <1>1, <1>2, <2>1
<1>3. CASE Advance
  <2>1. CASE Len(worker.list) = 1 BY <1>2, <1>3, <2>1, RestingIs DEF Advance
  <2>2. CASE worker.list = <<>>
    <3>1. worker'.list = Tail(worker.list) \/ worker' = Resting BY <1>3 DEF Advance
    <3>2. Tail(<<>>) = <<>> OBVIOUS
    <3> QED BY <1>2, <2>2, <3>1, <3>2, RestingIs
  <2>3. CASE Len(worker.list) # 1 /\ worker.list # <<>>
    <3>1. worker'.list = Tail(worker.list) BY <1>3, <2>3 DEF Advance
    <3>2. Len(worker.list) \in Nat /\ Len(Tail(worker.list)) = Len(worker.list) - 1 BY <1>1, <2>3
    <3> QED BY <1>1, <3>1, <3>2
  <2> QED BY <2>1, <2>2, <2>3
<1>4. CASE Drain
  <2>1. PICK n \in 1..Batch : \E list \in [1..n -> {d \in DOMAIN rows : Due(d)}] :
          worker' = [pc |-> "user", list |-> list, addr |-> Nowhere]
    BY <1>4 DEF Drain
  <2>2. PICK list : /\ list \in [1..n -> {d \in DOMAIN rows : Due(d)}]
                    /\ worker' = [pc |-> "user", list |-> list, addr |-> Nowhere]
    BY <2>1
  <2>3. worker'.list = list /\ Len(list) = n BY <2>2
  <2> QED BY <1>1, <2>3
<1>5. CASE Restart BY <1>2, <1>5, RestingIs DEF Restart
<1> QED BY <1>3, <1>4, <1>5

LEMMA AsideMinor ==
  ASSUME Minor, UNCHANGED worker, UNCHANGED tests, notes' \subseteq Events \X Users
  PROVE  Minor'
BY DEF Minor, EmailUsed

LEMMA ServedMinor == ASSUME SendInv, Minor, Served PROVE Minor'
<1>1. UNCHANGED <<tests, notes>>
  <2>1. CASE WorkerStep
    BY <2>1 DEF WorkerStep, Drain, ReadUser, ReadDestination, MarkSending, FindBot, SendPhoto, Send,
         RecordAccepted, RecordSuccess, RecordFailed, people, queue
  <2>2. CASE CallFails BY <2>2 DEF CallFails, people, queue
  <2>3. CASE \E d \in Ids : BackoffElapses(d) BY <2>3 DEF BackoffElapses, people
  <2> QED BY <2>1, <2>2, <2>3 DEF Served
<1>2. worker'.list = worker.list \/ Advance \/ Drain
  <2>0. worker \in [pc : Phases, list : Seq(Ids), addr : Addresses \cup {Nowhere}]
    BY DEF SendInv, SendTyped
  <2>1. \A p : Goto(p) => worker'.list = worker.list BY <2>0 DEF Goto
  <2>2. ReadUser => Advance \/ \E p : Goto(p) BY DEF ReadUser, Cancel
  <2>3. ReadDestination => Advance \/ worker'.list = worker.list
    BY <2>0 DEF ReadDestination, Cancel
  <2>4. MarkSending \/ FindBot => Advance \/ \E p : Goto(p) BY DEF MarkSending, FindBot, Cancel
  <2>5. SendPhoto \/ Send => \E p : Goto(p) BY DEF SendPhoto, Send, Provider
  <2>6. RecordAccepted \/ RecordSuccess \/ RecordFailed => Advance \/ \E p : Goto(p)
    BY DEF RecordAccepted, RecordSuccess, RecordFailed
  <2>7. CallFails => Advance \/ \E p : Goto(p) BY DEF CallFails
  <2>8. (\E d \in Ids : BackoffElapses(d)) => worker'.list = worker.list BY DEF BackoffElapses
  <2> QED BY <2>1, <2>2, <2>3, <2>4, <2>5, <2>6, <2>7, <2>8 DEF Served, WorkerStep
<1>3. Len(worker'.list) <= Batch BY <1>2, ListShort DEF Minor
<1> QED BY <1>1, <1>3 DEF Minor, EmailUsed

LEMMA MinorInit == Init => Minor
<1> SUFFICES ASSUME Init PROVE Minor OBVIOUS
<1>1. tests = [r \in Requests |-> NoRequest] /\ notes = {} /\ worker = Resting BY DEF Init
<1>2. tests \in [Requests -> TestType] BY <1>1, NoRequestIs
<1>3. EmailUsed BY <1>1 DEF EmailUsed, NoRequest
<1>4. Len(worker.list) <= Batch
  <2>1. Len(<<>>) = 0 OBVIOUS
  <2> QED BY <1>1, <2>1, RestingIs, LimitAssumption
<1> QED BY <1>1, <1>2, <1>3, <1>4 DEF Minor

AllInv == NotifyInv /\ Counted /\ Minor

LEMMA AllNext == ASSUME NotifyInv, Counted, Minor, [Next]_vars PROVE Counted' /\ Minor'
<1>1. SendInv /\ Registered BY DEF NotifyInv
<1>2. CASE EngineFlips \/ Watch \/ WindowEnds
  <2>1. UNCHANGED <<tests, notes, worker>> BY <1>2 DEF EngineFlips, Watch, WindowEnds, people, queue
  <2>2. Minor' BY <2>1, AsideMinor DEF Minor
  <2> QED BY <1>2, <2>2, CountedFlips, CountedWatch, CountedWindow
<1>3. CASE PeopleAct \/ Restart \/ \E r \in Requests : RequestStep(r)
  <2>1. tests' \in [Requests -> TestType] /\ EmailUsed' BY <1>1, <1>3, TestsKeep, EmailKeeps DEF Minor
  <2>2. UNCHANGED notes
    <3>1. PeopleAct => UNCHANGED notes
      BY DEF PeopleAct, SetActive, SetPreference, Disconnect, ConnectTelegram, TestEmail, ConnectEmail,
             queue
    <3>2. (\E r \in Requests : RequestStep(r)) => UNCHANGED notes
      BY DEF RequestStep, ResolveForTest, SendTest, MarkVerified, queue
    <3>3. Restart => UNCHANGED notes BY DEF Restart, queue
    <3> QED BY <1>3, <3>1, <3>2, <3>3
  <2>3. Len(worker'.list) <= Batch
    <3>1. CASE Restart BY <1>1, <3>1, ListShort DEF Minor
    <3>2. CASE ~Restart
      <4>1. UNCHANGED worker BY <1>3, <3>2, AsideIs DEF Aside
      <4> QED BY <4>1 DEF Minor
    <3> QED BY <3>1, <3>2
  <2>4. Minor' BY <2>1, <2>2, <2>3 DEF Minor
  <2> QED BY <1>3, <2>4, CountedPeople, CountedRestart, CountedRequest
<1>4. CASE Served BY <1>1, <1>4, CountedServed, ServedMinor
<1>5. ASSUME NEW e \in Events, Dispatch(e) \/ DispatchFails(e) PROVE Counted' /\ Minor'
  <2>1. UNCHANGED <<tests, worker>>
    BY <1>5 DEF Dispatch, Resolve, ReadPreferences, NextUser, DispatchEnds, SkipUser, CreateInApp,
                QueueDelivery, DispatchFails, people
  <2>2. notes' \subseteq Events \X Users
    <3>1. UNCHANGED notes \/ \E u \in Users : notes' = notes \cup {<<e, u>>}
      BY <1>5 DEF Dispatch, Resolve, ReadPreferences, NextUser, DispatchEnds, SkipUser, CreateInApp,
                  QueueDelivery, DispatchFails, queue
    <3> QED BY <3>1 DEF Minor
  <2>3. Minor' BY <2>1, <2>2, AsideMinor
  <2> QED BY <1>5, <2>3, CountedDispatch
<1>6. CASE UNCHANGED vars
  <2>1. UNCHANGED <<tests, worker, notes, up, enabled, seen, window, log, acts, faults, upset>>
    BY <1>6 DEF vars, sys, people, queue, hist
  <2>2. Minor' BY <2>1, AsideMinor DEF Minor
  <2> QED BY <2>1, <2>2, CountedRests
<1> QED BY <1>2, <1>3, <1>4, <1>5, <1>6 DEF Next, Served

\* Every row, list, figure and table of the model keeps its type: no more attempts
\* than the limit, no list longer than the batch, no more events than acts.
THEOREM NotificationsTypeCorrect == Spec => []TypeOK
<1>1. ASSUME AllInv PROVE TypeOK
  <2>1. Dispatching /\ SendInv /\ Registered /\ Counted /\ Minor BY <1>1 DEF AllInv, NotifyInv
  <2>2. {up, enabled, window, upset} \subseteq BOOLEAN /\ seen \in {"none", "up", "down"}
        /\ acts \in 0..MaxActs /\ faults \in 0..MaxFaults
    BY <2>1 DEF Counted
  <2>3. Len(log) <= MaxActs /\ \A e \in DOMAIN log : log[e] \in Keys
    <3>1. /\ log \in Seq(Keys) /\ Len(log) + Pending <= acts /\ acts \in 0..MaxActs
          /\ Pending \in {0, 1}
      BY <2>1 DEF Counted, Pending
    <3>2. Len(log) \in Nat /\ MaxActs \in Nat BY <3>1, BoundAssumption
    <3>3. Len(log) <= MaxActs BY <3>1, <3>2
    <3> QED BY <3>1, <3>3
  <2>4. \A e \in Events :
         /\ disp[e].pc \in {"none", "resolve", "prefs", "users", "queue"}
         /\ disp[e].todo \cup disp[e].cur \subseteq Users /\ disp[e].left \subseteq Channels
    <3>1. \A e \in Events : disp[e] \in Activation BY <2>1 DEF Dispatching
    <3> QED BY <3>1 DEF Activation
  <2>5. prefs \in [Users -> [Keys -> SUBSET Surfaces]] /\ DOMAIN rows \subseteq Ids
    BY <2>1 DEF Dispatching
  <2>6. /\ account \in [Users -> BOOLEAN]
        /\ chan \in [Users -> [Channels -> [addr : Addresses \cup {Nowhere}, verified : BOOLEAN]]]
    BY <2>1 DEF Registered, Connections
  <2>7. /\ tests \in [Requests -> [pc : {"idle", "read", "send", "mark"}, user : Users,
                                   addr : Addresses \cup {Nowhere}]]
        /\ notes \subseteq Events \X Users /\ Len(worker.list) <= Batch
    BY <2>1 DEF Minor, TestType
  <2>8. \A d \in DOMAIN rows : rows[d] \in Row BY <2>1 DEF SendInv, SendTyped, GoodRow
  <2>9. /\ worker.pc \in Phases /\ worker.addr \in Addresses \cup {Nowhere}
        /\ worker.list \in Seq(Ids) /\ (worker.pc = "idle" <=> worker.list = <<>>)
    BY <2>1 DEF SendInv, SendTyped, Listed
  <2>10. ToSet(worker.list) \subseteq Ids BY <2>9 DEF ToSet
  <2> QED BY <2>2, <2>3, <2>4, <2>5, <2>6, <2>7, <2>8, <2>9, <2>10 DEF TypeOK
<1>2. Init => Counted /\ Minor BY CountedInit, MinorInit
<1>3. NotifyInv /\ Counted /\ Minor /\ [Next]_vars => Counted' /\ Minor' BY AllNext
<1>4. Spec => [](Counted /\ Minor)
  BY <1>2, <1>3, NotifyInvariant, PTL DEF Spec
<1>5. NotifyInv /\ Counted /\ Minor => TypeOK BY <1>1 DEF AllInv
<1> QED BY <1>4, <1>5, NotifyInvariant, PTL
=============================================================================
