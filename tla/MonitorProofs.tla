--------------------------- MODULE MonitorProofs ---------------------------
(***************************************************************************)
(* Proofs about the reference monitor, for any threads, objects, names,    *)
(* labels, privileges and number of invocations: secrets stay contained,   *)
(* privilege is never made up, and what only an absent principal vouches   *)
(* for is never changed.                                                   *)
(*                                                                         *)
(* One inductive invariant, MonInv, says what a good store, thread, task   *)
(* and answer are.  A step replaces the record of one thread and at most   *)
(* one object: the proof shows, per system call, that the new ones are     *)
(* good.                                                                   *)
(***************************************************************************)
EXTENDS Monitor, TLAPS

\* The values of edit, of job, of answers and of threads.
Edit  == [gate : Obj, policy : Policy]
Job   == [label : Label, privilege : Component, secrets : SUBSET Principal,
          from : Thread \cup {None}]
Reply == [ok : BOOLEAN, label : Label, secrets : SUBSET Principal]

ThreadRecord ==
  [pc : {"idle", "path", "resolve", "call", "run", "dead"}, cur : Label, priv : Component,
   dents : SUBSET Obj, seen : SUBSET Principal, at : Obj \cup Policy \cup {None},
   need : Component, gain : Component, sync : BOOLEAN, edit : Edit \cup {None},
   job : Job \cup {None}, left : Label, got : SUBSET Principal]

\* l protects the secrets S, but for those of the principals K.
Covers(K, l, S) == Protects(l, S \ K)

\* c is the privilege of no principal that nobody started with.
Powerless(c) == \A p \in Unheld : ~Implies(c, Only(p))

\* A gate with clearance c and privilege v asks for what it gives.
Guarded(c, v) == \A p \in Unheld : Closed(c, v, p)

Redirects(s, pol) == pol.to \in Written(s, {"gate"}) \cup {None}

GoodPolicy(s, pol) ==
  pol \in Policy /\ Redirects(s, pol) /\ Guarded(pol.clearance, pol.privilege)

GoodJob(K, j) == j \in Job /\ Covers(K, j.label, j.secrets) /\ Powerless(j.privilege)

GoodReply(K, m) == m \in Reply /\ Covers(K, m.label, m.secrets)

GoodObject(K, s, h, o) ==
  /\ Guarded(s[o].policy.clearance, s[o].policy.privilege)
  /\ Covers(K, s[o].label, h[o])
  /\ s[o].kind = "free" => h[o] = {}

GoodStore(K, s, h) ==
  /\ s \in [Obj -> Objects]
  /\ WellFormed(s)
  /\ Root \in Written(s, {"dir"})
  /\ h \in [Obj -> SUBSET Principal]
  /\ \A o \in Obj : GoodObject(K, s, h, o)

\* A worker thread that executes a task.
Works(t, r) == t \in Worker /\ r.pc \in {"run", "resolve", "call"}

\* What the client behind thread t was handed, it is cleared for.
Cleared(K, t, r) ==
  t \in Client => \A p \in r.got \ K : Implies(And(r.cur.secrecy, r.priv), Only(p))

\* What thread t refers to was written.
Linked(s, t, r) ==
  /\ r.dents \subseteq Written(s, Kind \ {"free"})
  /\ r.pc = "path" => r.at \in Written(s, {"dir"})
  /\ r.pc = "resolve" => GoodPolicy(s, r.at)
  /\ r.edit # None => r.edit.gate \in Written(s, {"gate"}) /\ Redirects(s, r.edit.policy)

GoodThread(K, s, t, r) ==
  /\ r \in ThreadRecord
  /\ Linked(s, t, r)
  /\ Covers(K, r.cur, r.seen)
  /\ Powerless(r.priv) /\ Guarded(r.need, r.gain) /\ Powerless(r.cur.integrity)
  /\ Works(t, r) => GoodJob(K, r.job)
  /\ Cleared(K, t, r)

GoodThreads ==
  /\ th \in [Thread -> ThreadRecord]
  /\ \A t \in Thread : GoodThread(leaked, store, t, th[t])

GoodCalls ==
  /\ tasks \in Seq(Job)
  /\ \A i \in DOMAIN tasks : GoodJob(leaked, tasks[i])
  /\ made \in 0..MaxTasks
  /\ inbox \in [Thread -> Reply \cup {None}]
  /\ \A t \in Thread : inbox[t] # None => GoodReply(leaked, inbox[t])
  /\ vms \subseteq SUBSET Principal

MonInv == GoodStore(leaked, store, holds) /\ GoodThreads /\ GoodCalls

-----------------------------------------------------------------------------
(* Formulas and labels. *)

\* The constant formulas and the operations on formulas yield formulas.
LEMMA Formulas ==
  /\ DcTrue \in Component
  /\ \A c, d \in Component : And(c, d) \in Component /\ Or(c, d) \in Component
  /\ \A c, d \in Component : Residual(c, d) \in Component
<1>1. DcTrue \in Component
  BY DEF Component, DcTrue
<1>2. \A c, d \in Component : And(c, d) \in Component /\ Or(c, d) \in Component
  BY DEF Component, And, Or
<1>3. ASSUME NEW c \in Component, NEW d \in Component
      PROVE  Residual(c, d) \in Component
  <2>1. Residual(c, d) \in SUBSET World
    BY DEF Residual
  <2>2. ASSUME NEW v \in Residual(c, d), NEW w \in World, v \subseteq w
        PROVE  w \in Residual(c, d)
    <3>1. \A x \in World : v \subseteq x /\ x \in d => x \in c
      BY DEF Residual
    <3>2. ASSUME NEW x \in World, w \subseteq x, x \in d
          PROVE  x \in c
      BY <3>1, <3>2, <2>2
    <3> QED BY <3>2 DEF Residual
  <2> QED BY <2>1, <2>2 DEF Component
<1> QED BY <1>1, <1>2, <1>3

\* The public label, a join and a lowered label are labels.
LEMMA Labelings ==
  /\ Public \in Label
  /\ \A l, m \in Label : Lub(l, m) \in Label
  /\ \A l \in Label, c \in Component : Downgrade(l, c) \in Label
<1>1. Public \in Label
  BY Formulas DEF Public, Labeled, Label
<1>2. \A l, m \in Label : Lub(l, m) \in Label
  BY Formulas DEF Lub, Labeled, Label
<1>3. \A l \in Label, c \in Component : Downgrade(l, c) \in Label
  BY Formulas DEF Downgrade, Labeled, Label
<1> QED BY <1>1, <1>2, <1>3

\* Two formulas together imply a principal only if one of them does: worlds
\* without the principal that satisfy one each have a union that satisfies both.
LEMMA AndImplies ==
  ASSUME NEW c \in Component, NEW d \in Component, NEW p, Implies(And(c, d), Only(p))
  PROVE  Implies(c, Only(p)) \/ Implies(d, Only(p))
<1>1. SUFFICES ASSUME ~Implies(c, Only(p)), ~Implies(d, Only(p))
               PROVE  FALSE
  OBVIOUS
<1>2. c \subseteq World /\ d \subseteq World
  BY DEF Component
<1>3. PICK v \in c : p \notin v
  BY <1>1, <1>2 DEF Implies, Only
<1>4. PICK w \in d : p \notin w
  BY <1>1, <1>2 DEF Implies, Only
<1>5. v \cup w \in World
  BY <1>2 DEF World
<1>6. v \cup w \in c
  BY <1>5 DEF Component
<1>7. v \cup w \in d
  BY <1>5 DEF Component
<1>8. p \in v \cup w
  BY <1>6, <1>7 DEF Implies, And, Only
<1> QED BY <1>3, <1>4, <1>8

\* What either label protects, their join protects.
LEMMA LubSecrets ==
  ASSUME NEW l, NEW m
  PROVE  Secrets(l) \cup Secrets(m) \subseteq Secrets(Lub(l, m))
BY DEF Secrets, Lub, Labeled, Implies, And

\* A lowered label gives up the secrets of the privilege's principals, no others.
LEMMA DowngradeSecrets ==
  ASSUME NEW l \in Label, NEW c \in Component
  PROVE  {q \in Secrets(l) : ~Implies(c, Only(q))} \subseteq Secrets(Downgrade(l, c))
<1> SUFFICES ASSUME NEW q \in Principal, Implies(l.secrecy, Only(q)), ~Implies(c, Only(q)),
                    NEW w \in World, w \in Residual(l.secrecy, c), q \notin w
             PROVE  FALSE
  BY DEF Secrets, Downgrade, Labeled, Implies, Only, Residual
<1>1. c \subseteq World
  BY DEF Component
<1>2. PICK u \in c : q \notin u
  BY <1>1 DEF Implies, Only
<1>3. w \cup u \in World
  BY <1>1 DEF World
<1>4. w \cup u \in c
  BY <1>3 DEF Component
<1>5. w \cup u \in l.secrecy
  BY <1>3, <1>4 DEF Residual
<1>6. q \in w \cup u
  BY <1>5 DEF Implies, Only
<1> QED BY <1>2, <1>6

-----------------------------------------------------------------------------
(* Privilege and protection. *)

\* Combining, weakening and diluting privileges makes up none.
LEMMA PowerlessFacts ==
  /\ Powerless(DcTrue)
  /\ \A c, d \in Component : Powerless(c) /\ Powerless(d) => Powerless(And(c, d))
  /\ \A c, d : Powerless(c) /\ Implies(c, d) => Powerless(d)
  /\ \A c, d : Powerless(c) => Powerless(Or(c, d)) /\ Powerless(Or(d, c))
<1>1. Powerless(DcTrue)
  <2>1. {} \in DcTrue /\ \A p : {} \notin Only(p)
    BY DEF DcTrue, World, Only
  <2> QED BY <2>1 DEF Powerless, Implies
<1>2. \A c, d \in Component : Powerless(c) /\ Powerless(d) => Powerless(And(c, d))
  BY AndImplies DEF Powerless
<1>3. \A c, d : Powerless(c) /\ Implies(c, d) => Powerless(d)
  BY DEF Powerless, Implies
<1>4. \A c, d : Powerless(c) => Powerless(Or(c, d)) /\ Powerless(Or(d, c))
  BY DEF Powerless, Implies, Or
<1> QED BY <1>1, <1>2, <1>3, <1>4

\* A gate that gives nothing asks for enough, gates together ask for what they give
\* together, and whoever has what a gate asks for gains nothing from it.
LEMMA GuardedFacts ==
  /\ Guarded(DcTrue, DcTrue)
  /\ \A c, v : Powerless(v) => Guarded(c, v)
  /\ \A c, d, v, w \in Component :
       Guarded(c, v) /\ Guarded(d, w) => Guarded(And(c, d), And(v, w))
  /\ \A c, v, r : Guarded(c, v) /\ Powerless(r) /\ Implies(r, c) => Powerless(v)
<1>1. Guarded(DcTrue, DcTrue) /\ \A c, v : Powerless(v) => Guarded(c, v)
  BY DEF Guarded, Closed, Powerless
<1>2. ASSUME NEW c \in Component, NEW d \in Component, NEW v \in Component, NEW w \in Component,
             Guarded(c, v), Guarded(d, w), NEW p \in Unheld, Implies(And(v, w), Only(p))
      PROVE  Implies(And(c, d), Only(p))
  <2>1. Implies(v, Only(p)) \/ Implies(w, Only(p))
    BY <1>2, AndImplies
  <2>2. Implies(c, Only(p)) \/ Implies(d, Only(p))
    BY <1>2, <2>1 DEF Guarded, Closed
  <2> QED BY <2>2 DEF Implies, And
<1>3. \A c, v, r : Guarded(c, v) /\ Powerless(r) /\ Implies(r, c) => Powerless(v)
  BY DEF Guarded, Closed, Powerless, Implies
<1> QED BY <1>1, <1>2, <1>3 DEF Guarded, Closed

\* What a write reveals, the label it is written under protects: the check of
\* Labeled::write and modify, and of the create functions, is enough.
LEMMA MayWriteCovers ==
  ASSUME NEW K, NEW r, r.cur \in Label, r.priv \in Component, Covers(K, r.cur, r.seen),
         NEW l \in Label, MayWrite(r, l)
  PROVE  Covers(K, l, Exposed(r))
<1> SUFFICES ASSUME NEW p \in r.seen, ~Implies(r.priv, Only(p)), p \in Secrets(r.cur)
             PROVE  p \in Secrets(l)
  BY DEF Covers, Protects, Exposed
<1>1. Implies(And(l.secrecy, r.priv), Only(p))
  BY DEF MayWrite, CanFlowToWithPrivilege, Secrets, Implies
<1>2. l.secrecy \in Component
  BY DEF Label
<1>3. Implies(l.secrecy, Only(p))
  BY <1>1, <1>2, AndImplies
<1> QED BY <1>3 DEF Secrets

\* A thread that may write what only p vouches for has the privilege of p, or a
\* label that p vouches for.
LEMMA MayWriteVouched ==
  ASSUME NEW r, r.cur \in Label, r.priv \in Component,
         Powerless(r.priv), Powerless(r.cur.integrity),
         NEW l \in Label, MayWrite(r, l)
  PROVE  Powerless(l.integrity)
<1>1. Powerless(And(r.cur.integrity, r.priv))
  BY PowerlessFacts DEF Label
<1> QED BY <1>1, PowerlessFacts DEF MayWrite, CanFlowToWithPrivilege

\* A join protects what its parts protect, and is vouched for by no more.
LEMMA LubCovers ==
  ASSUME NEW K, NEW l \in Label, NEW m \in Label, NEW S, NEW T, Covers(K, l, S), Covers(K, m, T)
  PROVE  /\ Covers(K, Lub(l, m), S \cup T)
         /\ Powerless(l.integrity) \/ Powerless(m.integrity) => Powerless(Lub(l, m).integrity)
         /\ Lub(l, m).secrecy \subseteq l.secrecy \cap m.secrecy
<1>1. Covers(K, Lub(l, m), S \cup T)
  BY LubSecrets DEF Covers, Protects
<1>2. Powerless(l.integrity) \/ Powerless(m.integrity) => Powerless(Lub(l, m).integrity)
  BY PowerlessFacts DEF Lub, Labeled
<1>3. Lub(l, m).secrecy \subseteq l.secrecy \cap m.secrecy
  BY DEF Lub, Labeled, And
<1> QED BY <1>1, <1>2, <1>3

\* Every label covers no secrets, and a label its own.
LEMMA CoversSelf ==
  ASSUME NEW K, NEW l
  PROVE  Covers(K, l, {}) /\ Covers(K, l, Secrets(l)) /\ Secrets(l) \subseteq Principal
BY DEF Covers, Protects, Secrets

\* Nobody vouches for the public label.
LEMMA PublicPowerless == Powerless(Public.integrity) /\ Public.integrity = DcTrue
BY PowerlessFacts DEF Public, Labeled

-----------------------------------------------------------------------------
(* Threads. *)

\* A thread with a new current label and other data in memory stays good, if the
\* label protects the data and nobody absent vouches for it.
LEMMA Relabeled ==
  ASSUME NEW K, NEW s, NEW t, NEW r, GoodThread(K, s, t, r),
         NEW l \in Label, NEW S \in SUBSET Principal,
         Covers(K, l, S), Powerless(l.integrity),
         t \in Client => l.secrecy \subseteq r.cur.secrecy
  PROVE  GoodThread(K, s, t, [r EXCEPT !.cur = l, !.seen = S])
<1> DEFINE q == [r EXCEPT !.cur = l, !.seen = S]
<1>1. r \in ThreadRecord
  BY DEF GoodThread
<1>2. q \in ThreadRecord
  BY <1>1 DEF ThreadRecord
<1>3. /\ q.cur = l /\ q.seen = S
      /\ q.pc = r.pc /\ q.priv = r.priv /\ q.dents = r.dents /\ q.at = r.at
      /\ q.need = r.need /\ q.gain = r.gain /\ q.edit = r.edit /\ q.job = r.job /\ q.got = r.got
  BY <1>1 DEF ThreadRecord
<1> HIDE DEF q
<1>4. Linked(s, t, q)
  BY <1>3 DEF GoodThread, Linked
<1>5. /\ Covers(K, q.cur, q.seen) /\ Powerless(q.cur.integrity) /\ Powerless(q.priv)
      /\ Guarded(q.need, q.gain)
  BY <1>3 DEF GoodThread
<1>6. Works(t, q) => GoodJob(K, q.job)
  BY <1>3 DEF GoodThread, Works
<1>7. Cleared(K, t, q)
  BY <1>3 DEF GoodThread, Cleared, Implies, And
<1>8. GoodThread(K, s, t, q)
  BY <1>2, <1>4, <1>5, <1>6, <1>7 DEF GoodThread
<1> QED BY <1>8 DEF q

\* taint_with_label, with data that comes under the label.
LEMMA TaintedGood ==
  ASSUME NEW K, NEW s, NEW t, NEW r, GoodThread(K, s, t, r),
         NEW l \in Label, NEW S \in SUBSET Principal,
         Covers(K, l, S)
  PROVE  /\ GoodThread(K, s, t, [r EXCEPT !.cur = Lub(@, l), !.seen = @ \cup S])
         /\ GoodThread(K, s, t, [r EXCEPT !.cur = Lub(l, @), !.seen = @ \cup S])
         /\ GoodThread(K, s, t, Tainted(r, l))
<1>1. /\ r \in ThreadRecord /\ r.cur \in Label /\ r.seen \in SUBSET Principal
      /\ Covers(K, r.cur, r.seen) /\ Powerless(r.cur.integrity)
  BY DEF GoodThread, ThreadRecord
<1>2. /\ Lub(r.cur, l) \in Label /\ Lub(l, r.cur) \in Label
      /\ Covers(K, Lub(r.cur, l), r.seen \cup S) /\ Covers(K, Lub(l, r.cur), r.seen \cup S)
      /\ Powerless(Lub(r.cur, l).integrity) /\ Powerless(Lub(l, r.cur).integrity)
      /\ Lub(r.cur, l).secrecy \subseteq r.cur.secrecy
      /\ Lub(l, r.cur).secrecy \subseteq r.cur.secrecy
  <2>1. r.seen \cup S = S \cup r.seen
    OBVIOUS
  <2> QED BY <1>1, <2>1, LubCovers, Labelings
<1>3. Covers(K, Lub(r.cur, l), r.seen)
  BY <1>2 DEF Covers, Protects
<1>4. GoodThread(K, s, t, [r EXCEPT !.cur = Lub(r.cur, l), !.seen = r.seen \cup S])
  BY <1>1, <1>2, Relabeled
<1>5. GoodThread(K, s, t, [r EXCEPT !.cur = Lub(l, r.cur), !.seen = r.seen \cup S])
  BY <1>1, <1>2, Relabeled
<1>6. GoodThread(K, s, t, [r EXCEPT !.cur = Lub(r.cur, l), !.seen = r.seen])
  BY <1>1, <1>2, <1>3, Relabeled
<1>7. [r EXCEPT !.cur = Lub(r.cur, l), !.seen = r.seen] = [r EXCEPT !.cur = Lub(r.cur, l)]
  BY <1>1 DEF ThreadRecord
<1> QED BY <1>1, <1>4, <1>5, <1>6, <1>7 DEF Tainted, ThreadRecord

\* unlabel: reading an object keeps the label ahead of the data.
LEMMA UnlabelGood ==
  ASSUME NEW K, GoodStore(K, store, holds), NEW o \in Obj,
         NEW s, NEW t, NEW r, GoodThread(K, s, t, r)
  PROVE  GoodThread(K, s, t, Unlabel(r, o))
<1>1. /\ store[o].label \in Label /\ holds[o] \in SUBSET Principal
      /\ Covers(K, store[o].label, holds[o])
  BY DEF GoodStore, GoodObject, Objects
<1> QED BY <1>1, TaintedGood DEF Unlabel

\* unlabel changes only the current label and what is in memory.
LEMMA UnlabelKeeps ==
  ASSUME NEW r \in ThreadRecord, NEW o
  PROVE  /\ Unlabel(r, o).pc = r.pc /\ Unlabel(r, o).priv = r.priv
         /\ Unlabel(r, o).dents = r.dents /\ Unlabel(r, o).job = r.job
         /\ Unlabel(r, o).edit = r.edit /\ Unlabel(r, o).at = r.at
         /\ Unlabel(r, o).need = r.need /\ Unlabel(r, o).gain = r.gain
         /\ Unlabel(r, o).sync = r.sync
BY DEF Unlabel, ThreadRecord

\* declassify_with, by a worker: the label gives up what the privilege covers,
\* and the data of others stays protected.
LEMMA DeclassifiedGood ==
  ASSUME NEW K, NEW s, NEW t \in Worker, NEW r, GoodThread(K, s, t, r),
         NEW c \in Component, Powerless(c)
  PROVE  GoodThread(K, s, t, Declassified(r, c))
<1> DEFINE l == Downgrade(r.cur, c)
           S == {q \in r.seen : ~Implies(c, Only(q))}
<1>1. /\ r \in ThreadRecord /\ r.cur \in Label /\ r.seen \in SUBSET Principal
      /\ Covers(K, r.cur, r.seen) /\ Powerless(r.cur.integrity)
  BY DEF GoodThread, ThreadRecord
<1>2. l \in Label
  BY <1>1, Labelings
<1>3. Covers(K, l, S)
  BY <1>1, DowngradeSecrets DEF Covers, Protects
<1>4. Powerless(l.integrity)
  BY <1>1, PowerlessFacts DEF Downgrade, Labeled, Label
<1>5. t \notin Client
  BY ThreadAssumption
<1>6. S \in SUBSET Principal
  BY <1>1
<1>7. Declassified(r, c) = [r EXCEPT !.cur = l, !.seen = S]
  BY <1>1 DEF Declassified, ThreadRecord
<1> HIDE DEF l, S
<1>8. GoodThread(K, s, t, [r EXCEPT !.cur = l, !.seen = S])
  BY <1>2, <1>3, <1>4, <1>5, <1>6, Relabeled
<1> QED BY <1>7, <1>8

\* A thread that keeps its labels and its data may go anywhere that is linked.
LEMMA MovedGood ==
  ASSUME NEW K, NEW s, NEW t, NEW r, GoodThread(K, s, t, r), NEW q \in ThreadRecord,
         q.cur = r.cur, q.seen = r.seen, q.priv = r.priv, q.got = r.got,
         Guarded(q.need, q.gain), Linked(s, t, q), Works(t, q) => GoodJob(K, q.job)
  PROVE  GoodThread(K, s, t, q)
BY DEF GoodThread, Cleared

\* A thread may get descriptors for objects that were written.
LEMMA DentsGood ==
  ASSUME NEW K, NEW s, NEW t, NEW r, GoodThread(K, s, t, r),
         NEW D, D \subseteq Written(s, Kind \ {"free"})
  PROVE  GoodThread(K, s, t, [r EXCEPT !.dents = D])
<1> DEFINE q == [r EXCEPT !.dents = D]
<1>1. r \in ThreadRecord
  BY DEF GoodThread
<1>2. D \subseteq Obj
  BY DEF Written
<1>3. q \in ThreadRecord
  BY <1>1, <1>2 DEF ThreadRecord
<1>4. /\ q.dents = D /\ q.cur = r.cur /\ q.seen = r.seen
      /\ q.pc = r.pc /\ q.priv = r.priv /\ q.at = r.at
      /\ q.need = r.need /\ q.gain = r.gain /\ q.edit = r.edit /\ q.job = r.job /\ q.got = r.got
  BY <1>1 DEF ThreadRecord
<1> HIDE DEF q
<1>5. Linked(s, t, q) /\ (Works(t, q) => GoodJob(K, q.job)) /\ Guarded(q.need, q.gain)
  BY <1>4 DEF GoodThread, Linked, Works
<1>6. GoodThread(K, s, t, q)
  BY <1>3, <1>4, <1>5, MovedGood
<1> QED BY <1>6 DEF q

\* Objects that were written keep their kind.
Grown(s, s2) == \A o \in Obj : s[o].kind # "free" => s2[o].kind = s[o].kind

\* A thread stays good in a store that only grows.
LEMMA GrownGood ==
  ASSUME NEW K, NEW s, NEW s2, Grown(s, s2), NEW t, NEW r, GoodThread(K, s, t, r)
  PROVE  GoodThread(K, s2, t, r)
<1>1. /\ Written(s, Kind \ {"free"}) \subseteq Written(s2, Kind \ {"free"})
      /\ Written(s, {"dir"}) \subseteq Written(s2, {"dir"})
      /\ Written(s, {"gate"}) \subseteq Written(s2, {"gate"})
  BY DEF Grown, Written
<1>2. Linked(s2, t, r)
  BY <1>1 DEF GoodThread, Linked, GoodPolicy, Redirects
<1> QED BY <1>2 DEF GoodThread

\* The public thread of the start is good.
LEMMA IdleGood ==
  ASSUME NEW K, NEW s, NEW t
  PROVE  GoodThread(K, s, t, IdleThread)
<1>1. IdleThread \in ThreadRecord
  BY Formulas, Labelings DEF IdleThread, ThreadRecord
<1>2. Linked(s, t, IdleThread) /\ ~Works(t, IdleThread) /\ Cleared(K, t, IdleThread)
  BY DEF Linked, IdleThread, Works, Cleared
<1>3. /\ Covers(K, IdleThread.cur, IdleThread.seen) /\ Powerless(IdleThread.priv)
      /\ Guarded(IdleThread.need, IdleThread.gain) /\ Powerless(IdleThread.cur.integrity)
  BY CoversSelf, PublicPowerless, PowerlessFacts, GuardedFacts DEF IdleThread
<1> QED BY <1>1, <1>2, <1>3 DEF GoodThread

-----------------------------------------------------------------------------
(* The store. *)

\* An object is created, or gets new contents: if what it refers to was written
\* and its label protects what it depends on, the store stays good.
LEMMA ReplacedGood ==
  ASSUME NEW K, NEW s, NEW h, GoodStore(K, s, h), NEW o \in Obj, NEW obj \in Objects,
         obj.kind # "free", s[o].kind \in {"free", obj.kind},
         Range(obj.entries) \subseteq Written(s, Kind \ {"free"}),
         \A x \in obj.facets : x[2] \in Written(s, {"dir"}),
         Redirects(s, obj.policy), Guarded(obj.policy.clearance, obj.policy.privilege),
         obj.kind = "faceted" => obj.label = Public,
         NEW data \in SUBSET Principal, Covers(K, obj.label, data)
  PROVE  /\ GoodStore(K, [s EXCEPT ![o] = obj], [h EXCEPT ![o] = data])
         /\ Grown(s, [s EXCEPT ![o] = obj])
<1> DEFINE s2 == [s EXCEPT ![o] = obj]
           h2 == [h EXCEPT ![o] = data]
<1>1. s \in [Obj -> Objects] /\ h \in [Obj -> SUBSET Principal]
  BY DEF GoodStore
<1>2. s2 \in [Obj -> Objects] /\ h2 \in [Obj -> SUBSET Principal]
  BY <1>1
<1>3. /\ s2[o] = obj /\ h2[o] = data
      /\ \A u \in Obj \ {o} : s2[u] = s[u] /\ h2[u] = h[u]
  BY <1>1
<1> HIDE DEF s2, h2
<1>4. Grown(s, s2)
  BY <1>3 DEF Grown
<1>5. /\ Written(s, Kind \ {"free"}) \subseteq Written(s2, Kind \ {"free"})
      /\ Written(s, {"dir"}) \subseteq Written(s2, {"dir"})
      /\ Written(s, {"gate"}) \subseteq Written(s2, {"gate"})
  BY <1>4 DEF Grown, Written
<1>6. WellFormed(s2)
  <2> SUFFICES ASSUME NEW u \in Obj
               PROVE  /\ Range(s2[u].entries) \subseteq Written(s, Kind \ {"free"})
                      /\ \A x \in s2[u].facets : x[2] \in Written(s, {"dir"})
                      /\ s2[u].policy.to \in Written(s, {"gate"}) \cup {None}
                      /\ s2[u].kind = "faceted" => s2[u].label = Public
    BY <1>5 DEF WellFormed
  <2>1. CASE u = o
    BY <2>1, <1>3 DEF Redirects
  <2>2. CASE u # o
    BY <2>2, <1>3 DEF GoodStore, WellFormed
  <2> QED BY <2>1, <2>2
<1>7. Root \in Written(s2, {"dir"})
  BY <1>5 DEF GoodStore
<1>8. ASSUME NEW u \in Obj
      PROVE  GoodObject(K, s2, h2, u)
  <2>1. CASE u = o
    BY <2>1, <1>3 DEF GoodObject
  <2>2. CASE u # o
    BY <2>2, <1>3 DEF GoodStore, GoodObject
  <2> QED BY <2>1, <2>2
<1>9. GoodStore(K, s2, h2)
  BY <1>2, <1>6, <1>7, <1>8 DEF GoodStore
<1> QED BY <1>4, <1>9 DEF s2, h2

\* An object with no entries and no facets is one.
LEMMA ObjectFacts ==
  ASSUME NEW k \in Kind, NEW l \in Label, NEW pol \in Policy
  PROVE  /\ Object(k, l, pol) \in Objects
         /\ Object(k, l, pol).kind = k /\ Object(k, l, pol).label = l
         /\ Object(k, l, pol).policy = pol /\ Object(k, l, pol).facets = {}
         /\ Range(Object(k, l, pol).entries) = {}
<1>1. NoEntries \in [{} -> Obj] /\ Range(NoEntries) = {}
  BY DEF NoEntries, Range
<1>2. NoEntries \in UNION {[S -> Obj] : S \in SUBSET Name}
  BY <1>1
<1> QED BY <1>1, <1>2 DEF Object, Objects

\* The policy of objects that have none.
LEMMA NoPolicyGood ==
  ASSUME NEW s
  PROVE  GoodPolicy(s, NoPolicy)
BY Formulas, Labelings, GuardedFacts DEF GoodPolicy, NoPolicy, Policy, Redirects

-----------------------------------------------------------------------------
(* Steps. *)

\* What is good when the principals K are excepted is good when L are, too.
LEMMA Excepted ==
  ASSUME NEW K, NEW L, K \subseteq L
  PROVE  /\ \A l, S : Covers(K, l, S) => Covers(L, l, S)
         /\ \A j : GoodJob(K, j) => GoodJob(L, j)
         /\ \A m : GoodReply(K, m) => GoodReply(L, m)
         /\ \A s, h : GoodStore(K, s, h) => GoodStore(L, s, h)
         /\ \A s, t, r : GoodThread(K, s, t, r) => GoodThread(L, s, t, r)
<1>1. \A l, S : Covers(K, l, S) => Covers(L, l, S)
  BY DEF Covers, Protects
<1>2. \A j : GoodJob(K, j) => GoodJob(L, j)
  BY <1>1 DEF GoodJob
<1>3. \A m : GoodReply(K, m) => GoodReply(L, m)
  BY <1>1 DEF GoodReply
<1>4. \A s, h, o : GoodObject(K, s, h, o) => GoodObject(L, s, h, o)
  BY <1>1 DEF GoodObject
<1>5. \A s, h : GoodStore(K, s, h) => GoodStore(L, s, h)
  BY <1>4 DEF GoodStore
<1>6. \A t, r : Cleared(K, t, r) => Cleared(L, t, r)
  BY DEF Cleared
<1>7. \A s, t, r : GoodThread(K, s, t, r) => GoodThread(L, s, t, r)
  BY <1>1, <1>2, <1>6 DEF GoodThread
<1> QED BY <1>1, <1>2, <1>3, <1>5, <1>7

\* A step that replaces the record of one thread by a good one, in a good store
\* that only grew, leaves all threads good.
LEMMA ThreadStep ==
  ASSUME MonInv, NEW t \in Thread, NEW r, Became(t, r), leaked \subseteq leaked',
         Grown(store, store'), GoodThread(leaked', store', t, r)
  PROVE  GoodThreads'
<1>1. th \in [Thread -> ThreadRecord] /\ \A u \in Thread : GoodThread(leaked, store, u, th[u])
  BY DEF MonInv, GoodThreads
<1>2. th' = [th EXCEPT ![t] = r] /\ r \in ThreadRecord
  BY DEF Became, GoodThread
<1>3. th' \in [Thread -> ThreadRecord]
  BY <1>1, <1>2
<1>4. ASSUME NEW u \in Thread
      PROVE  GoodThread(leaked', store', u, th'[u])
  <2>1. CASE u = t
    BY <2>1, <1>1, <1>2
  <2>2. CASE u # t
    BY <2>2, <1>1, <1>2, GrownGood, Excepted
  <2> QED BY <2>1, <2>2
<1> QED BY <1>3, <1>4 DEF GoodThreads

\* The same for a step that leaves the store alone.
LEMMA QuietStep ==
  ASSUME MonInv, NEW t \in Thread, NEW r, Became(t, r), GoodThread(leaked', store, t, r),
         leaked \subseteq leaked', UNCHANGED <<store, holds>>
  PROVE  GoodStore(leaked', store', holds') /\ GoodThreads'
<1>1. Grown(store, store')
  BY DEF Grown
<1>2. GoodThread(leaked', store', t, r)
  OBVIOUS
<1>3. GoodStore(leaked', store', holds')
  BY Excepted DEF MonInv
<1> QED BY <1>1, <1>2, <1>3, ThreadStep

\* Invocations and answers that a step leaves alone stay good.
LEMMA CallsKept ==
  ASSUME MonInv, UNCHANGED calls
  PROVE  GoodCalls' /\ leaked' = leaked
BY DEF MonInv, GoodCalls, calls

\* The parts make up the invariant.
LEMMA Assembled ==
  ASSUME GoodStore(leaked', store', holds'), GoodThreads', GoodCalls'
  PROVE  MonInv'
BY DEF MonInv

\* The thread and its descriptors, as the invariant gives them.
LEMMA ThreadFacts ==
  ASSUME MonInv, NEW t \in Thread
  PROVE  /\ GoodStore(leaked, store, holds)
         /\ store \in [Obj -> Objects] /\ holds \in [Obj -> SUBSET Principal]
         /\ GoodThread(leaked, store, t, th[t])
         /\ th[t] \in ThreadRecord
         /\ th[t].dents \subseteq Written(store, Kind \ {"free"})
         /\ th[t].dents \subseteq Obj
         /\ th[t].cur \in Label /\ th[t].priv \in Component
         /\ th[t].seen \in SUBSET Principal
BY DEF MonInv, GoodStore, GoodThreads, GoodThread, Linked, ThreadRecord, Written

\* The type of an object and of its parts.
LEMMA ObjFacts ==
  ASSUME GoodStore(leaked, store, holds), NEW o \in Obj
  PROVE  /\ store[o] \in Objects /\ store[o].kind \in Kind /\ store[o].label \in Label
         /\ store[o].policy \in Policy /\ GoodPolicy(store, store[o].policy)
         /\ holds[o] \in SUBSET Principal
         /\ Range(store[o].entries) \subseteq Written(store, Kind \ {"free"})
         /\ \A x \in store[o].facets : x \in Label \X Obj /\ x[2] \in Written(store, {"dir"})
BY DEF GoodStore, GoodObject, WellFormed, Objects, GoodPolicy, Redirects

\* What a write reveals are principals.
LEMMA ExposedFacts ==
  ASSUME NEW r, r.seen \in SUBSET Principal
  PROVE  Exposed(r) \in SUBSET Principal
BY DEF Exposed

\* set_new_id of a good object.
LEMMA CreatedGood ==
  ASSUME MonInv, NEW t \in Thread, NEW r, GoodThread(leaked, store, t, r),
         NEW k \in Kind, k # "free", NEW l \in Label, NEW pol, GoodPolicy(store, pol),
         k = "faceted" => l = Public, NEW data \in SUBSET Principal, Covers(leaked, l, data),
         Created(t, r, Object(k, l, pol), data), leaked' = leaked
  PROVE  GoodStore(leaked', store', holds') /\ GoodThreads'
<1> DEFINE obj == Object(k, l, pol)
<1>1. PICK o \in Obj : /\ store[o].kind = "free"
                       /\ store' = [store EXCEPT ![o] = obj]
                       /\ holds' = [holds EXCEPT ![o] = data]
                       /\ Became(t, [r EXCEPT !.dents = @ \cup {o}])
  BY DEF Created
<1>2. GoodStore(leaked, store, holds) /\ store \in [Obj -> Objects]
  BY ThreadFacts
<1>3. /\ obj \in Objects /\ obj.kind = k /\ obj.label = l /\ obj.policy = pol
      /\ obj.facets = {} /\ Range(obj.entries) = {}
  BY ObjectFacts DEF GoodPolicy
<1> HIDE DEF obj
<1>4. Redirects(store, obj.policy) /\ Guarded(obj.policy.clearance, obj.policy.privilege)
  BY <1>3 DEF GoodPolicy
<1>5. GoodStore(leaked, store', holds') /\ Grown(store, store')
  BY <1>1, <1>2, <1>3, <1>4, ReplacedGood
<1>6. o \in Written(store', Kind \ {"free"})
  BY <1>1, <1>2, <1>3 DEF Written
<1>7. GoodThread(leaked, store', t, r)
  BY <1>5, GrownGood
<1>8. r.dents \cup {o} \subseteq Written(store', Kind \ {"free"})
  BY <1>6, <1>7 DEF GoodThread, Linked
<1>9. GoodThread(leaked, store', t, [r EXCEPT !.dents = r.dents \cup {o}])
  BY <1>7, <1>8, DentsGood
<1>10. [r EXCEPT !.dents = r.dents \cup {o}] = [r EXCEPT !.dents = @ \cup {o}]
  OBVIOUS
<1>11. GoodThreads'
  BY <1>1, <1>5, <1>9, <1>10, ThreadStep
<1> QED BY <1>5, <1>11

\* The creation of a gate or a service: the creator has the privilege it gives,
\* so it is no privilege that nobody has.
LEMMA CreateGuardedGood ==
  ASSUME MonInv, NEW t \in Thread, NEW r, GoodThread(leaked, store, t, r),
         NEW k \in {"gate", "service"}, NEW l \in Label, NEW pol \in Policy,
         Redirects(store, pol), CreateGuarded(t, r, k, l, pol), leaked' = leaked
  PROVE  GoodStore(leaked', store', holds') /\ GoodThreads'
<1>1. CASE MayWrite(r, l) /\ Implies(r.priv, pol.privilege)
  <2>1. /\ r.cur \in Label /\ r.priv \in Component /\ r.seen \in SUBSET Principal
        /\ Covers(leaked, r.cur, r.seen) /\ Powerless(r.priv)
    BY DEF GoodThread, ThreadRecord
  <2>2. Covers(leaked, l, Exposed(r)) /\ Exposed(r) \in SUBSET Principal
    BY <1>1, <2>1, MayWriteCovers, ExposedFacts
  <2>3. GoodPolicy(store, pol)
    BY <1>1, <2>1, PowerlessFacts, GuardedFacts DEF GoodPolicy
  <2>4. Created(t, r, Object(k, l, pol), Exposed(r))
    BY <1>1 DEF CreateGuarded
  <2>5. k \in Kind /\ k # "free" /\ k # "faceted"
    BY DEF Kind
  <2> QED BY <2>2, <2>3, <2>4, <2>5, CreatedGood
<1>2. CASE ~(MayWrite(r, l) /\ Implies(r.priv, pol.privilege))
  BY <1>2, QuietStep DEF CreateGuarded
<1> QED BY <1>1, <1>2

-----------------------------------------------------------------------------
(* System calls on the file system. *)

\* dent_open of a name
LEMMA DentOpenGood ==
  ASSUME MonInv, NEW t \in Thread, NEW d, NEW n, DentOpen(t, d, n)
  PROVE  MonInv'
<1> DEFINE r == Unlabel(th[t], d)
           e == store[d].entries
<1>1. d \in Obj /\ GoodThread(leaked, store, t, th[t]) /\ GoodStore(leaked, store, holds)
  BY ThreadFacts DEF DentOpen, HasFd
<1>2. GoodThread(leaked, store, t, r)
  BY <1>1, UnlabelGood
<1>3. CASE n \in DOMAIN e
  <2>1. e[n] \in Written(store, Kind \ {"free"})
    BY <1>1, <1>3, ObjFacts DEF Range
  <2>2. r.dents \cup {e[n]} \subseteq Written(store, Kind \ {"free"})
    BY <1>2, <2>1 DEF GoodThread, Linked
  <2>3. Became(t, [r EXCEPT !.dents = r.dents \cup {e[n]}])
    BY <1>3 DEF DentOpen
  <2>4. GoodThread(leaked, store, t, [r EXCEPT !.dents = r.dents \cup {e[n]}])
    BY <1>2, <2>2, DentsGood
  <2> HIDE DEF r, e
  <2> QED BY <2>3, <2>4, QuietStep, CallsKept, Assembled DEF DentOpen
<1>4. CASE n \notin DOMAIN e
  <2>1. Became(t, r)
    BY <1>4 DEF DentOpen
  <2> HIDE DEF r, e
  <2> QED BY <1>2, <2>1, QuietStep, CallsKept, Assembled DEF DentOpen
<1> QED BY <1>3, <1>4

\* dent_close
LEMMA DentCloseGood ==
  ASSUME MonInv, NEW t \in Thread, NEW o, DentClose(t, o)
  PROVE  MonInv'
<1>1. /\ GoodThread(leaked, store, t, th[t])
      /\ th[t].dents \ {o} \subseteq Written(store, Kind \ {"free"})
  BY ThreadFacts
<1>2. GoodThread(leaked, store, t, [th[t] EXCEPT !.dents = th[t].dents \ {o}])
  BY <1>1, DentsGood
<1>3. Became(t, [th[t] EXCEPT !.dents = th[t].dents \ {o}])
  BY DEF DentClose
<1> QED BY <1>2, <1>3, QuietStep, CallsKept, Assembled DEF DentClose

\* dent_read, dent_list, dent_ls_gate, dent_get_blob
LEMMA ReadsGood ==
  ASSUME MonInv, NEW t \in Thread, NEW o, o \in th[t].dents, Reads(t, o)
  PROVE  MonInv'
<1>1. o \in Obj /\ GoodThread(leaked, store, t, th[t]) /\ GoodStore(leaked, store, holds)
  BY ThreadFacts
<1>2. GoodThread(leaked, store, t, Unlabel(th[t], o))
  BY <1>1, UnlabelGood
<1> QED BY <1>2, QuietStep, CallsKept, Assembled DEF Reads

\* taint_with_label, also by dent_list_faceted
LEMMA TaintGood ==
  ASSUME MonInv, NEW t \in Thread, NEW l \in Label, Became(t, Tainted(th[t], l)),
         UNCHANGED <<store, holds, calls>>
  PROVE  MonInv'
<1>1. GoodThread(leaked, store, t, Tainted(th[t], l))
  BY ThreadFacts, CoversSelf, TaintedGood
<1> QED BY <1>1, QuietStep, CallsKept, Assembled

\* dent_open of a facet: the new directory is empty, whatever its label, and the
\* faceted directory that lists it has no label to respect.
LEMMA DentOpenFacetGood ==
  ASSUME MonInv, NEW t \in Thread, NEW d, NEW facet \in Label, DentOpenFacet(t, d, facet)
  PROVE  MonInv'
<1> DEFINE found == {x \in store[d].facets : x[1] = facet}
<1>1. /\ d \in Obj /\ store[d].kind = "faceted"
      /\ GoodThread(leaked, store, t, th[t]) /\ GoodStore(leaked, store, holds)
      /\ store \in [Obj -> Objects] /\ holds \in [Obj -> SUBSET Principal]
  BY ThreadFacts DEF DentOpenFacet, HasFd
<1>2. CASE found # {}
  <2>1. {x[2] : x \in found} \subseteq Written(store, Kind \ {"free"})
    BY <1>1, ObjFacts DEF Written, Kind
  <2>2. th[t].dents \cup {x[2] : x \in found} \subseteq Written(store, Kind \ {"free"})
    BY <2>1, ThreadFacts
  <2>3. GoodThread(leaked, store, t, [th[t] EXCEPT !.dents = th[t].dents \cup {x[2] : x \in found}])
    BY <1>1, <2>2, DentsGood
  <2>4. /\ Became(t, [th[t] EXCEPT !.dents = th[t].dents \cup {x[2] : x \in found}])
        /\ UNCHANGED <<store, holds, calls>>
    BY <1>2 DEF DentOpenFacet
  <2> HIDE DEF found
  <2> QED BY <2>3, <2>4, QuietStep, CallsKept, Assembled
<1>3. CASE found = {}
  <2>1. PICK o \in Obj :
          /\ store[o].kind = "free"
          /\ store' = [store EXCEPT ![o] = Object("dir", facet, NoPolicy),
                                    ![d].facets = @ \cup {<<facet, o>>}]
          /\ Became(t, [th[t] EXCEPT !.dents = @ \cup {o}])
    BY <1>3 DEF DentOpenFacet
  <2> DEFINE obj == Object("dir", facet, NoPolicy)
             s1  == [store EXCEPT ![o] = obj]
             top == [store[d] EXCEPT !.facets = @ \cup {<<facet, o>>}]
  <2>2. UNCHANGED <<holds, calls>>
    BY <1>3 DEF DentOpenFacet
  <2>3. o # d
    BY <1>1, <2>1
  <2>4. GoodPolicy(store, NoPolicy)
    BY NoPolicyGood
  <2>5. /\ obj \in Objects /\ obj.kind = "dir" /\ obj.label = facet /\ obj.policy = NoPolicy
        /\ obj.facets = {} /\ Range(obj.entries) = {}
    <3>1. NoPolicy \in Policy /\ "dir" \in Kind
      BY <2>4 DEF GoodPolicy, Kind
    <3> QED BY <3>1, ObjectFacts
  <2> HIDE DEF obj
  <2>6. holds[o] = {} /\ Covers(leaked, obj.label, holds[o])
    BY <1>1, <2>1, CoversSelf DEF GoodStore, GoodObject
  <2>7. GoodStore(leaked, s1, [holds EXCEPT ![o] = {}]) /\ Grown(store, s1)
    BY <1>1, <2>1, <2>4, <2>5, <2>6, ReplacedGood DEF GoodPolicy
  <2>8. [holds EXCEPT ![o] = {}] = holds
    BY <1>1, <2>6
  <2>9. s1 \in [Obj -> Objects] /\ s1[d] = store[d] /\ s1[o] = obj
    BY <1>1, <2>3, <2>5
  <2>10. store' = [s1 EXCEPT ![d] = top]
    BY <2>1, <2>3, <2>9, <1>1 DEF obj
  <2>11. /\ top \in Objects /\ top.kind = "faceted" /\ top.label = store[d].label
         /\ top.entries = store[d].entries /\ top.policy = store[d].policy
         /\ top.facets = store[d].facets \cup {<<facet, o>>}
    <3> DEFINE F == store[d].facets \cup {<<facet, o>>}
    <3>1. store[d] \in Objects
      BY <1>1
    <3>2. <<facet, o>> \in Label \X Obj
      OBVIOUS
    <3>3. F \in SUBSET (Label \X Obj)
      BY <3>1, <3>2 DEF Objects
    <3>4. top = [store[d] EXCEPT !.facets = F]
      OBVIOUS
    <3> HIDE DEF F, top
    <3>5. /\ top \in Objects /\ top.kind = store[d].kind /\ top.label = store[d].label
          /\ top.entries = store[d].entries /\ top.policy = store[d].policy /\ top.facets = F
      BY <3>1, <3>3, <3>4 DEF Objects
    <3> QED BY <1>1, <3>5 DEF F
  <2>12. o \in Written(s1, {"dir"}) /\ o \in Written(s1, Kind \ {"free"})
    BY <2>5, <2>9 DEF Written, Kind
  <2>13. /\ Range(top.entries) \subseteq Written(s1, Kind \ {"free"})
         /\ \A x \in top.facets : x[2] \in Written(s1, {"dir"})
         /\ Redirects(s1, top.policy) /\ Guarded(top.policy.clearance, top.policy.privilege)
         /\ top.label = Public /\ Covers(leaked, top.label, holds[d])
         /\ holds[d] \in SUBSET Principal
    <3> HIDE DEF s1, top
    <3>1. /\ Range(s1[d].entries) \subseteq Written(s1, Kind \ {"free"})
          /\ \A x \in s1[d].facets : x[2] \in Written(s1, {"dir"})
          /\ Redirects(s1, s1[d].policy)
          /\ Guarded(s1[d].policy.clearance, s1[d].policy.privilege)
          /\ (s1[d].kind = "faceted" => s1[d].label = Public)
          /\ Covers(leaked, s1[d].label, holds[d])
      BY <1>1, <2>7, <2>8 DEF GoodStore, GoodObject, WellFormed, Redirects
    <3>2. /\ top.kind = "faceted" /\ top.label = s1[d].label /\ top.entries = s1[d].entries
          /\ top.policy = s1[d].policy /\ top.facets = s1[d].facets \cup {<<facet, o>>}
          /\ s1[d].kind = "faceted"
      BY <1>1, <2>9, <2>11
    <3>3. \A x \in top.facets : x[2] \in Written(s1, {"dir"})
      BY <2>12, <3>1, <3>2
    <3> QED BY <1>1, <3>1, <3>2, <3>3
  <2>14. GoodStore(leaked, store', [holds EXCEPT ![d] = holds[d]]) /\ Grown(s1, store')
    <3> HIDE DEF s1, top
    <3>1. GoodStore(leaked, s1, holds) /\ s1[d].kind \in {"free", top.kind} /\ top.kind # "free"
      BY <2>7, <2>8, <2>9, <2>11, <1>1
    <3> QED BY <1>1, <2>10, <2>11, <2>13, <3>1, ReplacedGood
  <2>15. [holds EXCEPT ![d] = holds[d]] = holds
    BY <1>1
  <2>16. GoodStore(leaked, store', holds') /\ Grown(store, store')
    BY <2>2, <2>7, <2>14, <2>15 DEF Grown
  <2>17. GoodThread(leaked, store', t, th[t])
    BY <1>1, <2>16, GrownGood
  <2>18. o \in Written(store', Kind \ {"free"})
    BY <2>12, <2>14 DEF Written, Grown
  <2>19. th[t].dents \cup {o} \subseteq Written(store', Kind \ {"free"})
    BY <2>17, <2>18 DEF GoodThread, Linked
  <2>20. GoodThread(leaked, store', t, [th[t] EXCEPT !.dents = th[t].dents \cup {o}])
    BY <2>17, <2>19, DentsGood
  <2>21. Became(t, [th[t] EXCEPT !.dents = th[t].dents \cup {o}])
    BY <2>1
  <2> QED BY <2>2, <2>16, <2>20, <2>21, ThreadStep, CallsKept, Assembled
<1> QED BY <1>2, <1>3

\* dent_create of an empty object
LEMMA DentCreateGood ==
  ASSUME MonInv, NEW t \in Thread, NEW k, NEW l \in Label, DentCreate(t, k, l)
  PROVE  MonInv'
<1> DEFINE m == IF k = "faceted" THEN Public ELSE l
<1>1. k \in {"dir", "file", "faceted"} /\ Created(t, th[t], Object(k, m, NoPolicy), {})
  BY DEF DentCreate
<1>2. k \in Kind /\ k # "free"
  BY <1>1 DEF Kind
<1>3. m \in Label /\ (k = "faceted" => m = Public)
  BY Labelings
<1> HIDE DEF m
<1>4. GoodStore(leaked', store', holds') /\ GoodThreads'
  BY <1>1, <1>2, <1>3, ThreadFacts, NoPolicyGood, CoversSelf, CreatedGood, CallsKept
  DEF DentCreate
<1> QED BY <1>4, CallsKept, Assembled DEF DentCreate

\* dent_create of a blob
LEMMA DentCreateBlobGood ==
  ASSUME MonInv, NEW t \in Thread, NEW l \in Label, DentCreateBlob(t, l)
  PROVE  MonInv'
<1>1. GoodThread(leaked, store, t, th[t]) /\ th[t].seen \in SUBSET Principal
  BY ThreadFacts
<1>2. Covers(leaked, l, Exposed(th[t])) /\ Exposed(th[t]) \in SUBSET Principal
  BY <1>1, ThreadFacts, MayWriteCovers, ExposedFacts DEF DentCreateBlob, GoodThread
<1>3. Created(t, th[t], Object("blob", l, NoPolicy), Exposed(th[t])) /\ UNCHANGED calls
  BY DEF DentCreateBlob
<1>4. "blob" \in Kind
  BY DEF Kind
<1>5. GoodStore(leaked', store', holds') /\ GoodThreads'
  BY <1>1, <1>2, <1>3, <1>4, NoPolicyGood, CreatedGood, CallsKept
<1> QED BY <1>3, <1>5, CallsKept, Assembled

\* dent_create of a gate or a service
LEMMA GuardsGood ==
  ASSUME MonInv, NEW t \in Thread, Guards(t)
  PROVE  MonInv'
<1>1. PICK l \in Labels, p \in Privs, c \in Privs :
        \/ \E b \in Fds(t, {"blob"}) : DentCreateDirect(t, b, l, p, c)
        \/ \E g \in Fds(t, {"gate"}) : DentCreateRedirect(t, g, l, p, c)
        \/ \E taint \in Labels : DentCreateService(t, l, p, c, taint)
  BY DEF Guards
<1>2. l \in Label /\ p \in Component /\ c \in Component /\ Labels \subseteq Label
  BY LabelAssumption
<1>3. NoPolicy \in Policy /\ NoPolicy.to = None
  BY NoPolicyGood DEF GoodPolicy, NoPolicy
<1>4. CASE \E b \in Fds(t, {"blob"}) : DentCreateDirect(t, b, l, p, c)
  <2> DEFINE pol == [NoPolicy EXCEPT !.privilege = p, !.clearance = c]
  <2>1. PICK b \in th[t].dents :
          CreateGuarded(t, Unlabel(th[t], b), "gate", l, pol) /\ UNCHANGED calls
    BY <1>4 DEF Fds, DentCreateDirect
  <2>2. pol \in Policy /\ Redirects(store, pol)
    BY <1>2, <1>3 DEF Policy, Redirects
  <2> HIDE DEF pol
  <2>3. GoodThread(leaked, store, t, Unlabel(th[t], b))
    BY ThreadFacts, UnlabelGood
  <2> QED BY <1>2, <2>1, <2>2, <2>3, CreateGuardedGood, CallsKept, Assembled
<1>5. CASE \E g \in Fds(t, {"gate"}) : DentCreateRedirect(t, g, l, p, c)
  <2>1. PICK g \in th[t].dents :
          /\ store[g].kind = "gate"
          /\ CreateGuarded(t, th[t], "gate", l,
                           [NoPolicy EXCEPT !.privilege = p, !.clearance = c, !.to = g])
          /\ UNCHANGED calls
    BY <1>5 DEF Fds, DentCreateRedirect
  <2> DEFINE pol == [NoPolicy EXCEPT !.privilege = p, !.clearance = c, !.to = g]
  <2>2. g \in Written(store, {"gate"}) /\ g \in Obj
    BY <2>1, ThreadFacts DEF Written
  <2>3. pol \in Policy /\ pol.to = g
    BY <1>2, <1>3, <2>2 DEF Policy
  <2>4. Redirects(store, pol)
    BY <2>2, <2>3 DEF Redirects
  <2> HIDE DEF pol
  <2>5. CreateGuarded(t, th[t], "gate", l, pol)
    BY <2>1 DEF pol
  <2> QED BY <1>2, <2>1, <2>3, <2>4, <2>5, ThreadFacts, CreateGuardedGood, CallsKept, Assembled
<1>6. CASE \E taint \in Labels : DentCreateService(t, l, p, c, taint)
  <2>1. PICK taint \in Labels :
          CreateGuarded(t, th[t], "service", l,
                        [NoPolicy EXCEPT !.privilege = p, !.clearance = c, !.taint = taint])
    BY <1>6 DEF DentCreateService
  <2> DEFINE pol == [NoPolicy EXCEPT !.privilege = p, !.clearance = c, !.taint = taint]
  <2>2. pol \in Policy /\ Redirects(store, pol)
    BY <1>2, <1>3 DEF Policy, Redirects
  <2>3. UNCHANGED calls
    BY <1>6 DEF DentCreateService
  <2> HIDE DEF pol
  <2>4. CreateGuarded(t, th[t], "service", l, pol)
    BY <2>1 DEF pol
  <2> QED BY <1>2, <2>2, <2>3, <2>4, ThreadFacts, CreateGuardedGood, CallsKept, Assembled
<1> QED BY <1>1, <1>4, <1>5, <1>6

\* Threads that a step leaves alone stay good in a store that only grew.
LEMMA ThreadsKept ==
  ASSUME MonInv, Grown(store, store'), th' = th, leaked' = leaked
  PROVE  GoodThreads'
BY GrownGood DEF MonInv, GoodThreads

\* A write that the label of object o allows: the object keeps its kind and its
\* label, and gets the contents obj.
LEMMA WriteGood ==
  ASSUME MonInv, NEW t \in Thread, NEW r, GoodThread(leaked, store, t, r),
         NEW o \in Obj, store[o].kind \notin {"free", "faceted"}, MayWrite(r, store[o].label),
         NEW obj \in Objects, obj.kind = store[o].kind, obj.label = store[o].label,
         Range(obj.entries) \subseteq Written(store, Kind \ {"free"}),
         \A x \in obj.facets : x[2] \in Written(store, {"dir"}),
         GoodPolicy(store, obj.policy),
         NEW data, data = Exposed(r) \/ data = holds[o] \cup Exposed(r)
  PROVE  /\ GoodStore(leaked, [store EXCEPT ![o] = obj], [holds EXCEPT ![o] = data])
         /\ Grown(store, [store EXCEPT ![o] = obj])
<1>1. GoodStore(leaked, store, holds) /\ store[o].label \in Label /\ holds[o] \in SUBSET Principal
  BY ObjFacts DEF MonInv
<1>2. /\ r.cur \in Label /\ r.priv \in Component /\ r.seen \in SUBSET Principal
      /\ Covers(leaked, r.cur, r.seen)
  BY DEF GoodThread, ThreadRecord
<1>3. Covers(leaked, store[o].label, Exposed(r)) /\ Exposed(r) \in SUBSET Principal
  BY <1>1, <1>2, MayWriteCovers, ExposedFacts
<1>4. Covers(leaked, store[o].label, holds[o])
  BY <1>1 DEF GoodStore, GoodObject
<1>5. Covers(leaked, obj.label, data) /\ data \in SUBSET Principal
  BY <1>1, <1>3, <1>4 DEF Covers, Protects
<1> QED BY <1>1, <1>5, ReplacedGood DEF GoodPolicy

\* dent_update of a file or a blob
LEMMA OverwritesGood ==
  ASSUME MonInv, NEW t \in Thread, NEW o, o \in th[t].dents, store[o].kind \in {"file", "blob"},
         Overwrites(t, o)
  PROVE  MonInv'
<1>1. /\ o \in Obj /\ GoodThread(leaked, store, t, th[t]) /\ GoodStore(leaked, store, holds)
      /\ store \in [Obj -> Objects]
  BY ThreadFacts
<1>2. GoodStore(leaked, [store EXCEPT ![o] = store[o]], [holds EXCEPT ![o] = Exposed(th[t])])
  BY <1>1, ObjFacts, WriteGood DEF Overwrites
<1>3. [store EXCEPT ![o] = store[o]] = store
  BY <1>1
<1>4. GoodStore(leaked, store', holds') /\ Grown(store, store')
  BY <1>2, <1>3 DEF Overwrites, Grown
<1> QED BY <1>4, ThreadsKept, CallsKept, Assembled DEF Overwrites

\* A new policy in a gate or a service: the writer has the privilege it gives.
LEMMA PolicyWritten ==
  ASSUME MonInv, NEW t \in Thread, NEW o \in Obj, store[o].kind \in {"gate", "service"},
         NEW pol \in Policy, Redirects(store, pol), Implies(th[t].priv, pol.privilege),
         MayWrite(th[t], store[o].label),
         store' = [store EXCEPT ![o].policy = pol],
         holds' = [holds EXCEPT ![o] = Exposed(th[t])]
  PROVE  GoodStore(leaked, store', holds') /\ Grown(store, store')
<1> DEFINE obj == [store[o] EXCEPT !.policy = pol]
<1>1. /\ GoodThread(leaked, store, t, th[t]) /\ GoodStore(leaked, store, holds)
      /\ store \in [Obj -> Objects] /\ store[o] \in Objects
  BY ThreadFacts
<1>2. /\ obj \in Objects /\ obj.kind = store[o].kind /\ obj.label = store[o].label
      /\ obj.entries = store[o].entries /\ obj.facets = store[o].facets /\ obj.policy = pol
  BY <1>1 DEF Objects
<1>3. store' = [store EXCEPT ![o] = obj]
  BY <1>1
<1> HIDE DEF obj
<1>4. GoodPolicy(store, obj.policy)
  BY <1>1, <1>2, PowerlessFacts, GuardedFacts DEF GoodPolicy, GoodThread
<1>5. /\ Range(obj.entries) \subseteq Written(store, Kind \ {"free"})
      /\ \A x \in obj.facets : x[2] \in Written(store, {"dir"})
  BY <1>1, <1>2, ObjFacts
<1>6. store[o].kind \notin {"free", "faceted"}
  OBVIOUS
<1>7. /\ GoodStore(leaked, [store EXCEPT ![o] = obj], [holds EXCEPT ![o] = Exposed(th[t])])
      /\ Grown(store, [store EXCEPT ![o] = obj])
  BY <1>1, <1>2, <1>4, <1>5, <1>6, WriteGood
<1> QED BY <1>3, <1>7

\* dent_update of a service
LEMMA DentUpdateServiceGood ==
  ASSUME MonInv, NEW t \in Thread, NEW s, NEW p \in Privs, NEW c \in Privs, NEW taint \in Labels,
         DentUpdateService(t, s, p, c, taint)
  PROVE  MonInv'
<1> DEFINE pol == [NoPolicy EXCEPT !.privilege = p, !.clearance = c, !.taint = taint]
<1>1. taint \in Label /\ p \in Component /\ c \in Component
  BY LabelAssumption
<1>2. NoPolicy \in Policy /\ NoPolicy.to = None
  BY NoPolicyGood DEF GoodPolicy, NoPolicy
<1>3. pol \in Policy /\ Redirects(store, pol)
  BY <1>1, <1>2 DEF Policy, Redirects
<1>4. s \in Obj /\ store[s].kind = "service" /\ ServiceReplace(t, s, pol)
  BY ThreadFacts DEF DentUpdateService, HasFd
<1> HIDE DEF pol
<1>5. GoodStore(leaked, store', holds') /\ Grown(store, store')
  BY <1>3, <1>4, PolicyWritten DEF ServiceReplace
<1> QED BY <1>4, <1>5, ThreadsKept, CallsKept, Assembled DEF ServiceReplace

\* A thread between the two parts of dent_update of a gate.
LEMMA EditGood ==
  ASSUME NEW s, NEW t, NEW r, GoodThread(leaked, s, t, r), NEW e \in Edit \cup {None},
         e # None => e.gate \in Written(s, {"gate"}) /\ Redirects(s, e.policy)
  PROVE  GoodThread(leaked, s, t, [r EXCEPT !.edit = e])
<1> DEFINE q == [r EXCEPT !.edit = e]
<1>1. r \in ThreadRecord
  BY DEF GoodThread
<1>2. q \in ThreadRecord
  BY <1>1 DEF ThreadRecord
<1>3. /\ q.dents = r.dents /\ q.cur = r.cur /\ q.seen = r.seen
      /\ q.pc = r.pc /\ q.priv = r.priv /\ q.at = r.at
      /\ q.need = r.need /\ q.gain = r.gain /\ q.edit = e /\ q.job = r.job /\ q.got = r.got
  BY <1>1 DEF ThreadRecord
<1> HIDE DEF q
<1>4. Linked(s, t, q) /\ (Works(t, q) => GoodJob(leaked, q.job)) /\ Guarded(q.need, q.gain)
  BY <1>3 DEF GoodThread, Linked, Works
<1>5. GoodThread(leaked, s, t, q)
  BY <1>2, <1>3, <1>4, MovedGood
<1> QED BY <1>5 DEF q

\* dent_update of a gate, first part
LEMMA DentUpdateGateGood ==
  ASSUME MonInv, NEW t \in Thread, NEW g, NEW p \in Privs \cup {None}, NEW c \in Privs \cup {None},
         NEW to, NEW b, b = None \/ b \in th[t].dents, DentUpdateGate(t, g, p, c, to, b)
  PROVE  MonInv'
<1> DEFINE old == store[g].policy
           r   == Unlabel(th[t], g)
           q   == IF b = None THEN r ELSE Unlabel(r, b)
           pol == [old EXCEPT !.privilege = IF p = None THEN @ ELSE p,
                              !.clearance = IF c = None THEN @ ELSE c,
                              !.to = to]
           e   == [gate |-> g, policy |-> pol]
<1>1. /\ g \in Obj /\ store[g].kind = "gate" /\ GoodThread(leaked, store, t, th[t])
      /\ GoodStore(leaked, store, holds) /\ th[t].dents \subseteq Obj
  BY ThreadFacts DEF DentUpdateGate, HasFd
<1>2. GoodThread(leaked, store, t, q)
  BY <1>1, UnlabelGood
<1>3. to = None \/ to \in Written(store, {"gate"})
  BY <1>1 DEF DentUpdateGate, Written
<1>4. old \in Policy
  BY <1>1, ObjFacts
<1>5. pol \in Policy /\ pol.to = to
  <2>1. to \in Obj \cup {None}
    BY <1>3 DEF Written
  <2>2. \A x \in Component : (IF p = None THEN x ELSE p) \in Component
                             /\ (IF c = None THEN x ELSE c) \in Component
    BY LabelAssumption
  <2> QED BY <1>4, <2>1, <2>2 DEF Policy
<1>6. e \in Edit /\ e.gate \in Written(store, {"gate"}) /\ Redirects(store, e.policy)
  BY <1>1, <1>3, <1>5 DEF Edit, Written, Redirects
<1>7. Became(t, [q EXCEPT !.edit = e]) /\ UNCHANGED <<store, holds, calls>>
  BY DEF DentUpdateGate
<1> HIDE DEF q, e
<1>8. GoodThread(leaked, store, t, [q EXCEPT !.edit = e])
  BY <1>2, <1>6, EditGood
<1> QED BY <1>7, <1>8, QuietStep, CallsKept, Assembled

\* Second part: Gate::replace
LEMMA GateReplaceGood ==
  ASSUME MonInv, NEW t \in Thread, GateReplace(t)
  PROVE  MonInv'
<1> DEFINE e == th[t].edit
<1>1. /\ GoodThread(leaked, store, t, th[t]) /\ GoodStore(leaked, store, holds)
      /\ store \in [Obj -> Objects]
      /\ th[t] \in ThreadRecord
  BY ThreadFacts
<1>2. e # None
  BY DEF GateReplace
<1>3. e \in Edit /\ e.gate \in Written(store, {"gate"}) /\ Redirects(store, e.policy)
  BY <1>1, <1>2 DEF GoodThread, Linked, ThreadRecord
<1>4. e.gate \in Obj /\ store[e.gate].kind = "gate" /\ e.policy \in Policy
  BY <1>3 DEF Written, Edit
<1>5. GoodStore(leaked, store', holds') /\ Grown(store, store')
  <2>1. CASE Implies(th[t].priv, e.policy.privilege) /\ MayWrite(th[t], store[e.gate].label)
    <3>1. /\ store' = [store EXCEPT ![e.gate].policy = e.policy]
          /\ holds' = [holds EXCEPT ![e.gate] = Exposed(th[t])]
      BY <2>1 DEF GateReplace
    <3> HIDE DEF e
    <3> QED BY <2>1, <3>1, <1>3, <1>4, PolicyWritten
  <2>2. CASE ~(Implies(th[t].priv, e.policy.privilege) /\ MayWrite(th[t], store[e.gate].label))
    <3>1. UNCHANGED <<store, holds>>
      BY <2>2 DEF GateReplace
    <3> QED BY <1>1, <3>1 DEF Grown
  <2> QED BY <2>1, <2>2
<1>6. GoodThread(leaked, store', t, [th[t] EXCEPT !.edit = None])
  BY <1>1, <1>5, GrownGood, EditGood
<1>7. Became(t, [th[t] EXCEPT !.edit = None]) /\ UNCHANGED calls
  BY DEF GateReplace
<1> QED BY <1>5, <1>6, <1>7, ThreadStep, CallsKept, Assembled

\* dent_link and dent_unlink: the entries that remain or are added were written.
LEMMA ChangeEntriesGood ==
  ASSUME MonInv, NEW t \in Thread, NEW d, d \in th[t].dents, store[d].kind = "dir",
         NEW edit, edit \in UNION {[S -> Obj] : S \in SUBSET Name},
         Range(edit) \subseteq Written(store, Kind \ {"free"}), ChangeEntries(t, d, edit)
  PROVE  MonInv'
<1> DEFINE r   == Unlabel(th[t], d)
           obj == [store[d] EXCEPT !.entries = edit]
<1>1. /\ d \in Obj /\ GoodThread(leaked, store, t, th[t]) /\ GoodStore(leaked, store, holds)
      /\ store \in [Obj -> Objects] /\ store[d] \in Objects
  BY ThreadFacts
<1>2. GoodThread(leaked, store, t, r)
  BY <1>1, UnlabelGood
<1>3. /\ obj \in Objects /\ obj.kind = store[d].kind /\ obj.label = store[d].label
      /\ obj.entries = edit /\ obj.facets = store[d].facets /\ obj.policy = store[d].policy
  BY <1>1 DEF Objects
<1>4. GoodStore(leaked, store', holds') /\ Grown(store, store')
  <2>1. CASE MayWrite(r, store[d].label) /\ edit # store[d].entries
    <3>1. /\ store' = [store EXCEPT ![d] = obj]
          /\ holds' = [holds EXCEPT ![d] = holds[d] \cup Exposed(r)]
      BY <1>1, <2>1 DEF ChangeEntries
    <3> HIDE DEF r, obj
    <3> QED BY <1>1, <1>2, <1>3, <2>1, <3>1, ObjFacts, WriteGood
  <2>2. CASE ~(MayWrite(r, store[d].label) /\ edit # store[d].entries)
    <3>1. UNCHANGED <<store, holds>>
      BY <2>2 DEF ChangeEntries
    <3> QED BY <1>1, <3>1 DEF Grown
  <2> QED BY <2>1, <2>2
<1>5. Became(t, r) /\ UNCHANGED calls
  BY DEF ChangeEntries
<1> HIDE DEF r
<1>6. GoodThread(leaked, store', t, r)
  BY <1>2, <1>4, GrownGood
<1> QED BY <1>4, <1>5, <1>6, ThreadStep, CallsKept, Assembled

\* dent_link
LEMMA DentLinkGood ==
  ASSUME MonInv, NEW t \in Thread, NEW d, NEW n \in Name, NEW o, DentLink(t, d, n, o)
  PROVE  MonInv'
<1> DEFINE e    == store[d].entries
           edit == IF n \in DOMAIN e THEN e
                   ELSE [m \in DOMAIN e \cup {n} |-> IF m = n THEN o ELSE e[m]]
<1>1. /\ d \in th[t].dents /\ store[d].kind = "dir" /\ o \in th[t].dents
      /\ ChangeEntries(t, d, edit)
  BY DEF DentLink, HasFd
<1>2. /\ d \in Obj /\ o \in Obj /\ o \in Written(store, Kind \ {"free"})
      /\ store[d] \in Objects /\ Range(e) \subseteq Written(store, Kind \ {"free"})
  BY <1>1, ThreadFacts, ObjFacts
<1>3. PICK S \in SUBSET Name : e \in [S -> Obj]
  BY <1>2 DEF Objects
<1>4. edit \in [S -> Obj] \/ edit \in [S \cup {n} -> Obj]
  BY <1>2, <1>3
<1>5. edit \in UNION {[X -> Obj] : X \in SUBSET Name}
  BY <1>4
<1>6. Range(edit) \subseteq Written(store, Kind \ {"free"})
  BY <1>2 DEF Range
<1> HIDE DEF edit
<1> QED BY <1>1, <1>5, <1>6, ChangeEntriesGood

\* dent_unlink
LEMMA DentUnlinkGood ==
  ASSUME MonInv, NEW t \in Thread, NEW d, NEW n, DentUnlink(t, d, n)
  PROVE  MonInv'
<1> DEFINE e    == store[d].entries
           edit == Restrict(e, DOMAIN e \ {n})
<1>1. d \in th[t].dents /\ store[d].kind = "dir" /\ ChangeEntries(t, d, edit)
  BY DEF DentUnlink, HasFd
<1>2. d \in Obj /\ store[d] \in Objects /\ Range(e) \subseteq Written(store, Kind \ {"free"})
  BY <1>1, ThreadFacts, ObjFacts
<1>3. PICK S \in SUBSET Name : e \in [S -> Obj]
  BY <1>2 DEF Objects
<1>4. edit = [m \in S \ {n} |-> e[m]]
  BY <1>3 DEF Restrict
<1>5. edit \in [S \ {n} -> Obj] /\ Range(edit) \subseteq Range(e)
  BY <1>3, <1>4 DEF Range
<1>6. edit \in UNION {[X -> Obj] : X \in SUBSET Name}
  BY <1>5
<1> HIDE DEF edit
<1> QED BY <1>1, <1>2, <1>5, <1>6, ChangeEntriesGood

-----------------------------------------------------------------------------
(* Gates and services. *)

\* The types of invocations and answers.
LEMMA CallFacts ==
  ASSUME MonInv
  PROVE  /\ tasks \in Seq(Job) /\ \A i \in DOMAIN tasks : GoodJob(leaked, tasks[i])
         /\ made \in 0..MaxTasks
         /\ inbox \in [Thread -> Reply \cup {None}]
         /\ \A t \in Thread : inbox[t] # None => GoodReply(leaked, inbox[t])
         /\ vms \subseteq SUBSET Principal
BY DEF MonInv, GoodCalls

\* Gate::to_invokable begins
LEMMA ResolvingGood ==
  ASSUME GoodStore(leaked, store, holds), NEW t, NEW r, GoodThread(leaked, store, t, r),
         NEW g \in Obj,
         NEW sync \in BOOLEAN, t \in Worker => Works(t, r)
  PROVE  GoodThread(leaked, store, t, Resolving(r, g, sync))
<1> DEFINE u == Unlabel(r, g)
           q == Resolving(r, g, sync)
<1>1. GoodThread(leaked, store, t, u) /\ u \in ThreadRecord /\ r \in ThreadRecord
  BY UnlabelGood DEF GoodThread
<1>2. GoodPolicy(store, store[g].policy)
  BY ObjFacts
<1>3. u.pc = r.pc /\ u.job = r.job
  BY <1>1, UnlabelKeeps
<1>4. q = [u EXCEPT !.pc = "resolve", !.at = store[g].policy, !.need = DcTrue,
                    !.gain = DcTrue, !.sync = sync]
  BY DEF Resolving
<1> HIDE DEF u, q
<1>5. q \in ThreadRecord
  BY <1>1, <1>2, <1>4, Formulas DEF ThreadRecord, GoodPolicy
<1>6. /\ q.dents = u.dents /\ q.cur = u.cur /\ q.seen = u.seen
      /\ q.pc = "resolve" /\ q.priv = u.priv /\ q.at = store[g].policy
      /\ q.need = DcTrue /\ q.gain = DcTrue /\ q.edit = u.edit /\ q.job = u.job /\ q.got = u.got
  BY <1>1, <1>4 DEF ThreadRecord
<1>7. Linked(store, t, q) /\ Guarded(q.need, q.gain)
  BY <1>1, <1>2, <1>6, GuardedFacts DEF GoodThread, Linked
<1>8. Works(t, q) => GoodJob(leaked, q.job)
  BY <1>1, <1>3, <1>6 DEF GoodThread, Works
<1>9. GoodThread(leaked, store, t, q)
  BY <1>1, <1>5, <1>6, <1>7, <1>8, MovedGood
<1> QED BY <1>9 DEF q

\* dent_invoke of a gate
LEMMA DentInvokeGood ==
  ASSUME MonInv, NEW t \in Thread, NEW g, NEW sync \in BOOLEAN, DentInvoke(t, g, sync)
  PROVE  MonInv'
<1>1. /\ g \in Obj /\ th[t].pc = "run" /\ GoodThread(leaked, store, t, th[t])
      /\ GoodStore(leaked, store, holds)
  BY ThreadFacts DEF DentInvoke, HasFd, Running
<1>2. GoodThread(leaked, store, t, Resolving(th[t], g, sync))
  BY <1>1, ResolvingGood DEF Works
<1>3. GoodStore(leaked', store', holds') /\ GoodThreads'
  BY <1>2, QuietStep DEF DentInvoke
<1>4. made' \in 0..MaxTasks
  BY CallFacts, BoundAssumption DEF DentInvoke
<1>5. GoodCalls'
  BY <1>4, CallFacts DEF DentInvoke, GoodCalls
<1> QED BY <1>3, <1>5, Assembled

\* One level of redirection
LEMMA RedirectGood ==
  ASSUME MonInv, NEW t \in Thread, Redirect(t)
  PROVE  MonInv'
<1> DEFINE pol == th[t].at
           u   == Unlabel(th[t], pol.to)
           q   == [u EXCEPT !.at = store[pol.to].policy, !.need = And(@, pol.clearance),
                            !.gain = And(@, pol.privilege)]
<1>1. /\ GoodThread(leaked, store, t, th[t]) /\ GoodStore(leaked, store, holds)
      /\ th[t] \in ThreadRecord
      /\ th[t].pc = "resolve" /\ pol.to # None
  BY ThreadFacts DEF Redirect
<1>2. GoodPolicy(store, pol)
  BY <1>1 DEF GoodThread, Linked
<1>3. pol.to \in Obj
  BY <1>1, <1>2 DEF GoodPolicy, Redirects, Written
<1>4. GoodThread(leaked, store, t, u) /\ u \in ThreadRecord
  BY <1>1, <1>3, UnlabelGood DEF GoodThread
<1>5. GoodPolicy(store, store[pol.to].policy) /\ store[pol.to].policy \in Policy
  BY <1>1, <1>3, ObjFacts
<1>6. And(u.need, pol.clearance) \in Component /\ And(u.gain, pol.privilege) \in Component
  BY <1>2, <1>4, Formulas DEF GoodPolicy, Policy, ThreadRecord
<1>7. Guarded(And(u.need, pol.clearance), And(u.gain, pol.privilege))
  BY <1>2, <1>4, GuardedFacts DEF GoodPolicy, Policy, ThreadRecord, GoodThread
<1>8. u.pc = "resolve" /\ u.job = th[t].job
  BY <1>1, UnlabelKeeps
<1>9. Became(t, q) /\ UNCHANGED <<store, holds, calls>>
  BY DEF Redirect
<1>10. q = [u EXCEPT !.at = store[pol.to].policy, !.need = And(u.need, pol.clearance),
                     !.gain = And(u.gain, pol.privilege)]
  OBVIOUS
<1> HIDE DEF u, q, pol
<1>11. q \in ThreadRecord
  BY <1>4, <1>5, <1>6, <1>10 DEF ThreadRecord
<1>12. /\ q.dents = u.dents /\ q.cur = u.cur /\ q.seen = u.seen
       /\ q.pc = u.pc /\ q.priv = u.priv /\ q.at = store[pol.to].policy
       /\ q.need = And(u.need, pol.clearance) /\ q.gain = And(u.gain, pol.privilege)
       /\ q.edit = u.edit /\ q.job = u.job /\ q.got = u.got
  BY <1>4, <1>10 DEF ThreadRecord
<1>13. Linked(store, t, q)
  BY <1>4, <1>5, <1>8, <1>12 DEF GoodThread, Linked
<1>14. Works(t, q) => GoodJob(leaked, q.job)
  BY <1>4, <1>12 DEF GoodThread, Works
<1>15. GoodThread(leaked, store, t, q)
  BY <1>4, <1>7, <1>11, <1>12, <1>13, <1>14, MovedGood
<1> QED BY <1>9, <1>15, QuietStep, CallsKept, Assembled

\* A direct gate is reached: the task carries the label of the data it is sent
\* with, and the privilege that gates on the way have.
LEMMA ResolvedGood ==
  ASSUME MonInv, NEW t \in Thread, Resolved(t)
  PROVE  MonInv'
<1> DEFINE pol == th[t].at
           r   == [th[t] EXCEPT !.at = None, !.need = DcTrue, !.gain = DcTrue, !.sync = FALSE]
           task == [label |-> r.cur, privilege |-> And(th[t].gain, pol.privilege),
                    secrets |-> r.seen, from |-> IF th[t].sync THEN t ELSE None]
<1>1. /\ GoodThread(leaked, store, t, th[t]) /\ GoodStore(leaked, store, holds)
      /\ th[t] \in ThreadRecord
      /\ th[t].pc = "resolve"
  BY ThreadFacts DEF Resolved
<1>2. GoodPolicy(store, pol)
  BY <1>1 DEF GoodThread, Linked
<1>3. /\ r \in ThreadRecord
      /\ r.dents = th[t].dents /\ r.cur = th[t].cur /\ r.seen = th[t].seen
      /\ r.priv = th[t].priv /\ r.need = DcTrue /\ r.gain = DcTrue /\ r.edit = th[t].edit /\ r.job = th[t].job
      /\ r.got = th[t].got
  BY <1>1, Formulas DEF ThreadRecord
<1>4. ASSUME NEW pc \in {"call", "run", "idle"}
      PROVE  GoodThread(leaked, store, t, [r EXCEPT !.pc = pc])
  <2> DEFINE q == [r EXCEPT !.pc = pc]
  <2> HIDE DEF r
  <2>1. /\ q \in ThreadRecord
        /\ q.dents = r.dents /\ q.cur = r.cur /\ q.seen = r.seen /\ q.pc = pc
        /\ q.priv = r.priv /\ q.need = r.need /\ q.gain = r.gain /\ q.edit = r.edit /\ q.job = r.job
        /\ q.got = r.got
    BY <1>3 DEF ThreadRecord
  <2> HIDE DEF q
  <2>2. Linked(store, t, q) /\ Guarded(q.need, q.gain)
    BY <1>1, <1>3, <2>1, GuardedFacts DEF GoodThread, Linked
  <2>3. Works(t, q) => GoodJob(leaked, q.job)
    BY <1>1, <1>3, <2>1 DEF GoodThread, Works
  <2>4. GoodThread(leaked, store, t, q)
    BY <1>1, <1>3, <2>1, <2>2, <2>3, MovedGood
  <2> QED BY <2>4 DEF q
<1>5. ASSUME Implies(th[t].priv, And(th[t].need, pol.clearance))
      PROVE  GoodJob(leaked, task)
  <2>1. /\ And(th[t].gain, pol.privilege) \in Component
        /\ Guarded(And(th[t].need, pol.clearance), And(th[t].gain, pol.privilege))
    BY <1>1, <1>2, Formulas, GuardedFacts DEF GoodPolicy, Policy, ThreadRecord, GoodThread
  <2>2. Powerless(And(th[t].gain, pol.privilege))
    BY <1>1, <1>5, <2>1, GuardedFacts DEF GoodThread
  <2>3. r.cur \in Label /\ r.seen \in SUBSET Principal /\ Covers(leaked, r.cur, r.seen)
    BY <1>1, <1>3 DEF ThreadRecord, GoodThread
  <2>4. (IF th[t].sync THEN t ELSE None) \in Thread \cup {None}
    OBVIOUS
  <2> HIDE DEF r
  <2>5. task \in Job
    BY <2>1, <2>3, <2>4 DEF Job
  <2> QED BY <2>2, <2>3, <2>5 DEF GoodJob
<1>6. \E pc \in {"call", "run", "idle"} : Became(t, [r EXCEPT !.pc = pc])
  BY DEF Resolved
<1>7. GoodStore(leaked', store', holds') /\ GoodThreads'
  BY <1>4, <1>6, QuietStep DEF Resolved
<1>8. \/ tasks' = Append(tasks, task) /\ Implies(th[t].priv, And(th[t].need, pol.clearance))
      \/ tasks' = tasks
  BY <1>3 DEF Resolved
<1> HIDE DEF task
<1>9. tasks' \in Seq(Job) /\ \A i \in DOMAIN tasks' : GoodJob(leaked, tasks'[i])
  BY <1>5, <1>8, CallFacts DEF GoodJob
<1>10. GoodCalls'
  BY <1>9, CallFacts DEF Resolved, GoodCalls
<1> QED BY <1>7, <1>10, Assembled

\* dent_invoke of a service
LEMMA DentInvokeServiceGood ==
  ASSUME MonInv, NEW t \in Worker, NEW s, DentInvokeService(t, s)
  PROVE  MonInv'
<1> DEFINE r   == Unlabel(th[t], s)
           pol == store[s].policy
           d   == Declassified(r, pol.privilege)
           q   == [Tainted(d, pol.taint) EXCEPT !.seen = @ \cup Secrets(pol.taint)]
<1>1. /\ t \in Thread /\ s \in Obj /\ GoodThread(leaked, store, t, th[t])
      /\ GoodStore(leaked, store, holds)
  BY ThreadFacts DEF DentInvokeService, HasFd, Thread
<1>2. GoodThread(leaked, store, t, r)
  BY <1>1, UnlabelGood
<1>3. /\ pol.privilege \in Component /\ Guarded(pol.clearance, pol.privilege)
      /\ pol.taint \in Label
  BY <1>1, ObjFacts DEF GoodPolicy, Policy
<1> HIDE DEF r, pol
<1>4. ASSUME Implies(r.priv, pol.clearance)
      PROVE  GoodThread(leaked, store, t, q)
  <2>1. Powerless(pol.privilege)
    BY <1>2, <1>3, <1>4, GuardedFacts DEF GoodThread
  <2>2. GoodThread(leaked, store, t, d) /\ d \in ThreadRecord
    BY <1>2, <1>3, <2>1, DeclassifiedGood DEF GoodThread
  <2> HIDE DEF d
  <2>3. q = [d EXCEPT !.cur = Lub(@, pol.taint), !.seen = @ \cup Secrets(pol.taint)]
    BY <2>2 DEF Tainted, ThreadRecord
  <2>4. GoodThread(leaked, store, t,
                   [d EXCEPT !.cur = Lub(@, pol.taint), !.seen = @ \cup Secrets(pol.taint)])
    BY <1>3, <2>2, CoversSelf, TaintedGood
  <2> QED BY <2>3, <2>4
<1>5. (Implies(r.priv, pol.clearance) /\ Became(t, q)) \/ Became(t, r)
  BY DEF DentInvokeService, r, pol
<1>6. UNCHANGED <<store, holds, calls>>
  BY DEF DentInvokeService
<1> HIDE DEF q
<1> QED BY <1>1, <1>2, <1>4, <1>5, <1>6, QuietStep, CallsKept, Assembled

\* The answer to a synchronous dent_invoke
LEMMA DentInvokeReturnsGood ==
  ASSUME MonInv, NEW t \in Thread, DentInvokeReturns(t)
  PROVE  MonInv'
<1> DEFINE m == inbox[t]
           d == [th[t] EXCEPT !.cur = Lub(@, m.label), !.seen = @ \cup m.secrets]
<1>1. /\ GoodThread(leaked, store, t, th[t]) /\ th[t] \in ThreadRecord /\ th[t].pc = "call"
      /\ GoodReply(leaked, m)
  BY ThreadFacts, CallFacts DEF DentInvokeReturns
<1>2. m.label \in Label /\ m.secrets \in SUBSET Principal /\ Covers(leaked, m.label, m.secrets)
  BY <1>1 DEF GoodReply, Reply
<1>3. GoodThread(leaked, store, t, d) /\ d \in ThreadRecord
  BY <1>1, <1>2, TaintedGood DEF GoodThread
<1>4. \E pc \in {"run", "dead"} : Became(t, [Tainted(th[t], m.label) EXCEPT
                                             !.pc = pc, !.seen = @ \cup m.secrets])
  BY DEF DentInvokeReturns
<1>5. PICK pc \in {"run", "dead"} : Became(t, [d EXCEPT !.pc = pc])
  BY <1>1, <1>4 DEF Tainted, ThreadRecord
<1>6. d.pc = "call"
  BY <1>1 DEF ThreadRecord
<1> DEFINE q == [d EXCEPT !.pc = pc]
<1> HIDE DEF d
<1>7. /\ q \in ThreadRecord
      /\ q.dents = d.dents /\ q.cur = d.cur /\ q.seen = d.seen /\ q.pc = pc
      /\ q.priv = d.priv /\ q.need = d.need /\ q.gain = d.gain /\ q.edit = d.edit /\ q.job = d.job
      /\ q.got = d.got
  BY <1>3 DEF ThreadRecord
<1> HIDE DEF q
<1>8. Linked(store, t, q) /\ Guarded(q.need, q.gain) /\ (Works(t, q) => GoodJob(leaked, q.job))
  BY <1>3, <1>6, <1>7 DEF GoodThread, Linked, Works
<1>9. GoodThread(leaked, store, t, q)
  BY <1>3, <1>7, <1>8, MovedGood
<1>10. GoodStore(leaked', store', holds') /\ GoodThreads'
  BY <1>5, <1>9, QuietStep DEF DentInvokeReturns, q
<1>11. GoodCalls'
  BY CallFacts DEF DentInvokeReturns, GoodCalls
<1> QED BY <1>10, <1>11, Assembled

-----------------------------------------------------------------------------
(* The worker thread around the system calls. *)

\* SyscallProcessor::new for a good task: what the memory of the VM brings below
\* its label is excepted.
LEMMA FreshGood ==
  ASSUME NEW K, GoodStore(K, store, holds), NEW t \in Worker, NEW r, GoodThread(K, store, t, r),
         NEW j, GoodJob(K, j), NEW memory \in SUBSET Principal,
         memory \ Secrets(j.label) \subseteq K
  PROVE  GoodThread(K, store, t, Fresh(r, j, memory))
<1> DEFINE q == Fresh(r, j, memory)
           l == Lub(Public, j.label)
           S == j.secrets \cup memory
<1>1. r \in ThreadRecord
  BY DEF GoodThread
<1>2. /\ j \in Job /\ j.label \in Label /\ j.privilege \in Component
      /\ j.secrets \in SUBSET Principal /\ Covers(K, j.label, j.secrets) /\ Powerless(j.privilege)
  BY DEF GoodJob, Job
<1>3. Covers(K, j.label, S) /\ S \in SUBSET Principal
  BY <1>2 DEF Covers, Protects
<1>4. l \in Label /\ Covers(K, l, {} \cup S) /\ Powerless(l.integrity)
  BY <1>2, <1>3, Labelings, LubCovers, CoversSelf, PublicPowerless
<1>5. Root \in Obj /\ {Root} \subseteq Written(store, Kind \ {"free"})
  BY DEF GoodStore, Written, Kind
<1>6. q = [r EXCEPT !.pc = "run", !.job = j, !.cur = l, !.priv = j.privilege,
                    !.dents = {Root}, !.seen = S]
  BY DEF Fresh
<1> HIDE DEF l, S, q
<1>7. q \in ThreadRecord
  BY <1>1, <1>2, <1>3, <1>4, <1>5, <1>6 DEF ThreadRecord
<1>8. /\ q.pc = "run" /\ q.job = j /\ q.cur = l /\ q.priv = j.privilege /\ q.dents = {Root}
      /\ q.seen = S /\ q.need = r.need /\ q.gain = r.gain /\ q.edit = r.edit
  BY <1>1, <1>6 DEF ThreadRecord
<1>9. Linked(store, t, q)
  BY <1>5, <1>8 DEF GoodThread, Linked
<1>10. Cleared(K, t, q)
  BY ThreadAssumption DEF Cleared
<1>11. {} \cup S = S
  OBVIOUS
<1>12. Guarded(q.need, q.gain)
  BY <1>8 DEF GoodThread
<1>13. GoodThread(K, store, t, q)
  BY <1>2, <1>3, <1>4, <1>7, <1>8, <1>9, <1>10, <1>11, <1>12 DEF GoodThread
<1> QED BY <1>13 DEF q

\* A thread that remembers another label stays good.
LEMMA LeftGood ==
  ASSUME NEW K, NEW s, NEW t, NEW r, GoodThread(K, s, t, r), NEW l \in Label
  PROVE  GoodThread(K, s, t, [r EXCEPT !.left = l])
<1> DEFINE q == [r EXCEPT !.left = l]
<1>1. r \in ThreadRecord
  BY DEF GoodThread
<1>2. /\ q \in ThreadRecord
      /\ q.dents = r.dents /\ q.cur = r.cur /\ q.seen = r.seen
      /\ q.pc = r.pc /\ q.priv = r.priv /\ q.at = r.at
      /\ q.need = r.need /\ q.gain = r.gain /\ q.edit = r.edit /\ q.job = r.job /\ q.got = r.got
  BY <1>1 DEF ThreadRecord
<1> HIDE DEF q
<1>3. Linked(s, t, q) /\ (Works(t, q) => GoodJob(K, q.job)) /\ Guarded(q.need, q.gain)
  BY <1>2 DEF GoodThread, Linked, Works
<1>4. GoodThread(K, s, t, q)
  BY <1>2, <1>3, MovedGood
<1> QED BY <1>4 DEF q

\* The task at the head of the queue is good, and so are the others.
LEMMA HeadGood ==
  ASSUME MonInv, tasks # <<>>
  PROVE  /\ GoodJob(leaked, Head(tasks)) /\ Tail(tasks) \in Seq(Job)
         /\ \A i \in DOMAIN Tail(tasks) : GoodJob(leaked, Tail(tasks)[i])
<1>1. tasks \in Seq(Job) /\ \A i \in DOMAIN tasks : GoodJob(leaked, tasks[i])
  BY CallFacts
<1>2. Head(tasks) = tasks[1] /\ 1 \in DOMAIN tasks
  BY <1>1
<1>3. Tail(tasks) \in Seq(Job)
  BY <1>1
<1>4. ASSUME NEW i \in DOMAIN Tail(tasks)
      PROVE  Tail(tasks)[i] = tasks[i + 1] /\ i + 1 \in DOMAIN tasks
  BY <1>1
<1> QED BY <1>1, <1>2, <1>3, <1>4

\* A task is taken and given a VM.
LEMMA TakeTaskGood ==
  ASSUME MonInv, NEW w \in Worker, TakeTask(w)
  PROVE  MonInv'
<1> DEFINE job == Head(tasks)
           r   == [th[w] EXCEPT !.left = th[w].cur]
<1>1. /\ w \in Thread /\ GoodThread(leaked, store, w, th[w]) /\ GoodStore(leaked, store, holds)
      /\ th[w].cur \in Label
  BY ThreadFacts DEF Thread
<1>2. GoodThread(leaked, store, w, r)
  BY <1>1, LeftGood
<1>3. GoodJob(leaked, job) /\ tasks' = Tail(tasks)
  BY HeadGood DEF TakeTask
<1>4. PICK m \in SUBSET Principal :
        /\ Became(w, Fresh(r, job, m))
        /\ leaked \subseteq leaked' /\ m \ Secrets(job.label) \subseteq leaked'
  <2>1. CASE Became(w, Fresh(r, job, {})) /\ leaked' = leaked
    <3>1. {} \in SUBSET Principal /\ {} \ Secrets(job.label) \subseteq leaked'
      OBVIOUS
    <3> HIDE DEF r, job
    <3> QED BY <2>1, <3>1
  <2>2. CASE \E m \in vms : Brings(m, job) /\ Became(w, Fresh(r, job, m))
    <3>1. PICK m \in vms : Brings(m, job) /\ Became(w, Fresh(r, job, m))
      BY <2>2
    <3>2. m \in SUBSET Principal /\ leaked' = leaked \cup (m \ Secrets(job.label))
      BY <3>1, CallFacts DEF Brings
    <3> HIDE DEF r, job
    <3> QED BY <3>1, <3>2
  <2> QED BY <2>1, <2>2 DEF TakeTask
<1> HIDE DEF r, job
<1>5. /\ GoodStore(leaked', store, holds) /\ GoodThread(leaked', store, w, r)
      /\ GoodJob(leaked', job)
  BY <1>1, <1>2, <1>3, <1>4, Excepted
<1>6. GoodThread(leaked', store, w, Fresh(r, job, m))
  BY <1>4, <1>5, FreshGood
<1>7. GoodStore(leaked', store', holds') /\ GoodThreads'
  BY <1>1, <1>4, <1>6, QuietStep DEF TakeTask
<1>8. vms' \subseteq vms
  BY DEF TakeTask
<1>9. /\ tasks' \in Seq(Job) /\ \A i \in DOMAIN tasks' : GoodJob(leaked', tasks'[i])
      /\ \A t \in Thread : inbox[t] # None => GoodReply(leaked', inbox[t])
  BY <1>3, <1>4, HeadGood, CallFacts, Excepted DEF TakeTask
<1>10. GoodCalls'
  BY <1>8, <1>9, CallFacts DEF TakeTask, GoodCalls
<1> QED BY <1>7, <1>10, Assembled

\* rpc::finish with a good answer
LEMMA AnswerGood ==
  ASSUME MonInv, NEW j \in Job, NEW m, GoodReply(leaked, m), Answer(j, m), leaked' = leaked
  PROVE  /\ inbox' \in [Thread -> Reply \cup {None}]
         /\ \A t \in Thread : inbox'[t] # None => GoodReply(leaked', inbox'[t])
<1>1. inbox \in [Thread -> Reply \cup {None}] /\ m \in Reply /\ j.from \in Thread \cup {None}
  BY CallFacts DEF GoodReply, Job
<1>2. CASE j.from = None
  BY <1>2, CallFacts DEF Answer
<1>3. CASE j.from # None
  <2>1. inbox' = [inbox EXCEPT ![j.from] = m] /\ j.from \in Thread
    BY <1>1, <1>3 DEF Answer
  <2> QED BY <1>1, <2>1, CallFacts
<1> QED BY <1>2, <1>3

\* An answer without data is good under any label.
LEMMA EmptyReplyGood ==
  ASSUME NEW l \in Label
  PROVE  GoodReply(leaked, [ok |-> FALSE, label |-> l, secrets |-> {}])
BY CoversSelf DEF GoodReply, Reply

\* There is no memory for the VM of a task.
LEMMA ExhaustedGood ==
  ASSUME MonInv, NEW w \in Worker, Exhausted(w)
  PROVE  MonInv'
<1> DEFINE m == [ok |-> FALSE, label |-> th[w].cur, secrets |-> {}]
<1>1. w \in Thread /\ th[w].cur \in Label
  BY ThreadFacts DEF Thread
<1>2. GoodReply(leaked, m)
  BY <1>1, EmptyReplyGood
<1>3. Head(tasks) \in Job /\ tasks' = Tail(tasks) /\ Answer(Head(tasks), m)
  BY HeadGood DEF Exhausted, GoodJob
<1> HIDE DEF m
<1>4. /\ inbox' \in [Thread -> Reply \cup {None}]
      /\ \A t \in Thread : inbox'[t] # None => GoodReply(leaked', inbox'[t])
  BY <1>2, <1>3, AnswerGood DEF Exhausted
<1>5. GoodCalls'
  BY <1>3, <1>4, HeadGood, CallFacts DEF Exhausted, GoodCalls
<1>6. GoodStore(leaked', store', holds') /\ GoodThreads'
  BY DEF Exhausted, MonInv, GoodThreads
<1> QED BY <1>5, <1>6, Assembled

\* Between tasks a worker keeps its label and its privilege, and no data.
LEMMA DoneGood ==
  ASSUME NEW s, NEW t, NEW r, GoodThread(leaked, s, t, r)
  PROVE  GoodThread(leaked, s, t, Done(r))
<1> DEFINE q == Done(r)
<1>1. IdleThread \in ThreadRecord /\ r \in ThreadRecord /\ r.cur \in Label /\ r.priv \in Component
  BY IdleGood DEF GoodThread, ThreadRecord
<1>2. /\ q \in ThreadRecord /\ q.cur = r.cur /\ q.priv = r.priv /\ q.pc = "idle"
      /\ q.dents = {} /\ q.seen = {} /\ q.edit = None
      /\ q.need = DcTrue /\ q.gain = DcTrue /\ q.got = {}
  <2>1. /\ IdleThread.pc = "idle" /\ IdleThread.dents = {} /\ IdleThread.seen = {}
        /\ IdleThread.edit = None /\ IdleThread.got = {}
        /\ IdleThread.need = DcTrue /\ IdleThread.gain = DcTrue
    BY DEF IdleThread
  <2> QED BY <1>1, <2>1 DEF Done, ThreadRecord
<1> HIDE DEF q
<1>3. Linked(s, t, q) /\ ~Works(t, q) /\ Cleared(leaked, t, q)
  BY <1>2 DEF Linked, Works, Cleared
<1>4. /\ Covers(leaked, q.cur, q.seen) /\ Powerless(q.priv) /\ Guarded(q.need, q.gain)
      /\ Powerless(q.cur.integrity)
  BY <1>2, CoversSelf, GuardedFacts DEF GoodThread
<1>5. GoodThread(leaked, s, t, q)
  BY <1>2, <1>3, <1>4 DEF GoodThread
<1> QED BY <1>5 DEF q

\* The Response system call
LEMMA RespondGood ==
  ASSUME MonInv, NEW w \in Worker, Respond(w)
  PROVE  MonInv'
<1> DEFINE r == Declassified(th[w], th[w].priv)
           m == [ok |-> TRUE, label |-> r.cur, secrets |-> r.seen]
<1>1. /\ w \in Thread /\ GoodThread(leaked, store, w, th[w]) /\ th[w] \in ThreadRecord
      /\ th[w].pc = "run" /\ th[w].seen \in SUBSET Principal
  BY ThreadFacts DEF Thread, Respond, Running
<1>2. GoodJob(leaked, th[w].job) /\ th[w].job \in Job
  BY <1>1 DEF GoodThread, Works, GoodJob
<1>3. GoodThread(leaked, store, w, r)
  BY <1>1, DeclassifiedGood DEF GoodThread, ThreadRecord
<1>4. /\ Answer(th[w].job, m) /\ Became(w, Done(r))
      /\ vms' = vms \cup {th[w].seen}
  BY DEF Respond
<1> HIDE DEF r
<1>5. GoodReply(leaked, m)
  BY <1>3 DEF GoodThread, ThreadRecord, GoodReply, Reply
<1> HIDE DEF m
<1>6. /\ inbox' \in [Thread -> Reply \cup {None}]
      /\ \A t \in Thread : inbox'[t] # None => GoodReply(leaked', inbox'[t])
  BY <1>2, <1>4, <1>5, AnswerGood DEF Respond
<1>7. vms' \subseteq SUBSET Principal
  BY <1>1, <1>4, CallFacts
<1>8. GoodCalls'
  BY <1>6, <1>7, CallFacts DEF Respond, GoodCalls
<1>9. GoodThread(leaked, store, w, Done(r))
  BY <1>3, DoneGood
<1>10. GoodStore(leaked', store', holds') /\ GoodThreads'
  BY <1>1, <1>4, <1>9, QuietStep DEF Respond
<1> QED BY <1>8, <1>10, Assembled

\* processor.run fails, and is tried again
LEMMA RetryGood ==
  ASSUME MonInv, NEW w \in Worker, Retry(w)
  PROVE  MonInv'
<1>1. /\ w \in Thread /\ GoodThread(leaked, store, w, th[w]) /\ GoodStore(leaked, store, holds)
      /\ th[w].pc = "run" /\ th[w].seen \in SUBSET Principal
  BY ThreadFacts DEF Thread, Retry, Running
<1>2. GoodJob(leaked, th[w].job)
  BY <1>1 DEF GoodThread, Works
<1>3. /\ leaked \subseteq leaked' /\ th[w].seen \ Secrets(th[w].job.label) \subseteq leaked'
  BY DEF Retry, Brings
<1>4. /\ GoodStore(leaked', store, holds) /\ GoodThread(leaked', store, w, th[w])
      /\ GoodJob(leaked', th[w].job)
  BY <1>1, <1>2, <1>3, Excepted
<1>5. GoodThread(leaked', store, w, Fresh(th[w], th[w].job, th[w].seen))
  BY <1>1, <1>3, <1>4, FreshGood
<1>6. GoodStore(leaked', store', holds') /\ GoodThreads'
  BY <1>1, <1>3, <1>5, QuietStep DEF Retry
<1>7. /\ \A i \in DOMAIN tasks : GoodJob(leaked', tasks[i])
      /\ \A t \in Thread : inbox[t] # None => GoodReply(leaked', inbox[t])
  BY <1>3, CallFacts, Excepted
<1>8. GoodCalls'
  BY <1>7, CallFacts DEF Retry, GoodCalls
<1> QED BY <1>6, <1>8, Assembled

\* processor.run fails for the last time
LEMMA FailGood ==
  ASSUME MonInv, NEW w \in Worker, Fail(w)
  PROVE  MonInv'
<1> DEFINE m == [ok |-> FALSE, label |-> th[w].left, secrets |-> {}]
<1>1. /\ w \in Thread /\ GoodThread(leaked, store, w, th[w])
      /\ th[w].pc = "run" /\ th[w].left \in Label
  BY ThreadFacts DEF Thread, Fail, Running, ThreadRecord
<1>2. th[w].job \in Job
  BY <1>1 DEF GoodThread, Works, GoodJob
<1>3. GoodReply(leaked, m)
  BY <1>1, EmptyReplyGood
<1>4. Answer(th[w].job, m) /\ Became(w, Done(th[w]))
  BY DEF Fail
<1> HIDE DEF m
<1>5. /\ inbox' \in [Thread -> Reply \cup {None}]
      /\ \A t \in Thread : inbox'[t] # None => GoodReply(leaked', inbox'[t])
  BY <1>2, <1>3, <1>4, AnswerGood DEF Fail
<1>6. GoodCalls'
  BY <1>5, CallFacts DEF Fail, GoodCalls
<1>7. GoodThread(leaked, store, w, Done(th[w]))
  BY <1>1, DoneGood
<1>8. GoodStore(leaked', store', holds') /\ GoodThreads'
  BY <1>1, <1>4, <1>7, QuietStep DEF Fail
<1> QED BY <1>6, <1>8, Assembled

-----------------------------------------------------------------------------
(* The gateway. *)

\* A request: the privilege is a login's, the payload as secret as its label says.
LEMMA ClientRequestGood ==
  ASSUME MonInv, NEW c \in Client, NEW login \in Logins, NEW l \in Labels,
         ClientRequest(c, login, l)
  PROVE  MonInv'
<1> DEFINE m == Lub(Public, l)
           S == Secrets(l)
           q == [IdleThread EXCEPT !.pc = "path", !.cur = m, !.priv = login, !.seen = S, !.at = Root]
<1>1. c \in Thread /\ l \in Label /\ login \in Component /\ GoodStore(leaked, store, holds)
  BY LabelAssumption DEF Thread, MonInv
<1>2. /\ m \in Label /\ Covers(leaked, m, {} \cup S) /\ Powerless(m.integrity)
      /\ S \in SUBSET Principal
  BY <1>1, Labelings, LubCovers, CoversSelf, PublicPowerless
<1>3. Covers(leaked, m, S)
  BY <1>2 DEF Covers, Protects
<1>4. Powerless(login)
  BY DEF Powerless, Unheld
<1>5. Root \in Obj /\ Root \in Written(store, {"dir"})
  BY <1>1 DEF GoodStore, Written
<1>6. /\ Became(c, q) /\ made < MaxTasks /\ made' = made + 1
      /\ UNCHANGED <<store, holds, tasks, inbox, vms, leaked>>
  BY DEF ClientRequest
<1>7. IdleThread \in ThreadRecord
  BY IdleGood DEF GoodThread
<1>8. /\ IdleThread.dents = {} /\ IdleThread.edit = None /\ IdleThread.got = {}
      /\ IdleThread.need = DcTrue /\ IdleThread.gain = DcTrue
  BY DEF IdleThread
<1> HIDE DEF m, S
<1>9. /\ q \in ThreadRecord /\ q.pc = "path" /\ q.cur = m /\ q.priv = login /\ q.seen = S
      /\ q.at = Root /\ q.dents = {} /\ q.edit = None
      /\ q.need = DcTrue /\ q.gain = DcTrue /\ q.got = {}
  BY <1>1, <1>2, <1>5, <1>7, <1>8 DEF ThreadRecord
<1> HIDE DEF q
<1>10. Linked(store, c, q) /\ ~Works(c, q) /\ Cleared(leaked, c, q)
  BY <1>5, <1>9 DEF Linked, Works, Cleared
<1>11. GoodThread(leaked, store, c, q)
  BY <1>2, <1>3, <1>4, <1>9, <1>10, GuardedFacts DEF GoodThread
<1>12. GoodStore(leaked', store', holds') /\ GoodThreads'
  BY <1>1, <1>6, <1>11, QuietStep
<1>13. made' \in 0..MaxTasks
  BY <1>6, CallFacts, BoundAssumption
<1>14. GoodCalls'
  BY <1>6, <1>13, CallFacts DEF GoodCalls
<1> QED BY <1>12, <1>14, Assembled

\* read_path: one component
LEMMA ClientPathGood ==
  ASSUME MonInv, NEW c \in Client, NEW n, ClientPath(c, n)
  PROVE  MonInv'
<1> DEFINE d == th[c].at
           r == Unlabel(th[c], d)
           e == store[d].entries
<1>1. /\ c \in Thread /\ c \notin Worker /\ GoodThread(leaked, store, c, th[c])
      /\ GoodStore(leaked, store, holds)
      /\ th[c].pc = "path" /\ th[c] \in ThreadRecord
  BY ThreadFacts, ThreadAssumption DEF Thread, ClientPath
<1>2. d \in Obj
  BY <1>1 DEF GoodThread, Linked, Written
<1>3. GoodThread(leaked, store, c, r) /\ r \in ThreadRecord
  BY <1>1, <1>2, UnlabelGood DEF GoodThread
<1>4. ASSUME n \in DOMAIN e
      PROVE  e[n] \in Obj
  BY <1>1, <1>2, <1>4, ObjFacts DEF Range, Written
<1>5. UNCHANGED <<store, holds, calls>>
  BY DEF ClientPath
<1>6. CASE n \in DOMAIN e /\ store[e[n]].kind = "dir" /\ Became(c, [r EXCEPT !.at = e[n]])
  <2> DEFINE q == [r EXCEPT !.at = e[n]]
  <2>1. e[n] \in Obj /\ e[n] \in Written(store, {"dir"})
    BY <1>4, <1>6 DEF Written
  <2>2. r.pc = "path"
    BY <1>1, UnlabelKeeps
  <2> HIDE DEF r, d, e
  <2>3. /\ q \in ThreadRecord
        /\ q.dents = r.dents /\ q.cur = r.cur /\ q.seen = r.seen
        /\ q.pc = r.pc /\ q.priv = r.priv /\ q.at = e[n]
        /\ q.need = r.need /\ q.gain = r.gain /\ q.edit = r.edit /\ q.job = r.job /\ q.got = r.got
    BY <1>3, <2>1 DEF ThreadRecord
  <2> HIDE DEF q
  <2>4. Linked(store, c, q) /\ ~Works(c, q) /\ Guarded(q.need, q.gain)
    BY <1>1, <1>3, <2>1, <2>2, <2>3 DEF GoodThread, Linked, Works
  <2>5. GoodThread(leaked, store, c, q)
    BY <1>3, <2>3, <2>4, MovedGood
  <2> QED BY <1>1, <1>5, <1>6, <2>5, QuietStep, CallsKept, Assembled DEF q
<1>7. CASE n \in DOMAIN e /\ Became(c, Resolving(r, e[n], TRUE))
  <2>1. GoodThread(leaked, store, c, Resolving(r, e[n], TRUE))
    BY <1>1, <1>3, <1>4, <1>7, ResolvingGood
  <2> QED BY <1>1, <1>5, <1>7, <2>1, QuietStep, CallsKept, Assembled
<1>8. CASE Became(c, [r EXCEPT !.pc = "idle", !.at = None])
  <2> DEFINE q == [r EXCEPT !.pc = "idle", !.at = None]
  <2> HIDE DEF r, d, e
  <2>1. /\ q \in ThreadRecord
        /\ q.dents = r.dents /\ q.cur = r.cur /\ q.seen = r.seen
        /\ q.pc = "idle" /\ q.priv = r.priv
        /\ q.need = r.need /\ q.gain = r.gain /\ q.edit = r.edit /\ q.job = r.job /\ q.got = r.got
    BY <1>3 DEF ThreadRecord
  <2> HIDE DEF q
  <2>2. Linked(store, c, q) /\ ~Works(c, q) /\ Guarded(q.need, q.gain)
    BY <1>1, <1>3, <2>1 DEF GoodThread, Linked, Works
  <2>3. GoodThread(leaked, store, c, q)
    BY <1>3, <2>1, <2>2, MovedGood
  <2> QED BY <1>1, <1>5, <1>8, <2>3, QuietStep, CallsKept, Assembled DEF q
<1> QED BY <1>6, <1>7, <1>8 DEF ClientPath

\* wait_for_completion: the check of the answer's label is enough.
LEMMA ClientReturnGood ==
  ASSUME MonInv, NEW c \in Client, ClientReturn(c)
  PROVE  MonInv'
<1> DEFINE m == inbox[c]
           G == IF m.ok /\ CanFlowToWithPrivilege(m.label, th[c].cur, th[c].priv)
                THEN m.secrets ELSE {}
           q == [th[c] EXCEPT !.pc = "idle", !.got = G]
<1>1. /\ c \in Thread /\ c \notin Worker /\ GoodThread(leaked, store, c, th[c])
      /\ th[c] \in ThreadRecord
      /\ m # None /\ GoodReply(leaked, m)
  BY ThreadFacts, CallFacts, ThreadAssumption DEF Thread, ClientReturn
<1>2. m.label \in Label /\ m.secrets \in SUBSET Principal /\ Covers(leaked, m.label, m.secrets)
  BY <1>1 DEF GoodReply, Reply
<1>3. G \in SUBSET Principal
  BY <1>2
<1>4. ASSUME NEW p \in G \ leaked
      PROVE  Implies(And(th[c].cur.secrecy, th[c].priv), Only(p))
  <2>1. CanFlowToWithPrivilege(m.label, th[c].cur, th[c].priv) /\ p \in m.secrets
    BY <1>4
  <2>2. Implies(m.label.secrecy, Only(p))
    BY <1>2, <1>4, <2>1 DEF Covers, Protects, Secrets
  <2> QED BY <2>1, <2>2 DEF CanFlowToWithPrivilege, Implies
<1>5. /\ Became(c, q) /\ inbox' = [inbox EXCEPT ![c] = None]
      /\ UNCHANGED <<store, holds, tasks, made, vms, leaked>>
  BY DEF ClientReturn
<1> HIDE DEF G
<1>6. /\ q \in ThreadRecord
      /\ q.dents = th[c].dents /\ q.cur = th[c].cur /\ q.seen = th[c].seen
      /\ q.pc = "idle" /\ q.priv = th[c].priv
      /\ q.need = th[c].need /\ q.gain = th[c].gain /\ q.edit = th[c].edit /\ q.got = G
  BY <1>1, <1>3 DEF ThreadRecord
<1> HIDE DEF q
<1>7. Linked(store, c, q) /\ ~Works(c, q)
  BY <1>1, <1>6 DEF GoodThread, Linked, Works
<1>8. Cleared(leaked, c, q)
  BY <1>4, <1>6 DEF Cleared
<1>9. GoodThread(leaked, store, c, q)
  BY <1>1, <1>6, <1>7, <1>8 DEF GoodThread
<1>10. GoodStore(leaked', store', holds') /\ GoodThreads'
  BY <1>1, <1>5, <1>9, QuietStep
<1>11. GoodCalls'
  BY <1>5, CallFacts DEF GoodCalls
<1> QED BY <1>10, <1>11, Assembled

-----------------------------------------------------------------------------
(* The invariant. *)

\* It holds at the start.
LEMMA MonInit == Init => MonInv
<1> SUFFICES ASSUME Init
             PROVE  MonInv
  OBVIOUS
<1>1. GoodStore(leaked, store, holds)
  <2>1. store = Store0 /\ Store0 \in [Obj -> Objects]
    BY StoreAssumption DEF Init
  <2>2. ASSUME NEW o \in Obj
        PROVE  /\ holds[o] = IF Store0[o].kind \in {"free", "faceted"} THEN {}
                             ELSE Secrets(Store0[o].label)
               /\ holds[o] \in SUBSET Principal
    BY CoversSelf DEF Init
  <2>3. holds \in [Obj -> SUBSET Principal]
    BY <2>2 DEF Init
  <2>4. ASSUME NEW o \in Obj
        PROVE  GoodObject(leaked, store, holds, o)
    <3>1. Guarded(store[o].policy.clearance, store[o].policy.privilege)
      BY <2>1 DEF Guarded, Unheld
    <3>2. Covers(leaked, store[o].label, holds[o]) /\ (store[o].kind = "free" => holds[o] = {})
      BY <2>1, <2>2, CoversSelf
    <3> QED BY <3>1, <3>2 DEF GoodObject
  <2> QED BY <2>1, <2>3, <2>4, StoreAssumption DEF GoodStore
<1>2. GoodThreads
  <2>1. th = [t \in Thread |-> IdleThread] /\ IdleThread \in ThreadRecord
    BY IdleGood DEF Init, GoodThread
  <2> QED BY <2>1, IdleGood DEF GoodThreads
<1>3. GoodCalls
  BY BoundAssumption DEF Init, GoodCalls
<1> QED BY <1>1, <1>2, <1>3 DEF MonInv

\* do_syscall keeps it.
LEMMA SyscallGood ==
  ASSUME MonInv, NEW t \in Worker, Syscall(t)
  PROVE  MonInv'
<1>1. t \in Thread /\ Labels \subseteq Label
  BY LabelAssumption DEF Thread
<1>2. CASE \E d, n : DentOpen(t, d, n)
  BY <1>1, <1>2, DentOpenGood
<1>3. CASE \E d : \E l \in Labels : DentOpenFacet(t, d, l)
  BY <1>1, <1>3, DentOpenFacetGood
<1>4. CASE \E d : \E l \in Labels : DentListFaceted(t, d, l)
  BY <1>1, <1>4, TaintGood DEF DentListFaceted
<1>5. CASE \E o : DentClose(t, o)
  BY <1>1, <1>5, DentCloseGood
<1>6. CASE \E o : DentRead(t, o) \/ DentLsGate(t, o) \/ DentGetBlob(t, o)
  BY <1>1, <1>6, ReadsGood DEF DentRead, DentLsGate, DentGetBlob, HasFd
<1>7. CASE \E k : \E l \in Labels : DentCreate(t, k, l)
  BY <1>1, <1>7, DentCreateGood
<1>8. CASE \E l \in Labels : DentCreateBlob(t, l)
  BY <1>1, <1>8, DentCreateBlobGood
<1>9. CASE Guards(t)
  BY <1>1, <1>9, GuardsGood
<1>10. CASE \E o : DentUpdate(t, o) \/ DentUpdateBlob(t, o)
  BY <1>1, <1>10, OverwritesGood DEF DentUpdate, DentUpdateBlob, HasFd
<1>11. CASE \E o : \E p \in Privs, c \in Privs, taint \in Labels :
               DentUpdateService(t, o, p, c, taint)
  BY <1>1, <1>11, DentUpdateServiceGood
<1>12. CASE \E g, to : \E p \in Privs \cup {None}, c \in Privs \cup {None},
                          b \in Fds(t, {"blob"}) \cup {None} : DentUpdateGate(t, g, p, c, to, b)
  BY <1>1, <1>12, DentUpdateGateGood DEF Fds
<1>13. CASE \E d, o : \E n \in Name : DentLink(t, d, n, o)
  BY <1>1, <1>13, DentLinkGood
<1>14. CASE \E d, n : DentUnlink(t, d, n)
  BY <1>1, <1>14, DentUnlinkGood
<1>15. CASE \E o : DentInvokeService(t, o)
  BY <1>15, DentInvokeServiceGood
<1>16. CASE \E o : \E sync \in BOOLEAN : DentInvoke(t, o, sync)
  BY <1>1, <1>16, DentInvokeGood
<1>17. CASE \E l \in Labels : TaintWithLabel(t, l)
  BY <1>1, <1>17, TaintGood DEF TaintWithLabel
<1> QED
  BY <1>2, <1>3, <1>4, <1>5, <1>6, <1>7, <1>8, <1>9, <1>10, <1>11, <1>12, <1>13, <1>14,
     <1>15, <1>16, <1>17 DEF Syscall

\* Every step keeps it.
LEMMA MonStep == MonInv /\ [Next]_vars => MonInv'
<1> SUFFICES ASSUME MonInv, [Next]_vars
             PROVE  MonInv'
  OBVIOUS
<1>1. ASSUME NEW w \in Worker,
             \/ Syscall(w) \/ TakeTask(w) \/ Respond(w)
             \/ Retry(w) \/ Fail(w) \/ Exhausted(w)
      PROVE  MonInv'
  BY <1>1, SyscallGood, TakeTaskGood, RespondGood, RetryGood, FailGood, ExhaustedGood
<1>2. ASSUME NEW c \in Client,
             \/ \E login \in Logins, l \in Labels : ClientRequest(c, login, l)
             \/ \E n \in Name : ClientPath(c, n)
             \/ ClientReturn(c)
      PROVE  MonInv'
  BY <1>2, ClientRequestGood, ClientPathGood, ClientReturnGood
<1>3. ASSUME NEW t \in Thread, Step(t)
      PROVE  MonInv'
  BY <1>3, GateReplaceGood, RedirectGood, ResolvedGood, DentInvokeReturnsGood DEF Step
<1>4. CASE UNCHANGED vars
  BY <1>4 DEF vars, MonInv, GoodThreads, GoodCalls
<1> QED BY <1>1, <1>2, <1>3, <1>4 DEF Next

\* The inductive invariant, in every reachable state.
LEMMA MonAlways == Spec => []MonInv
BY MonInit, MonStep, PTL DEF Spec

\* Types: in every reachable state, whatever functions call, entries, facets,
\* redirections and descriptors refer to objects that were written (the uids that
\* fs/mod.rs follows with unwrap() are there).
THEOREM MonitorTyped == Spec => []TypeOK
<1>1. MonInv => TypeOK
  <2> SUFFICES ASSUME MonInv
               PROVE  TypeOK
    OBVIOUS
  <2>1. store \in [Obj -> Objects] /\ WellFormed(store) /\ holds \in [Obj -> SUBSET Principal]
    BY DEF MonInv, GoodStore
  <2>2. ASSUME NEW t \in Thread
        PROVE  /\ th[t].pc \in {"idle", "path", "resolve", "call", "run", "dead"}
               /\ th[t].cur \in Label /\ th[t].priv \in Component
               /\ th[t].dents \subseteq Written(store, Kind \ {"free"})
               /\ th[t].seen \subseteq Principal
    BY ThreadFacts DEF ThreadRecord
  <2> QED BY <2>1, <2>2, CallFacts DEF TypeOK
<1> QED BY <1>1, MonAlways, PTL

\* Secrets stay contained, for any functions, labels and gates: the contents of an
\* object depend on a principal's secrets only if its label says so, a function with
\* the principal's privilege put them there, or the memory of a VM brought them into
\* an execution below their label.  The checks and the label arithmetic of
\* syscall_server.rs and fs/mod.rs leave no way around them; that of vm.rs, whose
\* label is never raised, does.
THEOREM SecretsContained == Spec => []ObjectsContained
<1>1. MonInv => ObjectsContained
  BY DEF MonInv, GoodStore, GoodObject, Covers, ObjectsContained
<1> QED BY <1>1, MonAlways, PTL

\* The floating label keeps up with the data: the labels of threads, invocations
\* and answers protect all that came with them, through reads, redirections, the
\* services' own privilege and taint, and declassification in Response; a repeated
\* try and a cached VM fall behind only by what the VM's memory kept.
THEOREM LabelsKeepUp == Spec => []ThreadsContained
<1>1. MonInv => ThreadsContained
  <2> SUFFICES ASSUME MonInv
               PROVE  ThreadsContained
    OBVIOUS
  <2>1. \A t \in Thread : Protects(th[t].cur, th[t].seen \ leaked)
    BY ThreadFacts DEF GoodThread, Covers
  <2>2. /\ \A i \in DOMAIN tasks : Protects(tasks[i].label, tasks[i].secrets \ leaked)
        /\ \A t \in Thread :
             inbox[t] # None => Protects(inbox[t].label, inbox[t].secrets \ leaked)
    BY CallFacts DEF GoodJob, GoodReply, Covers
  <2> QED BY <2>1, <2>2 DEF ThreadsContained
<1> QED BY <1>1, MonAlways, PTL

\* The gateway hands a client nothing it is not cleared for, but for what the memory
\* of a VM brought: the check in wait_for_completion is enough, because answers are
\* labeled for what they hold.
THEOREM ClientsCleared == Spec => []ClientCleared
<1>1. MonInv => ClientCleared
  BY ThreadFacts DEF ClientCleared, GoodThread, Cleared, Thread
<1> QED BY <1>1, MonAlways, PTL

\* Privilege is never made up, however gates and services are created, updated,
\* redirected and invoked, and whatever guests remember: the checks of create and
\* replace on the privilege a gate is given are enough, though the update of a gate
\* is a get and a set that others may come between, and the clearances a redirection
\* accumulates let nobody gain from a chain of gates what each alone would refuse.
THEOREM PrivilegeNeverMadeUp == Spec => []NoAmplification
<1>1. MonInv => NoAmplification
  <2> SUFFICES ASSUME MonInv
               PROVE  NoAmplification
    OBVIOUS
  <2>1. \A t \in Thread : Powerless(th[t].priv) /\ Guarded(th[t].need, th[t].gain)
    BY ThreadFacts DEF GoodThread
  <2>2. \A o \in Obj : Guarded(store[o].policy.clearance, store[o].policy.privilege)
    BY DEF MonInv, GoodStore, GoodObject
  <2>3. \A i \in DOMAIN tasks : Powerless(tasks[i].privilege)
    BY CallFacts DEF GoodJob
  <2> QED BY <2>1, <2>2, <2>3 DEF NoAmplification, Powerless, Guarded
<1> QED BY <1>1, MonAlways, PTL

-----------------------------------------------------------------------------
(* What is never changed. *)

\* A step changes only objects that were not written yet, or that somebody other
\* than an absent principal vouches for.
Spared ==
  \A o \in Obj : store[o].kind # "free" /\ ~Powerless(store[o].label.integrity)
                 => store'[o] = store[o] /\ holds'[o] = holds[o]

\* Who may write an object is not barred by its integrity.
LEMMA WriterVouched ==
  ASSUME MonInv, NEW t, NEW r, GoodThread(leaked, store, t, r), NEW o \in Obj,
         MayWrite(r, store[o].label)
  PROVE  Powerless(store[o].label.integrity)
<1>1. store[o].label \in Label
  BY ObjFacts DEF MonInv
<1>2. /\ r.cur \in Label /\ r.priv \in Component /\ Powerless(r.priv)
      /\ Powerless(r.cur.integrity)
  BY DEF GoodThread, ThreadRecord
<1> QED BY <1>1, <1>2, MayWriteVouched

\* One object is changed.
LEMMA OneChanged ==
  ASSUME MonInv, NEW o \in Obj, store[o].kind = "free" \/ Powerless(store[o].label.integrity),
         \A u \in Obj \ {o} : store'[u] = store[u] /\ holds'[u] = holds[u]
  PROVE  Spared
BY DEF Spared

\* set_new_id
LEMMA CreatedSpares ==
  ASSUME MonInv, NEW t, NEW r, NEW obj, NEW data, Created(t, r, obj, data)
  PROVE  Spared
<1>1. PICK o \in Obj : /\ store[o].kind = "free"
                       /\ store' = [store EXCEPT ![o] = obj]
                       /\ holds' = [holds EXCEPT ![o] = data]
  BY DEF Created
<1>2. store \in [Obj -> Objects] /\ holds \in [Obj -> SUBSET Principal]
  BY DEF MonInv, GoodStore
<1> QED BY <1>1, <1>2, OneChanged

\* The creation of a gate or service.
LEMMA CreateGuardedSpares ==
  ASSUME MonInv, NEW t, NEW r, NEW k, NEW l, NEW pol, CreateGuarded(t, r, k, l, pol)
  PROVE  Spared
<1>1. CASE MayWrite(r, l) /\ Implies(r.priv, pol.privilege)
  BY <1>1, CreatedSpares DEF CreateGuarded
<1>2. CASE ~(MayWrite(r, l) /\ Implies(r.priv, pol.privilege))
  BY <1>2 DEF CreateGuarded, Spared
<1> QED BY <1>1, <1>2

\* dent_open of a facet changes a faceted directory, which nobody vouches for.
LEMMA DentOpenFacetSpares ==
  ASSUME MonInv, NEW t \in Thread, NEW d, NEW facet, DentOpenFacet(t, d, facet)
  PROVE  Spared
<1>1. /\ d \in Obj /\ store[d].kind = "faceted" /\ store \in [Obj -> Objects]
  BY ThreadFacts DEF DentOpenFacet, HasFd
<1>2. Powerless(store[d].label.integrity)
  BY <1>1, PublicPowerless DEF MonInv, GoodStore, WellFormed
<1>3. CASE UNCHANGED <<store, holds>>
  BY <1>3 DEF Spared
<1>4. CASE \E o \in Obj : /\ store[o].kind = "free"
                          /\ store' = [store EXCEPT ![o] = Object("dir", facet, NoPolicy),
                                                    ![d].facets = @ \cup {<<facet, o>>}]
                          /\ UNCHANGED holds
  BY <1>1, <1>2, <1>4 DEF Spared
<1> QED BY <1>3, <1>4 DEF DentOpenFacet

\* dent_update of a file, a blob or a service, and Gate::replace
LEMMA UpdateSpares ==
  ASSUME MonInv, NEW t \in Thread,
         \/ \E o \in th[t].dents : Overwrites(t, o) \/ \E pol : ServiceReplace(t, o, pol)
         \/ GateReplace(t)
  PROVE  Spared
<1>1. /\ GoodThread(leaked, store, t, th[t]) /\ store \in [Obj -> Objects]
      /\ holds \in [Obj -> SUBSET Principal] /\ th[t].dents \subseteq Obj
  BY ThreadFacts
<1>2. CASE \E o \in th[t].dents : Overwrites(t, o)
  BY <1>1, <1>2, WriterVouched, OneChanged DEF Overwrites
<1>3. CASE \E o \in th[t].dents : \E pol : ServiceReplace(t, o, pol)
  BY <1>1, <1>3, WriterVouched, OneChanged DEF ServiceReplace
<1>4. CASE GateReplace(t)
  <2> DEFINE e == th[t].edit
  <2>1. e.gate \in Obj
    BY <1>1, <1>4 DEF GateReplace, GoodThread, Linked, Written
  <2>2. CASE MayWrite(th[t], store[e.gate].label)
                /\ store' = [store EXCEPT ![e.gate].policy = e.policy]
                /\ holds' = [holds EXCEPT ![e.gate] = Exposed(th[t])]
    BY <1>1, <2>1, <2>2, WriterVouched, OneChanged
  <2>3. CASE UNCHANGED <<store, holds>>
    BY <2>3 DEF Spared
  <2> QED BY <1>4, <2>2, <2>3 DEF GateReplace
<1> QED BY <1>2, <1>3, <1>4

\* dent_link and dent_unlink
LEMMA ChangeEntriesSpares ==
  ASSUME MonInv, NEW t \in Thread, NEW d, d \in th[t].dents, NEW edit, ChangeEntries(t, d, edit)
  PROVE  Spared
<1> DEFINE r == Unlabel(th[t], d)
<1>1. /\ d \in Obj /\ store \in [Obj -> Objects] /\ holds \in [Obj -> SUBSET Principal]
      /\ GoodThread(leaked, store, t, r)
  BY ThreadFacts, UnlabelGood
<1>2. CASE /\ MayWrite(r, store[d].label)
           /\ store' = [store EXCEPT ![d].entries = edit]
           /\ holds' = [holds EXCEPT ![d] = @ \cup Exposed(r)]
  <2> HIDE DEF r
  <2> QED BY <1>1, <1>2, WriterVouched, OneChanged
<1>3. CASE UNCHANGED <<store, holds>>
  BY <1>3 DEF Spared
<1> QED BY <1>2, <1>3 DEF ChangeEntries

\* do_syscall
LEMMA SyscallSpares ==
  ASSUME MonInv, NEW t \in Worker, Syscall(t)
  PROVE  Spared
<1>1. t \in Thread
  BY DEF Thread
<1>2. CASE UNCHANGED <<store, holds>>
  BY <1>2 DEF Spared
<1>3. CASE \E d : \E l \in Labels : DentOpenFacet(t, d, l)
  BY <1>1, <1>3, DentOpenFacetSpares
<1>4. CASE \E r, obj, data : Created(t, r, obj, data)
  BY <1>4, CreatedSpares
<1>5. CASE \E r, k, l, pol : CreateGuarded(t, r, k, l, pol)
  BY <1>5, CreateGuardedSpares
<1>6. CASE \E o \in th[t].dents : Overwrites(t, o) \/ \E pol : ServiceReplace(t, o, pol)
  BY <1>1, <1>6, UpdateSpares
<1>7. CASE \E d \in th[t].dents : \E edit : ChangeEntries(t, d, edit)
  BY <1>1, <1>7, ChangeEntriesSpares
<1>8. CASE \E d, n : DentOpen(t, d, n)
  BY <1>2, <1>8 DEF DentOpen
<1>9. CASE \/ \E d : \E l \in Labels : DentListFaceted(t, d, l)
           \/ \E o : DentClose(t, o) \/ Reads(t, o)
           \/ \E g, p, c, to, b : DentUpdateGate(t, g, p, c, to, b)
           \/ \E o : DentInvokeService(t, o) \/ \E sync \in BOOLEAN : DentInvoke(t, o, sync)
           \/ \E l \in Labels : TaintWithLabel(t, l)
  BY <1>2, <1>9 DEF DentListFaceted, DentClose, Reads, DentUpdateGate, DentInvokeService,
                    DentInvoke, TaintWithLabel
<1>10. CASE \E k : \E l \in Labels : DentCreate(t, k, l) \/ DentCreateBlob(t, l)
  BY <1>4, <1>10 DEF DentCreate, DentCreateBlob
<1>11. CASE Guards(t)
  BY <1>5, <1>11 DEF Guards, DentCreateDirect, DentCreateRedirect, DentCreateService
<1>12. CASE \E o : DentUpdate(t, o) \/ DentUpdateBlob(t, o)
  BY <1>6, <1>12 DEF DentUpdate, DentUpdateBlob, HasFd
<1>13. CASE \E o, p, c, taint : DentUpdateService(t, o, p, c, taint)
  BY <1>6, <1>13 DEF DentUpdateService, HasFd
<1>14. CASE \E d, n, o : DentLink(t, d, n, o) \/ DentUnlink(t, d, n)
  BY <1>7, <1>14 DEF DentLink, DentUnlink, HasFd
<1> QED
  BY <1>3, <1>8, <1>9, <1>10, <1>11, <1>12, <1>13, <1>14
  DEF Syscall, DentRead, DentLsGate, DentGetBlob

\* Every step.
LEMMA NextSpares == MonInv /\ [Next]_vars => Spared
<1> SUFFICES ASSUME MonInv, [Next]_vars
             PROVE  Spared
  OBVIOUS
<1>1. CASE UNCHANGED <<store, holds>>
  BY <1>1 DEF Spared
<1>2. ASSUME NEW w \in Worker,
             TakeTask(w) \/ Respond(w) \/ Retry(w) \/ Fail(w) \/ Exhausted(w)
      PROVE  Spared
  BY <1>1, <1>2 DEF TakeTask, Respond, Retry, Fail, Exhausted
<1>3. ASSUME NEW c \in Client,
             \/ \E login \in Logins, l \in Labels : ClientRequest(c, login, l)
             \/ \E n \in Name : ClientPath(c, n)
             \/ ClientReturn(c)
      PROVE  Spared
  BY <1>1, <1>3 DEF ClientRequest, ClientPath, ClientReturn
<1>4. ASSUME NEW t \in Thread, Step(t)
      PROVE  Spared
  BY <1>1, <1>4, UpdateSpares DEF Step, Redirect, Resolved, DentInvokeReturns
<1>5. CASE UNCHANGED vars
  BY <1>1, <1>5 DEF vars
<1> QED BY <1>2, <1>3, <1>4, <1>5, SyscallSpares DEF Next

\* What only a principal without holders vouches for is never changed, in its
\* contents or in what they depend on, by any sequence of system calls of any
\* functions, a gate that two of them update at once included.
THEOREM VouchedUntouched == Spec => Untouched
<1>1. MonInv /\ [Next]_vars =>
        [\A o \in Obj : store[o].kind # "free"
                        /\ (\E p \in Unheld : Implies(store[o].label.integrity, Only(p)))
                        => store'[o] = store[o] /\ holds'[o] = holds[o]]_vars
  BY NextSpares DEF Spared, Powerless
<1> QED BY <1>1, MonAlways, PTL DEF Spec, Untouched

=============================================================================
