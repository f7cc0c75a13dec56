-------------------------- MODULE AdminToolsProofs --------------------------
(***************************************************************************)
(* Proofs about the tools that install things in the labeled file system,  *)
(* for any number of tools, names and programs.                            *)
(*                                                                         *)
(* The invariant has four parts.  Core says where each tool is in its      *)
(* program and which operation on the directory it is in, that an object   *)
(* that needs contents has some before anything can be bound to it, and    *)
(* that a name is bound only to what some program made for that name.      *)
(* Inv is the invariant of the compare-and-swap loops (DirectoryOpsProofs).*)
(* SoloOK says what a tool knows that has run with no other: what it saw   *)
(* in the directory is still there.  KeptNames says that a name that       *)
(* somebody installs and nobody removes is bound, or some install of it    *)
(* has not reached the point from which it counts as done.                 *)
(***************************************************************************)
EXTENDS AdminTools, DirectoryOpsProofs

Pc == {"idle", "end", "dead", "list", "put", "create", "unlink", "remove", "link"}

ToolRec == [pc : Pc, prog : Seq(Item), at : Nat, done : SUBSET Nat,
            target : Entry \cup {None}]

\* The acts of an item that can be at each place.
Doing(t) ==
  /\ tool[t].pc = "put"    => Current(t).act \in {"install", "replace"}
  /\ tool[t].pc = "create" => Current(t).act \in {"install", "once"}
  /\ tool[t].pc = "unlink" => Current(t).act = "install"
  /\ tool[t].pc = "remove" => Current(t).act = "remove"
  /\ tool[t].pc = "link"   => Current(t).act \in {"install", "make", "once"}

\* A started tool is at an item of its program, and has not done it yet.
ToolOK(t) ==
  /\ tool[t].pc = "idle" => tool[t].prog = << >> /\ tool[t].at = 1 /\ tool[t].done = {}
  /\ tool[t].pc # "idle" => /\ tool[t].prog \in Programs[t]
                            /\ tool[t].at \in 1..Len(tool[t].prog)
                            /\ tool[t].done \subseteq 1..tool[t].at
  /\ Running(t) => tool[t].at \notin tool[t].done
  /\ Doing(t)

\* The operation a tool is in is the one for the item it is at.
CallOK(t) ==
  /\ tool[t].pc \in {"unlink", "remove"} => call[t] = Unlinking(t)
  /\ tool[t].pc = "link" => call[t] = Linking(t)
  /\ tool[t].pc \notin {"unlink", "remove", "link"} => call[t] = None

\* An object of a kind that has contents has them.
ObjOK == /\ obj \in [Entry -> [kind : Kind \cup {"free"}, data : Thread \cup {None}]]
         /\ \A e \in Entry : obj[e].kind \in {"file", "blob", "gate"} => obj[e].data # None

\* A name is bound to what an item for that name has made.
Made(n, e) == \E u \in Thread : \E i \in 1..Len(tool[u].prog) :
                /\ e = <<u, i>>
                /\ tool[u].prog[i].name = n

DirOK == \A n \in DOMAIN dir : dir[n] \in Entry /\ Made(n, dir[n])

Core ==
  /\ Inv
  /\ tool \in [Thread -> ToolRec]
  /\ \A t \in Thread : ToolOK(t) /\ CallOK(t)
  /\ ObjOK
  /\ DirOK

\* Item i of t leaves behind what it says.
ItemHolds(t, i) ==
  LET it == tool[t].prog[i]
  IN  IF it.act = "remove"
      THEN it.name \notin DOMAIN dir
      ELSE /\ it.name \in DOMAIN dir
           /\ obj[dir[it.name]].kind = it.kind
           /\ it.act \in {"install", "replace"} => obj[dir[it.name]].data = t

\* A tool with no other around knows what it has seen: no name is in the way of
\* what it creates, the object it links is its own and as it made it, and a
\* result it was given still describes the directory.
SoloKnows(t) ==
  /\ tool[t].pc = "create" => ~Bound(t)
  /\ tool[t].pc = "link" =>
       /\ obj[<<t, tool[t].at>>].kind = Current(t).kind
       /\ Current(t).act = "install" => /\ obj[<<t, tool[t].at>>].data = t
                                        /\ ret[t] # "no"
                                        /\ ret[t] = None => ~Bound(t)
       /\ ret[t] = "ok" => Bound(t) /\ dir[Current(t).name] = <<t, tool[t].at>>
  /\ tool[t].pc \in {"unlink", "remove"} /\ ret[t] \in {"ok", "no"} => ~Bound(t)
  /\ tool[t].pc = "put" => RightKind(t) /\ tool[t].target = dir[Current(t).name]

\* No later item of t, up to the one it is at, is for the name of item i.
Last(t, i) == \A j \in (i + 1)..tool[t].at : tool[t].prog[j].name # tool[t].prog[i].name

SoloDone(t) == \A i \in tool[t].done : Last(t, i) => ItemHolds(t, i)

SoloOK ==
  \A t \in Thread : alone = t =>
    (\A u \in Thread \ {t} : ~Running(u)) /\ SoloKnows(t) /\ SoloDone(t)

\* Item i of t counts as done, or will unless t is killed or refused.
Settled(t, i) ==
  \/ i \in tool[t].done
  \/ /\ i = tool[t].at
     /\ \/ tool[t].pc = "put"
        \/ tool[t].pc = "link" /\ ret[t] \in {"ok", "no"}

Removes(t, n) == \E i \in 1..Len(tool[t].prog) : /\ tool[t].prog[i].act = "remove"
                                                 /\ tool[t].prog[i].name = n
Unsettled(t, n) == \E i \in 1..Len(tool[t].prog) : /\ tool[t].prog[i].act = "install"
                                                   /\ tool[t].prog[i].name = n
                                                   /\ ~Settled(t, i)

KeptNames ==
  \A n \in Name : (\E t \in Thread : Installs(t, n)) =>
    n \in DOMAIN dir \/ \E t \in Thread : Removes(t, n) \/ Unsettled(t, n)

ToolInv == Core /\ SoloOK /\ KeptNames

-----------------------------------------------------------------------------
(* What the steps of a tool do to its record, and what its calls are. *)

\* A started tool is at a proper item, and has a reference of its own for it.
LEMMA AtItem ==
  ASSUME Core, NEW t \in Thread, tool[t].pc # "idle"
  PROVE  /\ Current(t) \in Item
         /\ <<t, tool[t].at>> \in Entry
         /\ Current(t).act = "make" => Current(t).kind = "directory"
         /\ Current(t).act = "once" => Current(t).kind = "faceted"
<1>1. tool[t].prog \in Programs[t] /\ tool[t].at \in 1..Len(tool[t].prog)
  BY DEF Core, ToolOK
<1>2. tool[t].prog \in Seq(Item) /\ Len(tool[t].prog) \in 1..MaxItems /\ MaxItems \in Nat
  BY <1>1, ProgramsAssumption
<1>3. tool[t].at \in 1..MaxItems
  BY <1>1, <1>2
<1>4. <<t, tool[t].at>> \in Entry
  BY <1>3, EntryAssumption
<1>5. Current(t) \in Item
  BY <1>1, <1>2 DEF Current
<1> QED BY <1>1, <1>4, <1>5, ProgramsAssumption DEF Current

\* The calls of a started tool are operations of the directory.
LEMMA CallsAreOps ==
  ASSUME Core, NEW t \in Thread, tool[t].pc # "idle"
  PROVE  Unlinking(t) \in Op /\ Linking(t) \in Op
BY AtItem DEF Unlinking, Linking, Op, Item

LEMMA GotoFields ==
  ASSUME Core, NEW t \in Thread, NEW pc \in Pc, Goto(t, pc)
  PROVE  /\ tool' \in [Thread -> ToolRec]
         /\ \A u \in Thread \ {t} : tool'[u] = tool[u]
         /\ tool'[t].pc = pc /\ tool'[t].prog = tool[t].prog
         /\ tool'[t].at = tool[t].at /\ tool'[t].done = tool[t].done
BY DEF Core, Goto, ToolRec

LEMMA PutFields ==
  ASSUME Core, NEW t \in Thread, NEW e \in Entry,
         tool' = [tool EXCEPT ![t].pc = "put", ![t].target = e]
  PROVE  /\ tool' \in [Thread -> ToolRec]
         /\ \A u \in Thread \ {t} : tool'[u] = tool[u]
         /\ tool'[t].pc = "put" /\ tool'[t].prog = tool[t].prog
         /\ tool'[t].at = tool[t].at /\ tool'[t].done = tool[t].done
         /\ tool'[t].target = e
BY DEF Core, ToolRec, Pc

\* A finished item is done or not, and the tool is at the next one or has ended.
LEMMA FinishFields ==
  ASSUME Core, NEW t \in Thread, Running(t), NEW ok \in BOOLEAN, Finish(t, ok)
  PROVE  /\ tool' \in [Thread -> ToolRec]
         /\ \A u \in Thread \ {t} : tool'[u] = tool[u]
         /\ tool'[t].prog = tool[t].prog
         /\ tool'[t].done = IF ok THEN tool[t].done \cup {tool[t].at} ELSE tool[t].done
         /\ \/ tool'[t].pc = "end" /\ tool'[t].at = tool[t].at
            \/ /\ tool'[t].pc = "list" /\ tool'[t].at = tool[t].at + 1
               /\ tool'[t].at \in 1..Len(tool[t].prog)
<1> DEFINE stops == tool[t].at = Len(tool[t].prog) \/ (~ok /\ Current(t).must)
<1> DEFINE r == [tool[t] EXCEPT !.pc   = IF stops THEN "end" ELSE "list",
                                !.at   = IF stops THEN @ ELSE @ + 1,
                                !.done = IF ok THEN @ \cup {tool[t].at} ELSE @,
                                !.target = None]
<1>1. tool[t] \in ToolRec /\ tool[t].at \in 1..Len(tool[t].prog)
      /\ Len(tool[t].prog) \in Nat
  BY DEF Core, ToolOK, ToolRec, Running
<1>2. tool' = [tool EXCEPT ![t] = r]
  BY DEF Finish, Core
<1>3. /\ r.pc = (IF stops THEN "end" ELSE "list")
      /\ r.prog = tool[t].prog
      /\ r.at = (IF stops THEN tool[t].at ELSE tool[t].at + 1)
      /\ r.done = (IF ok THEN tool[t].done \cup {tool[t].at} ELSE tool[t].done)
  BY <1>1 DEF ToolRec
<1>4. r \in ToolRec
  <2>1. ASSUME NEW p \in Pc, NEW a \in Nat, NEW d \in SUBSET Nat
        PROVE  [tool[t] EXCEPT !.pc = p, !.at = a, !.done = d, !.target = None] \in ToolRec
    BY <1>1 DEF ToolRec
  <2>2. /\ (IF stops THEN "end" ELSE "list") \in Pc
        /\ (IF stops THEN tool[t].at ELSE tool[t].at + 1) \in Nat
        /\ (IF ok THEN tool[t].done \cup {tool[t].at} ELSE tool[t].done) \in SUBSET Nat
    BY <1>1 DEF ToolRec, Pc
  <2> QED BY <2>1, <2>2
<1>5. tool'[t] = r /\ tool' \in [Thread -> ToolRec] /\ \A u \in Thread \ {t} : tool'[u] = tool[u]
  BY <1>2, <1>4 DEF Core
<1> HIDE DEF r
<1>6. ~stops => tool[t].at + 1 \in 1..Len(tool[t].prog)
  BY <1>1
<1> QED BY <1>3, <1>5, <1>6

\* The tool is where it should be after an item.
LEMMA FinishOK ==
  ASSUME Core, NEW t \in Thread, Running(t), NEW ok \in BOOLEAN, Finish(t, ok)
  PROVE  ToolOK(t)'
<1>0. /\ tool'[t].prog = tool[t].prog
      /\ tool'[t].done \subseteq tool[t].done \cup {tool[t].at}
      /\ \/ tool'[t].pc = "end" /\ tool'[t].at = tool[t].at
         \/ /\ tool'[t].pc = "list" /\ tool'[t].at = tool[t].at + 1
            /\ tool'[t].at \in 1..Len(tool[t].prog)
  BY FinishFields
<1>1. /\ tool[t].prog \in Programs[t]
      /\ tool[t].at \in 1..Len(tool[t].prog)
      /\ tool[t].done \subseteq 1..tool[t].at
      /\ Len(tool[t].prog) \in Nat
  BY DEF Core, ToolOK, ToolRec, Running
<1>2. tool'[t].pc \in {"end", "list"}
  BY <1>0
<1>3. tool'[t].prog \in Programs[t] /\ tool'[t].at \in 1..Len(tool'[t].prog)
  BY <1>0, <1>1
<1>4. tool'[t].done \subseteq 1..tool[t].at
  BY <1>0, <1>1
<1>5. tool'[t].done \subseteq 1..tool'[t].at
  BY <1>0, <1>1, <1>4
<1>6. Running(t)' => tool'[t].at \notin tool'[t].done
  BY <1>0, <1>1, <1>4 DEF Running
<1>7. Doing(t)'
  BY <1>2 DEF Doing
<1> QED BY <1>2, <1>3, <1>5, <1>6, <1>7 DEF ToolOK

\* A step of t that leaves the records and calls of the others alone.
LEMMA OthersOK ==
  ASSUME Core, NEW t \in Thread, ToolOK(t)', CallOK(t)',
         \A u \in Thread \ {t} : tool'[u] = tool[u] /\ call'[u] = call[u]
  PROVE  \A u \in Thread : ToolOK(u)' /\ CallOK(u)'
<1> SUFFICES ASSUME NEW u \in Thread \ {t}
             PROVE  ToolOK(u)' /\ CallOK(u)'
  OBVIOUS
<1>1. tool'[u] = tool[u] /\ call'[u] = call[u] /\ ToolOK(u) /\ CallOK(u)
  BY DEF Core
<1> QED BY <1>1 DEF ToolOK, CallOK, Running, Doing, Current, Unlinking, Linking

\* Programs do not change while they run, so what was made for a name stays so.
LEMMA MadeStays ==
  ASSUME \A u \in Thread : tool[u].prog = << >> \/ tool'[u].prog = tool[u].prog,
         NEW n, NEW e, Made(n, e)
  PROVE  Made(n, e)'
BY DEF Made

-----------------------------------------------------------------------------
(* Core: each tool is where it should be, each name is bound to something. *)

\* Every step of a tool is a step of link or unlink, or none of theirs.
LEMMA ToolStepIsDirStep ==
  ASSUME Core, NEW t \in Thread, Start(t) \/ ToolStep(t) \/ ToolCrash(t)
  PROVE  [Next]_vars
<1>1. CASE Start(t) \/ ListOnce(t) \/ ReadReplaced(t) \/ Put(t) \/ Refused(t)
  BY <1>1 DEF Start, ListOnce, ReadReplaced, Put, Refused
<1>2. CASE ListInstall(t)
  <2>1. Unlinking(t) \in Op
    BY <1>2, CallsAreOps DEF ListInstall
  <2> QED BY <1>2, <2>1 DEF ListInstall, Next
<1>3. CASE Remove(t)
  <2>1. Unlinking(t) \in Op
    BY <1>3, CallsAreOps DEF Remove
  <2> QED BY <1>3, <2>1 DEF Remove, Next
<1>4. CASE Create(t)
  <2>1. Linking(t) \in Op
    BY <1>4, CallsAreOps DEF Create, Creates
  <2> QED BY <1>4, <2>1 DEF Create, Next
<1>5. CASE InOperation(t)
  BY <1>5 DEF InOperation, Next, Step
<1>6. CASE Unlinked(t) \/ Linked(t) \/ Removed(t)
  BY <1>6 DEF Unlinked, Linked, Removed, Next, Step
<1>7. CASE ToolCrash(t)
  BY <1>7 DEF ToolCrash, Next
<1> QED BY <1>1, <1>2, <1>3, <1>4, <1>5, <1>6, <1>7 DEF ToolStep

\* The invariant of the loops therefore holds under every step of a tool.
LEMMA ToolStepKeepsInv ==
  ASSUME Core, NEW t \in Thread, Start(t) \/ ToolStep(t) \/ ToolCrash(t)
  PROVE  Inv'
BY ToolStepIsDirStep, InvStep, InvStutter DEF Core, Next

\* A step that changes neither the directory nor a program keeps the bindings.
LEMMA DirKept ==
  ASSUME Core, UNCHANGED dir,
         \A u \in Thread : tool[u].prog = << >> \/ tool'[u].prog = tool[u].prog
  PROVE  DirOK'
BY MadeStays DEF Core, DirOK

\* A step of t that changes neither the objects nor the directory nor its program.
LEMMA LocalStep ==
  ASSUME Core, NEW t \in Thread, ToolStep(t) \/ ToolCrash(t),
         UNCHANGED <<dir, obj>>, tool' \in [Thread -> ToolRec],
         \A u \in Thread \ {t} : tool'[u] = tool[u] /\ call'[u] = call[u],
         tool'[t].prog = tool[t].prog, ToolOK(t)', CallOK(t)'
  PROVE  Core'
<1>1. Inv'
  BY ToolStepKeepsInv
<1>2. \A u \in Thread : ToolOK(u)' /\ CallOK(u)'
  BY OthersOK
<1>3. ObjOK'
  BY DEF Core, ObjOK
<1>4. DirOK'
  BY DirKept
<1> QED BY <1>1, <1>2, <1>3, <1>4 DEF Core

\* Invoke, Return and Crash touch the call of one thread.
LEMMA CallOfOne ==
  ASSUME Core, NEW t \in Thread
  PROVE  /\ \A op : Invoke(t, op) =>
                /\ call'[t] = op /\ UNCHANGED <<dir, ret>>
                /\ \A u \in Thread \ {t} : call'[u] = call[u]
         /\ Return(t) \/ Crash(t) =>
                /\ call'[t] = None /\ ret'[t] = None /\ UNCHANGED dir
                /\ \A u \in Thread \ {t} : call'[u] = call[u] /\ ret'[u] = ret[u]
         /\ Get(t) \/ CasSucceeds(t) \/ CasFails(t) =>
                /\ UNCHANGED call /\ call[t] # None /\ ret[t] = None
                /\ \A u \in Thread \ {t} : ret'[u] = ret[u]
BY DEF Core, Inv, TypeOK, Invoke, Return, Crash, Get, CasSucceeds, CasFails, Turn, Pending

LEMMA ListInstallCore ==
  ASSUME Core, NEW t \in Thread, ListInstall(t)
  PROVE  Core'
<1>0. /\ tool[t].pc = "list" /\ Current(t).act = "install" /\ Running(t)
      /\ tool[t].pc # "idle" /\ UNCHANGED <<dir, obj>> /\ ToolOK(t) /\ CallOK(t)
      /\ call[t] = None
  BY DEF ListInstall, Running, Core, Invoke, vars, CallOK
<1>1. CASE RightKind(t) /\ tool' = [tool EXCEPT ![t].pc = "put", ![t].target = dir[Current(t).name]]
           /\ UNCHANGED vars
  <2>1. dir[Current(t).name] \in Entry
    BY <1>1 DEF RightKind, Bound, Core, DirOK
  <2>2. /\ tool' \in [Thread -> ToolRec]
        /\ \A u \in Thread \ {t} : tool'[u] = tool[u]
        /\ tool'[t].pc = "put" /\ tool'[t].prog = tool[t].prog
        /\ tool'[t].at = tool[t].at /\ tool'[t].done = tool[t].done
    BY <1>1, <2>1, PutFields
  <2>3. ToolOK(t)'
    BY <1>0, <2>2 DEF ToolOK, Running, Doing, Current
  <2>4. CallOK(t)'
    BY <1>0, <1>1, <2>2 DEF CallOK, vars
  <2> QED BY <1>0, <1>1, <2>2, <2>3, <2>4, LocalStep DEF ToolStep, vars
<1>2. CASE Goto(t, "unlink") /\ Invoke(t, Unlinking(t))
  <2>2. /\ tool' \in [Thread -> ToolRec]
        /\ \A u \in Thread \ {t} : tool'[u] = tool[u]
        /\ tool'[t].pc = "unlink" /\ tool'[t].prog = tool[t].prog
        /\ tool'[t].at = tool[t].at /\ tool'[t].done = tool[t].done
    BY <1>2, GotoFields DEF Pc
  <2>3. ToolOK(t)'
    BY <1>0, <2>2 DEF ToolOK, Running, Doing, Current
  <2>4. CallOK(t)' /\ \A u \in Thread \ {t} : call'[u] = call[u]
    BY <1>0, <1>2, <2>2, CallOfOne DEF CallOK, Unlinking, Current
  <2> QED BY <1>0, <1>2, <2>2, <2>3, <2>4, LocalStep DEF ToolStep
<1>3. CASE Goto(t, "create") /\ UNCHANGED vars
  <2>2. /\ tool' \in [Thread -> ToolRec]
        /\ \A u \in Thread \ {t} : tool'[u] = tool[u]
        /\ tool'[t].pc = "create" /\ tool'[t].prog = tool[t].prog
        /\ tool'[t].at = tool[t].at /\ tool'[t].done = tool[t].done
    BY <1>3, GotoFields DEF Pc
  <2>3. ToolOK(t)'
    BY <1>0, <2>2 DEF ToolOK, Running, Doing, Current
  <2>4. CallOK(t)'
    BY <1>0, <1>3, <2>2 DEF CallOK, vars
  <2> QED BY <1>0, <1>3, <2>2, <2>3, <2>4, LocalStep DEF ToolStep, vars
<1> QED BY <1>1, <1>2, <1>3 DEF ListInstall

\* A step that only finishes the item, with no operation in progress afterwards.
LEMMA FinishCore ==
  ASSUME Core, NEW t \in Thread, ToolStep(t), Running(t), NEW ok \in BOOLEAN, Finish(t, ok),
         UNCHANGED <<dir, obj>>, call'[t] = None,
         \A u \in Thread \ {t} : call'[u] = call[u]
  PROVE  Core'
<1>1. /\ tool' \in [Thread -> ToolRec]
      /\ \A u \in Thread \ {t} : tool'[u] = tool[u]
      /\ tool'[t].prog = tool[t].prog
      /\ tool'[t].pc \in {"end", "list"}
  BY FinishFields
<1>2. ToolOK(t)'
  BY FinishOK
<1>3. CallOK(t)'
  BY <1>1 DEF CallOK
<1> QED BY <1>1, <1>2, <1>3, LocalStep

LEMMA ListOnceCore ==
  ASSUME Core, NEW t \in Thread, ListOnce(t)
  PROVE  Core'
<1>0. /\ tool[t].pc = "list" /\ Current(t).act = "once" /\ Running(t)
      /\ tool[t].pc # "idle" /\ UNCHANGED <<vars, dir, obj, call>> /\ ToolOK(t) /\ CallOK(t)
      /\ call[t] = None /\ ToolStep(t)
  BY DEF ListOnce, Running, Core, vars, CallOK, ToolStep
<1>1. CASE Finish(t, FALSE)
  BY <1>0, <1>1, FinishCore
<1>2. CASE Goto(t, "create")
  <2>2. /\ tool' \in [Thread -> ToolRec]
        /\ \A u \in Thread \ {t} : tool'[u] = tool[u]
        /\ tool'[t].pc = "create" /\ tool'[t].prog = tool[t].prog
        /\ tool'[t].at = tool[t].at /\ tool'[t].done = tool[t].done
    BY <1>2, GotoFields DEF Pc
  <2>3. ToolOK(t)'
    BY <1>0, <2>2 DEF ToolOK, Running, Doing, Current
  <2>4. CallOK(t)'
    BY <1>0, <2>2 DEF CallOK
  <2> QED BY <1>0, <2>2, <2>3, <2>4, LocalStep
<1> QED BY <1>1, <1>2 DEF ListOnce

LEMMA ReadReplacedCore ==
  ASSUME Core, NEW t \in Thread, ReadReplaced(t)
  PROVE  Core'
<1>0. /\ tool[t].pc = "list" /\ Current(t).act = "replace" /\ Running(t)
      /\ tool[t].pc # "idle" /\ UNCHANGED <<vars, dir, obj, call>> /\ ToolOK(t) /\ CallOK(t)
      /\ call[t] = None /\ ToolStep(t)
  BY DEF ReadReplaced, Running, Core, vars, CallOK, ToolStep
<1>1. CASE Finish(t, FALSE)
  BY <1>0, <1>1, FinishCore
<1>2. CASE RightKind(t) /\ tool' = [tool EXCEPT ![t].pc = "put", ![t].target = dir[Current(t).name]]
  <2>1. dir[Current(t).name] \in Entry
    BY <1>2 DEF RightKind, Bound, Core, DirOK
  <2>2. /\ tool' \in [Thread -> ToolRec]
        /\ \A u \in Thread \ {t} : tool'[u] = tool[u]
        /\ tool'[t].pc = "put" /\ tool'[t].prog = tool[t].prog
        /\ tool'[t].at = tool[t].at /\ tool'[t].done = tool[t].done
    BY <1>2, <2>1, PutFields
  <2>3. ToolOK(t)'
    BY <1>0, <2>2 DEF ToolOK, Running, Doing, Current
  <2>4. CallOK(t)'
    BY <1>0, <2>2 DEF CallOK
  <2> QED BY <1>0, <2>2, <2>3, <2>4, LocalStep
<1> QED BY <1>1, <1>2 DEF ReadReplaced

LEMMA RemoveCore ==
  ASSUME Core, NEW t \in Thread, Remove(t)
  PROVE  Core'
<1>0. /\ tool[t].pc = "list" /\ Current(t).act = "remove" /\ Running(t)
      /\ tool[t].pc # "idle" /\ UNCHANGED <<dir, obj>> /\ ToolOK(t) /\ ToolStep(t)
      /\ Invoke(t, Unlinking(t)) /\ Goto(t, "remove")
  BY DEF Remove, Running, Core, Invoke, ToolStep
<1>2. /\ tool' \in [Thread -> ToolRec]
      /\ \A u \in Thread \ {t} : tool'[u] = tool[u]
      /\ tool'[t].pc = "remove" /\ tool'[t].prog = tool[t].prog
      /\ tool'[t].at = tool[t].at /\ tool'[t].done = tool[t].done
  BY <1>0, GotoFields DEF Pc
<1>3. ToolOK(t)'
  BY <1>0, <1>2 DEF ToolOK, Running, Doing, Current
<1>4. CallOK(t)' /\ \A u \in Thread \ {t} : call'[u] = call[u]
  BY <1>0, <1>2, CallOfOne DEF CallOK, Unlinking, Current
<1> QED BY <1>0, <1>2, <1>3, <1>4, LocalStep

LEMMA RefusedCore ==
  ASSUME Core, NEW t \in Thread, Refused(t)
  PROVE  Core'
<1>0. /\ Running(t) /\ UNCHANGED <<vars, dir, obj, call>> /\ call[t] = None
      /\ ToolStep(t) /\ Finish(t, FALSE)
  BY DEF Refused, Running, Core, vars, CallOK, ToolStep
<1> QED BY <1>0, FinishCore

\* An operation that has returned ends the item or leads on to create.
LEMMA ReturnedCore ==
  ASSUME Core, NEW t \in Thread, Unlinked(t) \/ Linked(t) \/ Removed(t)
  PROVE  Core'
<1>0. /\ tool[t].pc \in {"unlink", "link", "remove"} /\ Running(t) /\ ToolStep(t)
      /\ UNCHANGED obj /\ Return(t) /\ ToolOK(t) /\ CallOK(t)
  BY DEF Unlinked, Linked, Removed, Running, ToolStep, Core
<1>1. /\ call'[t] = None /\ UNCHANGED dir
      /\ \A u \in Thread \ {t} : call'[u] = call[u]
  BY <1>0, CallOfOne
<1>2. ASSUME NEW ok \in BOOLEAN, Finish(t, ok)
      PROVE  Core'
  BY <1>0, <1>1, <1>2, FinishCore
<1>3. CASE tool[t].pc = "unlink" /\ Goto(t, "create")
  <2>2. /\ tool' \in [Thread -> ToolRec]
        /\ \A u \in Thread \ {t} : tool'[u] = tool[u]
        /\ tool'[t].pc = "create" /\ tool'[t].prog = tool[t].prog
        /\ tool'[t].at = tool[t].at /\ tool'[t].done = tool[t].done
    BY <1>3, GotoFields DEF Pc
  <2>3. ToolOK(t)'
    BY <1>0, <1>3, <2>2 DEF ToolOK, Running, Doing, Current
  <2>4. CallOK(t)'
    BY <1>1, <2>2 DEF CallOK
  <2> QED BY <1>0, <1>1, <2>2, <2>3, <2>4, LocalStep
<1> QED BY <1>2, <1>3 DEF Unlinked, Linked, Removed

\* Overwriting an object gives it contents.
LEMMA PutCore ==
  ASSUME Core, NEW t \in Thread, Put(t)
  PROVE  Core'
<1>0. /\ tool[t].pc = "put" /\ Running(t) /\ Finish(t, TRUE) /\ UNCHANGED <<vars, dir, call>>
      /\ call[t] = None
  BY DEF Put, Running, vars, Core, CallOK
<1>1. /\ tool' \in [Thread -> ToolRec]
      /\ \A u \in Thread \ {t} : tool'[u] = tool[u]
      /\ tool'[t].prog = tool[t].prog
      /\ tool'[t].pc \in {"end", "list"}
  BY <1>0, FinishFields
<1>2. ToolOK(t)' /\ CallOK(t)'
  BY <1>0, <1>1, FinishOK DEF CallOK
<1>3. \A u \in Thread : ToolOK(u)' /\ CallOK(u)'
  BY <1>0, <1>1, <1>2, OthersOK
<1>4. ObjOK'
  BY NoneIsNoThread DEF Put, Core, ObjOK
<1>5. DirOK'
  BY <1>0, <1>1, DirKept
<1>6. Inv'
  BY ToolStepKeepsInv DEF ToolStep
<1> QED BY <1>1, <1>3, <1>4, <1>5, <1>6 DEF Core

\* What a tool makes of a kind that has contents, it makes with its contents.
LEMMA CreateCore ==
  ASSUME Core, NEW t \in Thread, Create(t)
  PROVE  Core'
<1>0. /\ tool[t].pc \in {"create", "list"} /\ tool[t].pc # "idle" /\ ToolOK(t)
      /\ Current(t).act \in {"install", "make", "once"}
      /\ Invoke(t, Linking(t)) /\ Goto(t, "link") /\ UNCHANGED dir
  BY DEF Create, Creates, Core, ToolOK, Doing, Invoke
<1>1. /\ Current(t) \in Item /\ <<t, tool[t].at>> \in Entry
      /\ Current(t).act = "make" => Current(t).kind = "directory"
      /\ Current(t).act = "once" => Current(t).kind = "faceted"
  BY <1>0, AtItem
<1>2. /\ tool' \in [Thread -> ToolRec]
      /\ \A u \in Thread \ {t} : tool'[u] = tool[u]
      /\ tool'[t].pc = "link" /\ tool'[t].prog = tool[t].prog
      /\ tool'[t].at = tool[t].at /\ tool'[t].done = tool[t].done
  BY <1>0, GotoFields DEF Pc
<1>3. ToolOK(t)'
  BY <1>0, <1>2 DEF ToolOK, Running, Doing, Current
<1>4. CallOK(t)' /\ \A u \in Thread \ {t} : call'[u] = call[u]
  BY <1>0, <1>2, CallOfOne DEF CallOK, Linking, Current
<1>5. \A u \in Thread : ToolOK(u)' /\ CallOK(u)'
  BY <1>2, <1>3, <1>4, OthersOK
<1>6. ObjOK'
  <2> DEFINE o == [kind |-> Current(t).kind,
                   data |-> IF Current(t).act = "install" THEN t ELSE None]
  <2>1. o \in [kind : Kind \cup {"free"}, data : Thread \cup {None}]
    BY <1>1 DEF Item
  <2>2. o.kind \in {"file", "blob", "gate"} => o.data # None
    BY <1>0, <1>1, NoneIsNoThread
  <2>3. obj' = [obj EXCEPT ![<<t, tool[t].at>>] = o]
    BY DEF Create
  <2> HIDE DEF o
  <2> QED BY <1>1, <2>1, <2>2, <2>3 DEF Core, ObjOK
<1>7. DirOK'
  BY <1>0, <1>2, DirKept
<1>8. Inv'
  BY ToolStepKeepsInv DEF ToolStep
<1> QED BY <1>2, <1>5, <1>6, <1>7, <1>8 DEF Core

\* The operation in progress is on the name of the item.
LEMMA CallFields ==
  ASSUME Core, NEW t \in Thread
  PROVE  /\ tool[t].pc = "link" => /\ call[t].kind = "link" /\ call[t].name = Current(t).name
                                   /\ call[t].entry = <<t, tool[t].at>>
         /\ tool[t].pc \in {"unlink", "remove"} =>
              call[t].kind = "unlink" /\ call[t].name = Current(t).name
<1>1. CASE tool[t].pc = "link"
  <2>1. call[t] = Linking(t)
    BY <1>1 DEF Core, CallOK
  <2> QED BY <1>1, <2>1 DEF Linking
<1>2. CASE tool[t].pc \in {"unlink", "remove"}
  <2>1. call[t] = Unlinking(t)
    BY <1>2 DEF Core, CallOK
  <2> QED BY <1>2, <2>1 DEF Unlinking
<1> QED BY <1>1, <1>2

\* A successful compare-and-swap is the link or the unlink of the tool's item.
LEMMA CasEffect ==
  ASSUME Core, NEW t \in Thread, CasSucceeds(t)
  PROVE  \/ /\ tool[t].pc = "link" /\ ~Bound(t)
            /\ dir' = [n \in DOMAIN dir \cup {Current(t).name} |->
                         IF n = Current(t).name THEN <<t, tool[t].at>> ELSE dir[n]]
         \/ /\ tool[t].pc \in {"unlink", "remove"} /\ Bound(t)
            /\ dir' = [n \in DOMAIN dir \ {Current(t).name} |-> dir[n]]
<1>1. call[t] # None /\ dir = prev[t] /\ dir' = Edited(call[t], dir)
  BY DEF CasSucceeds, Pending
<1>2. ~Rejects(call[t], dir)
  BY DEF Core, Inv, CasReady, CasSucceeds
<1>3. CASE tool[t].pc = "link"
  BY <1>1, <1>2, <1>3, CallFields DEF Edited, Rejects, Existed, Bound
<1>4. CASE tool[t].pc \in {"unlink", "remove"}
  BY <1>1, <1>2, <1>4, CallFields DEF Edited, Rejects, Existed, Bound
<1> QED BY <1>1, <1>3, <1>4 DEF Core, CallOK

LEMMA InOperationCore ==
  ASSUME Core, NEW t \in Thread, InOperation(t)
  PROVE  Core'
<1>1. UNCHANGED <<obj, tool, call>>
  BY CallOfOne DEF InOperation
<1>2. \A u \in Thread : ToolOK(u)' /\ CallOK(u)'
  BY <1>1 DEF Core, ToolOK, CallOK, Running, Doing, Current, Unlinking, Linking
<1>3. ObjOK'
  BY <1>1 DEF Core, ObjOK
<1>4. DirOK'
  <2>1. CASE UNCHANGED dir
    BY <1>1, <2>1, DirKept
  <2>2. CASE CasSucceeds(t)
    <3>1. tool[t].pc # "idle"
      BY <2>2, CasEffect
    <3>2. <<t, tool[t].at>> \in Entry /\ Made(Current(t).name, <<t, tool[t].at>>)
      BY <3>1, AtItem DEF Core, ToolOK, Made, Current
    <3>3. \A n, e : Made(n, e) => Made(n, e)'
      BY <1>1 DEF Made
    <3>4. ASSUME NEW n \in DOMAIN dir'
          PROVE  dir'[n] \in Entry /\ Made(n, dir'[n])
      BY <2>2, <3>2, <3>4, CasEffect DEF Core, DirOK
    <3> QED BY <3>3, <3>4 DEF DirOK
  <2> QED BY <2>1, <2>2 DEF InOperation, Get, CasFails
<1>5. Inv'
  BY ToolStepKeepsInv DEF ToolStep
<1> QED BY <1>1, <1>2, <1>3, <1>4, <1>5 DEF Core

\* A dead tool is in no operation.
LEMMA ToolCrashCore ==
  ASSUME Core, NEW t \in Thread, ToolCrash(t)
  PROVE  Core'
<1>0. /\ Running(t) /\ Goto(t, "dead") /\ UNCHANGED obj /\ ToolOK(t)
      /\ Crash(t) \/ (call[t] = None /\ UNCHANGED vars)
  BY DEF ToolCrash, Goto, Core
<1>1. /\ tool' \in [Thread -> ToolRec]
      /\ \A u \in Thread \ {t} : tool'[u] = tool[u]
      /\ tool'[t].pc = "dead" /\ tool'[t].prog = tool[t].prog
      /\ tool'[t].at = tool[t].at /\ tool'[t].done = tool[t].done
  BY <1>0, GotoFields DEF Pc
<1>2. call'[t] = None /\ UNCHANGED dir /\ \A u \in Thread \ {t} : call'[u] = call[u]
  BY <1>0, CallOfOne DEF vars
<1>3. ToolOK(t)'
  BY <1>0, <1>1 DEF ToolOK, Running, Doing, Current
<1>4. CallOK(t)'
  BY <1>1, <1>2 DEF CallOK
<1> QED BY <1>0, <1>1, <1>2, <1>3, <1>4, LocalStep

LEMMA StartFields ==
  ASSUME Core, NEW t \in Thread, Start(t)
  PROVE  /\ tool' \in [Thread -> ToolRec]
         /\ \A u \in Thread \ {t} : tool'[u] = tool[u]
         /\ tool[t].prog = << >> /\ tool'[t].prog \in Programs[t]
         /\ tool'[t].pc = "list" /\ tool'[t].at = 1 /\ tool'[t].done = {}
<1>1. PICK p \in Programs[t] : tool' = [tool EXCEPT ![t] = [@ EXCEPT !.pc = "list", !.prog = p]]
  BY DEF Start
<1>2. tool[t] \in ToolRec /\ p \in Seq(Item)
  BY ProgramsAssumption DEF Core
<1>3. tool[t].prog = << >> /\ tool[t].at = 1 /\ tool[t].done = {}
  BY DEF Start, Core, ToolOK
<1>4. tool' = [tool EXCEPT ![t] = [tool[t] EXCEPT !.pc = "list", !.prog = p]]
  BY <1>1 DEF Core
<1>5. [tool[t] EXCEPT !.pc = "list", !.prog = p] \in ToolRec
  BY <1>2 DEF ToolRec, Pc
<1> QED BY <1>2, <1>3, <1>4, <1>5 DEF Core, ToolRec

LEMMA StartCore ==
  ASSUME Core, NEW t \in Thread, Start(t)
  PROVE  Core'
<1>1. /\ tool' \in [Thread -> ToolRec]
      /\ \A u \in Thread \ {t} : tool'[u] = tool[u]
      /\ tool[t].prog = << >> /\ tool'[t].prog \in Programs[t]
      /\ tool'[t].pc = "list" /\ tool'[t].at = 1 /\ tool'[t].done = {}
  BY StartFields
<1>2. tool'[t].at \in 1..Len(tool'[t].prog)
  BY <1>1, ProgramsAssumption
<1>3. ToolOK(t)'
  BY <1>1, <1>2 DEF ToolOK, Doing, Running
<1>4. UNCHANGED <<dir, call, obj>> /\ call[t] = None
  BY DEF Start, vars, Core, CallOK
<1>5. CallOK(t)'
  BY <1>1, <1>4 DEF CallOK
<1>6. \A u \in Thread : ToolOK(u)' /\ CallOK(u)'
  BY <1>1, <1>3, <1>4, <1>5, OthersOK
<1>7. ObjOK'
  BY <1>4 DEF Core, ObjOK
<1>8. DirOK'
  BY <1>1, <1>4, DirKept
<1>9. Inv'
  BY ToolStepKeepsInv
<1> QED BY <1>1, <1>6, <1>7, <1>8, <1>9 DEF Core

LEMMA CoreStep ==
  ASSUME Core, NEW t \in Thread, Start(t) \/ ToolStep(t) \/ ToolCrash(t)
  PROVE  Core'
BY StartCore, ListInstallCore, ListOnceCore, ReadReplacedCore, RemoveCore, PutCore, CreateCore,
   RefusedCore, InOperationCore, ReturnedCore, ToolCrashCore DEF ToolStep

-----------------------------------------------------------------------------
(* SoloOK: a tool that runs with no other. *)

\* Only a running tool takes steps.
LEMMA StepperRuns ==
  ASSUME Core, NEW t \in Thread, ToolStep(t) \/ ToolCrash(t)
  PROVE  Running(t) /\ tool[t].pc # "idle"
<1>1. CASE InOperation(t)
  <2>1. call[t] # None
    BY <1>1, CallOfOne DEF InOperation
  <2> QED BY <2>1 DEF Core, CallOK, Running
<1>2. CASE ~InOperation(t)
  BY <1>2 DEF ToolStep, ToolCrash, ListInstall, ListOnce, ReadReplaced, Remove, Put, Create,
              Creates, Refused, Unlinked, Linked, Removed, Running
<1> QED BY <1>1, <1>2

\* The names other than the one t is working on are bound to what they were,
\* and those objects have not changed.
OtherNamesKept(t) ==
  \A n \in Name \ {Current(t).name} :
    /\ n \in DOMAIN dir' <=> n \in DOMAIN dir
    /\ n \in DOMAIN dir => dir'[n] = dir[n] /\ obj'[dir[n]] = obj[dir[n]]

\* An item of another name that held still holds.
LEMMA ItemKept ==
  ASSUME Core, NEW t \in Thread, tool[t].pc # "idle", OtherNamesKept(t),
         tool'[t].prog = tool[t].prog,
         NEW i \in 1..Len(tool[t].prog), tool[t].prog[i].name # Current(t).name,
         ItemHolds(t, i)
  PROVE  ItemHolds(t, i)'
<1>1. tool[t].prog[i].name \in Name
  <2>1. tool[t].prog \in Seq(Item)
    BY DEF Core, ToolRec
  <2>2. tool[t].prog[i] \in Item
    BY <2>1
  <2> QED BY <2>2 DEF Item
<1> DEFINE n == tool[t].prog[i].name
<1>2. /\ n \in DOMAIN dir' <=> n \in DOMAIN dir
      /\ n \in DOMAIN dir => dir'[n] = dir[n] /\ obj'[dir[n]] = obj[dir[n]]
  BY <1>1 DEF OtherNamesKept
<1> QED BY <1>2 DEF ItemHolds

\* The items done before the one t is at, when nothing later is for their name.
LEMMA EarlierDone ==
  ASSUME Core, NEW t \in Thread, Running(t), NEW i \in tool[t].done, Last(t, i)
  PROVE  /\ i \in 1..Len(tool[t].prog)
         /\ tool[t].prog[i].name # Current(t).name
<1>1. /\ tool[t].at \in 1..Len(tool[t].prog) /\ tool[t].done \subseteq 1..tool[t].at
      /\ tool[t].at \notin tool[t].done /\ Len(tool[t].prog) \in Nat
  BY DEF Core, ToolOK, Running, ToolRec
<1>2. i \in 1..tool[t].at /\ i # tool[t].at
  BY <1>1
<1>3. tool[t].at \in (i + 1)..tool[t].at
  BY <1>1, <1>2
<1> QED BY <1>1, <1>2, <1>3 DEF Last, Current

LEMMA DoneKept ==
  ASSUME Core, NEW t \in Thread, Running(t), SoloDone(t), OtherNamesKept(t),
         tool'[t].prog = tool[t].prog, tool'[t].at = tool[t].at, tool'[t].done = tool[t].done
  PROVE  SoloDone(t)'
<1> SUFFICES ASSUME NEW i \in tool[t].done, Last(t, i)'
             PROVE  ItemHolds(t, i)'
  BY DEF SoloDone
<1>1. Last(t, i)
  BY DEF Last
<1>2. ItemHolds(t, i) /\ i \in 1..Len(tool[t].prog) /\ tool[t].prog[i].name # Current(t).name
  BY <1>1, EarlierDone DEF SoloDone
<1> QED BY <1>2, ItemKept DEF Running

LEMMA FinishKept ==
  ASSUME Core, NEW t \in Thread, Running(t), SoloDone(t), OtherNamesKept(t),
         NEW ok \in BOOLEAN, Finish(t, ok),
         NEW a, a = tool[t].at, ok => ItemHolds(t, a)'
  PROVE  SoloKnows(t)' /\ SoloDone(t)'
<1>1. /\ tool'[t].prog = tool[t].prog
      /\ tool'[t].done = IF ok THEN tool[t].done \cup {tool[t].at} ELSE tool[t].done
      /\ tool'[t].at = tool[t].at \/ tool'[t].at = tool[t].at + 1
      /\ tool'[t].pc \in {"end", "list"}
  BY FinishFields
<1>2. /\ tool[t].at \in Nat /\ tool[t].done \subseteq 1..tool[t].at
  BY DEF Core, ToolOK, ToolRec, Running
<1>3. SoloKnows(t)'
  BY <1>1 DEF SoloKnows
<1>4. ASSUME NEW i \in tool'[t].done, Last(t, i)'
      PROVE  ItemHolds(t, i)'
  <2>1. CASE i = tool[t].at /\ ok
    BY <2>1
  <2>2. CASE i \in tool[t].done
    <3>1. i \in Nat
      BY <1>2, <2>2
    <3>2. (i + 1)..tool[t].at \subseteq (i + 1)..tool'[t].at
      BY <1>1, <1>2, <3>1
    <3>3. Last(t, i)
      BY <1>1, <1>4, <3>2 DEF Last
    <3>4. ItemHolds(t, i) /\ i \in 1..Len(tool[t].prog) /\ tool[t].prog[i].name # Current(t).name
      BY <2>2, <3>3, EarlierDone DEF SoloDone
    <3> QED BY <1>1, <3>4, ItemKept DEF Running
  <2> QED BY <1>1, <2>1, <2>2
<1> QED BY <1>3, <1>4 DEF SoloDone

\* An object that is bound to another name is not the one t works on.
LEMMA OtherObjects ==
  ASSUME Core, NEW t \in Thread, tool[t].pc # "idle",
         NEW n \in DOMAIN dir, n # Current(t).name
  PROVE  /\ dir[n] # <<t, tool[t].at>>
         /\ Bound(t) => dir[n] # dir[Current(t).name]
<1>1. PICK u \in Thread : \E i \in 1..Len(tool[u].prog) :
              dir[n] = <<u, i>> /\ tool[u].prog[i].name = n
  BY DEF Core, DirOK, Made
<1>2. PICK i \in 1..Len(tool[u].prog) : dir[n] = <<u, i>> /\ tool[u].prog[i].name = n
  BY <1>1
<1>3. dir[n] # <<t, tool[t].at>>
  BY <1>2 DEF Current
<1>4. ASSUME Bound(t), dir[n] = dir[Current(t).name]
      PROVE  FALSE
  <2>1. PICK v \in Thread : \E j \in 1..Len(tool[v].prog) :
              dir[n] = <<v, j>> /\ tool[v].prog[j].name = Current(t).name
    BY <1>4 DEF Core, DirOK, Made, Bound
  <2> QED BY <1>2, <2>1
<1> QED BY <1>3, <1>4

\* What a tool knows once it has moved to pc within its item.
LEMMA SoloListInstall ==
  ASSUME Core, NEW t \in Thread, ListInstall(t), SoloKnows(t), SoloDone(t)
  PROVE  SoloKnows(t)' /\ SoloDone(t)'
<1>0. /\ tool[t].pc = "list" /\ Running(t) /\ UNCHANGED <<dir, obj, ret>>
      /\ call[t] = None /\ ret[t] = None
  BY DEF ListInstall, Running, Core, Invoke, vars, CallOK, Inv, IdleHoldsNothing
<1>1. OtherNamesKept(t)
  BY <1>0 DEF OtherNamesKept
<1>2. CASE RightKind(t) /\ tool' = [tool EXCEPT ![t].pc = "put", ![t].target = dir[Current(t).name]]
  <2>1. dir[Current(t).name] \in Entry
    BY <1>2 DEF RightKind, Bound, Core, DirOK
  <2>2. /\ tool'[t].pc = "put" /\ tool'[t].prog = tool[t].prog
        /\ tool'[t].at = tool[t].at /\ tool'[t].done = tool[t].done
        /\ tool'[t].target = dir[Current(t).name]
    BY <1>2, <2>1, PutFields
  <2>3. SoloKnows(t)'
    BY <1>0, <1>2, <2>2 DEF SoloKnows, RightKind, Bound, Current
  <2> QED BY <1>0, <1>1, <2>2, <2>3, DoneKept
<1>3. CASE Goto(t, "unlink")
  <2>2. /\ tool'[t].pc = "unlink" /\ tool'[t].prog = tool[t].prog
        /\ tool'[t].at = tool[t].at /\ tool'[t].done = tool[t].done
    BY <1>3, GotoFields DEF Pc
  <2>3. SoloKnows(t)'
    BY <1>0, <2>2, ResultAssumption DEF SoloKnows
  <2> QED BY <1>0, <1>1, <2>2, <2>3, DoneKept
<1>4. CASE Goto(t, "create") /\ ~Bound(t)
  <2>2. /\ tool'[t].pc = "create" /\ tool'[t].prog = tool[t].prog
        /\ tool'[t].at = tool[t].at /\ tool'[t].done = tool[t].done
    BY <1>4, GotoFields DEF Pc
  <2>3. SoloKnows(t)'
    BY <1>0, <1>4, <2>2 DEF SoloKnows, Bound, Current
  <2> QED BY <1>0, <1>1, <2>2, <2>3, DoneKept
<1> QED BY <1>2, <1>3, <1>4 DEF ListInstall

LEMMA SoloListOnce ==
  ASSUME Core, NEW t \in Thread, ListOnce(t), SoloKnows(t), SoloDone(t)
  PROVE  SoloKnows(t)' /\ SoloDone(t)'
<1>0. tool[t].pc = "list" /\ Running(t) /\ UNCHANGED <<dir, obj>>
  BY DEF ListOnce, Running, vars
<1>1. OtherNamesKept(t)
  BY <1>0 DEF OtherNamesKept
<1>2. CASE Finish(t, FALSE)
  BY <1>0, <1>1, <1>2, FinishKept
<1>4. CASE Goto(t, "create") /\ ~Bound(t)
  <2>2. /\ tool'[t].pc = "create" /\ tool'[t].prog = tool[t].prog
        /\ tool'[t].at = tool[t].at /\ tool'[t].done = tool[t].done
    BY <1>4, GotoFields DEF Pc
  <2>3. SoloKnows(t)'
    BY <1>0, <1>4, <2>2 DEF SoloKnows, Bound, Current
  <2> QED BY <1>0, <1>1, <2>2, <2>3, DoneKept
<1> QED BY <1>2, <1>4 DEF ListOnce

LEMMA SoloReadReplaced ==
  ASSUME Core, NEW t \in Thread, ReadReplaced(t), SoloKnows(t), SoloDone(t)
  PROVE  SoloKnows(t)' /\ SoloDone(t)'
<1>0. tool[t].pc = "list" /\ Running(t) /\ UNCHANGED <<dir, obj>>
  BY DEF ReadReplaced, Running, vars
<1>1. OtherNamesKept(t)
  BY <1>0 DEF OtherNamesKept
<1>2. CASE Finish(t, FALSE)
  BY <1>0, <1>1, <1>2, FinishKept
<1>3. CASE RightKind(t) /\ tool' = [tool EXCEPT ![t].pc = "put", ![t].target = dir[Current(t).name]]
  <2>1. dir[Current(t).name] \in Entry
    BY <1>3 DEF RightKind, Bound, Core, DirOK
  <2>2. /\ tool'[t].pc = "put" /\ tool'[t].prog = tool[t].prog
        /\ tool'[t].at = tool[t].at /\ tool'[t].done = tool[t].done
        /\ tool'[t].target = dir[Current(t).name]
    BY <1>3, <2>1, PutFields
  <2>3. SoloKnows(t)'
    BY <1>0, <1>3, <2>2 DEF SoloKnows, RightKind, Bound, Current
  <2> QED BY <1>0, <1>1, <2>2, <2>3, DoneKept
<1> QED BY <1>2, <1>3 DEF ReadReplaced

LEMMA SoloRemove ==
  ASSUME Core, NEW t \in Thread, Remove(t), SoloKnows(t), SoloDone(t)
  PROVE  SoloKnows(t)' /\ SoloDone(t)'
<1>0. /\ tool[t].pc = "list" /\ Running(t) /\ UNCHANGED <<dir, obj, ret>> /\ Goto(t, "remove")
      /\ call[t] = None /\ ret[t] = None
  BY DEF Remove, Running, Core, Invoke, CallOK, Inv, IdleHoldsNothing
<1>1. OtherNamesKept(t)
  BY <1>0 DEF OtherNamesKept
<1>2. /\ tool'[t].pc = "remove" /\ tool'[t].prog = tool[t].prog
      /\ tool'[t].at = tool[t].at /\ tool'[t].done = tool[t].done
  BY <1>0, GotoFields DEF Pc
<1>3. SoloKnows(t)'
  BY <1>0, <1>2, ResultAssumption DEF SoloKnows
<1> QED BY <1>0, <1>1, <1>2, <1>3, DoneKept

\* The object overwritten is the one the name is bound to.
LEMMA SoloPut ==
  ASSUME Core, NEW t \in Thread, Put(t), SoloKnows(t), SoloDone(t)
  PROVE  SoloKnows(t)' /\ SoloDone(t)'
<1>0. /\ tool[t].pc = "put" /\ Running(t) /\ tool[t].pc # "idle" /\ UNCHANGED dir
      /\ Finish(t, TRUE) /\ obj' = [obj EXCEPT ![tool[t].target].data = t]
      /\ Current(t).act \in {"install", "replace"}
      /\ RightKind(t) /\ tool[t].target = dir[Current(t).name]
  BY DEF Put, Running, vars, Core, ToolOK, Doing, SoloKnows
<1>1. dir[Current(t).name] \in Entry
  BY <1>0 DEF RightKind, Bound, Core, DirOK
<1>2. /\ obj'[dir[Current(t).name]].kind = Current(t).kind
      /\ obj'[dir[Current(t).name]].data = t
      /\ \A e \in Entry : e # dir[Current(t).name] => obj'[e] = obj[e]
  BY <1>0, <1>1 DEF RightKind, Core, ObjOK
<1>3. OtherNamesKept(t)
  BY <1>0, <1>2, OtherObjects DEF OtherNamesKept, Core, DirOK, RightKind
<1>4. PICK a : a = tool[t].at
  OBVIOUS
<1>5. tool'[t].prog = tool[t].prog
  BY <1>0, FinishFields
<1>6. ItemHolds(t, a)'
  BY <1>0, <1>2, <1>4, <1>5 DEF ItemHolds, Current, RightKind, Bound
<1> QED BY <1>0, <1>3, <1>4, <1>6, FinishKept

LEMMA SoloCreate ==
  ASSUME Core, NEW t \in Thread, Create(t), SoloKnows(t), SoloDone(t)
  PROVE  SoloKnows(t)' /\ SoloDone(t)'
<1>0. /\ tool[t].pc \in {"create", "list"} /\ tool[t].pc # "idle" /\ Running(t)
      /\ UNCHANGED <<dir, ret>> /\ Goto(t, "link") /\ call[t] = None /\ ret[t] = None
      /\ Current(t).act = "install" => ~Bound(t)
  BY DEF Create, Creates, Running, Invoke, Core, CallOK, Inv, IdleHoldsNothing, SoloKnows
<1>1. <<t, tool[t].at>> \in Entry
  BY <1>0, AtItem
<1>2. /\ obj'[<<t, tool[t].at>>].kind = Current(t).kind
      /\ Current(t).act = "install" => obj'[<<t, tool[t].at>>].data = t
      /\ \A e \in Entry : e # <<t, tool[t].at>> => obj'[e] = obj[e]
  BY <1>1 DEF Create, Core, ObjOK
<1>3. OtherNamesKept(t)
  BY <1>0, <1>2, OtherObjects DEF OtherNamesKept, Core, DirOK
<1>4. /\ tool'[t].pc = "link" /\ tool'[t].prog = tool[t].prog
      /\ tool'[t].at = tool[t].at /\ tool'[t].done = tool[t].done
  BY <1>0, GotoFields DEF Pc
<1>5. SoloKnows(t)'
  BY <1>0, <1>2, <1>4, ResultAssumption DEF SoloKnows, Bound, Current
<1> QED BY <1>0, <1>3, <1>4, <1>5, DoneKept

LEMMA SoloRefused ==
  ASSUME Core, NEW t \in Thread, Refused(t), SoloKnows(t), SoloDone(t)
  PROVE  SoloKnows(t)' /\ SoloDone(t)'
<1>0. Running(t) /\ UNCHANGED <<dir, obj>> /\ Finish(t, FALSE)
  BY DEF Refused, Running, vars
<1>1. OtherNamesKept(t)
  BY <1>0 DEF OtherNamesKept
<1> QED BY <1>0, <1>1, FinishKept

\* The result of a link or unlink describes the directory it leaves.
LEMMA SoloInOperation ==
  ASSUME Core, NEW t \in Thread, InOperation(t), SoloKnows(t), SoloDone(t)
  PROVE  SoloKnows(t)' /\ SoloDone(t)'
<1>0. /\ UNCHANGED <<obj, tool, call>> /\ call[t] # None /\ ret[t] = None
      /\ tool[t].pc \in {"link", "unlink", "remove"} /\ Running(t) /\ tool[t].pc # "idle"
  BY CallOfOne DEF InOperation, Core, CallOK, Running
<1>1. CASE UNCHANGED dir /\ Turn(t, dir)
  <2>1. OtherNamesKept(t)
    BY <1>0, <1>1 DEF OtherNamesKept
  <2>2. /\ ret'[t] \in {"denied", "no", None}
        /\ ret'[t] = "no" => Rejects(call[t], dir)
    BY <1>0, <1>1, ResultAssumption DEF Turn, Core, Inv, TypeOK
  <2>3. CASE tool[t].pc = "link"
    <3>0. call[t].kind = "link" /\ call[t].name = Current(t).name
      BY <2>3, CallFields
    <3>1. Rejects(call[t], dir) => Bound(t)
      BY <3>0 DEF Rejects, Existed, Bound
    <3> QED BY <1>0, <1>1, <2>1, <2>2, <2>3, <3>1, DoneKept, ResultAssumption
            DEF SoloKnows, Bound, Current
  <2>4. CASE tool[t].pc \in {"unlink", "remove"}
    <3>0. call[t].kind = "unlink" /\ call[t].name = Current(t).name
      BY <2>4, CallFields
    <3>1. Rejects(call[t], dir) => ~Bound(t)
      BY <3>0 DEF Rejects, Existed, Bound
    <3> QED BY <1>0, <1>1, <2>1, <2>2, <2>4, <3>1, DoneKept, ResultAssumption
            DEF SoloKnows, Bound, Current
  <2> QED BY <1>0, <2>3, <2>4
<1>2. CASE CasSucceeds(t)
  <2>1. ret'[t] = "ok"
    BY <1>2 DEF CasSucceeds, Core, Inv, TypeOK
  <2>2. OtherNamesKept(t)
    BY <1>0, <1>2, CasEffect DEF OtherNamesKept
  <2>3. SoloKnows(t)'
    <3>1. CASE tool[t].pc = "link"
      <4>1. Bound(t)' /\ dir'[Current(t).name] = <<t, tool[t].at>>
        BY <1>0, <1>2, <3>1, CasEffect DEF Bound, Current
      <4> QED BY <1>0, <2>1, <3>1, <4>1, ResultAssumption DEF SoloKnows, Current
    <3>2. CASE tool[t].pc \in {"unlink", "remove"}
      <4>1. ~Bound(t)'
        BY <1>0, <1>2, <3>2, CasEffect DEF Bound, Current
      <4> QED BY <1>0, <3>2, <4>1 DEF SoloKnows
    <3> QED BY <1>0, <3>1, <3>2
  <2> QED BY <1>0, <2>2, <2>3, DoneKept
<1> QED BY <1>1, <1>2 DEF InOperation, Get, CasFails

LEMMA SoloReturned ==
  ASSUME Core, NEW t \in Thread, Unlinked(t) \/ Linked(t) \/ Removed(t), SoloKnows(t), SoloDone(t)
  PROVE  SoloKnows(t)' /\ SoloDone(t)'
<1>0. /\ Running(t) /\ tool[t].pc # "idle" /\ UNCHANGED <<dir, obj>> /\ ToolOK(t)
      /\ ret[t] \in {"ok", "no", "denied"}
  BY DEF Unlinked, Linked, Removed, Running, Return, Core, Inv, TypeOK
<1>1. OtherNamesKept(t)
  BY <1>0 DEF OtherNamesKept
<1>2. CASE Finish(t, FALSE)
  BY <1>0, <1>1, <1>2, FinishKept
<1>3. CASE Unlinked(t) /\ Goto(t, "create") /\ ret[t] # "denied"
  <2>1. ~Bound(t)
    BY <1>0, <1>3 DEF SoloKnows, Unlinked
  <2>2. /\ tool'[t].pc = "create" /\ tool'[t].prog = tool[t].prog
        /\ tool'[t].at = tool[t].at /\ tool'[t].done = tool[t].done
    BY <1>3, GotoFields DEF Pc
  <2>3. SoloKnows(t)'
    BY <1>0, <2>1, <2>2 DEF SoloKnows, Bound, Current
  <2> QED BY <1>0, <1>1, <2>2, <2>3, DoneKept
<1>4. ASSUME Finish(t, TRUE), \/ tool[t].pc = "remove" /\ ret[t] # "denied"
                              \/ /\ tool[t].pc = "link"
                                 /\ ret[t] = "ok" \/ (ret[t] = "no" /\ Current(t).act = "install")
      PROVE  SoloKnows(t)' /\ SoloDone(t)'
  <2>1. PICK a : a = tool[t].at
    OBVIOUS
  <2>2. tool'[t].prog = tool[t].prog
    BY <1>0, <1>4, FinishFields
  <2>3. ItemHolds(t, a)'
    <3>1. CASE tool[t].pc = "remove"
      <4>1. Current(t).act = "remove" /\ ~Bound(t)
        BY <1>0, <1>4, <3>1 DEF SoloKnows, ToolOK, Doing
      <4> QED BY <1>0, <2>1, <2>2, <4>1 DEF ItemHolds, Current, Bound
    <3>2. CASE tool[t].pc = "link"
      <4>1. Current(t).act \in {"install", "make", "once"} /\ ret[t] = "ok"
        BY <1>0, <1>4, <3>2 DEF SoloKnows, ToolOK, Doing
      <4>2. /\ Bound(t) /\ dir[Current(t).name] = <<t, a>>
            /\ obj[<<t, a>>].kind = Current(t).kind
            /\ Current(t).act = "install" => obj[<<t, a>>].data = t
        BY <3>2, <4>1, <2>1 DEF SoloKnows
      <4> QED BY <1>0, <2>1, <2>2, <4>1, <4>2 DEF ItemHolds, Current, Bound
    <3> QED BY <1>4, <3>1, <3>2
  <2> QED BY <1>0, <1>1, <1>4, <2>1, <2>3, FinishKept
<1>5. CASE Unlinked(t)
  BY <1>2, <1>3, <1>5 DEF Unlinked
<1>6. CASE Linked(t)
  <2>1. PICK ok \in BOOLEAN : ok <=> (ret[t] = "ok" \/ (ret[t] = "no" /\ Current(t).act = "install"))
    OBVIOUS
  <2>2. Finish(t, ok) /\ tool[t].pc = "link"
    BY <1>6, <2>1 DEF Linked
  <2> QED BY <1>2, <1>4, <2>1, <2>2
<1>7. CASE Removed(t)
  <2>1. PICK ok \in BOOLEAN : ok <=> ret[t] # "denied"
    OBVIOUS
  <2>2. Finish(t, ok) /\ tool[t].pc = "remove"
    BY <1>7, <2>1 DEF Removed
  <2> QED BY <1>2, <1>4, <2>1, <2>2
<1> QED BY <1>5, <1>6, <1>7

LEMMA SoloCrash ==
  ASSUME Core, NEW t \in Thread, ToolCrash(t), SoloKnows(t), SoloDone(t)
  PROVE  SoloKnows(t)' /\ SoloDone(t)'
<1>0. Running(t) /\ Goto(t, "dead") /\ UNCHANGED <<dir, obj>>
  BY DEF ToolCrash, Goto, Crash, vars
<1>1. OtherNamesKept(t)
  BY <1>0 DEF OtherNamesKept
<1>2. /\ tool'[t].pc = "dead" /\ tool'[t].prog = tool[t].prog
      /\ tool'[t].at = tool[t].at /\ tool'[t].done = tool[t].done
  BY <1>0, GotoFields DEF Pc
<1>3. SoloKnows(t)'
  BY <1>2 DEF SoloKnows
<1> QED BY <1>0, <1>1, <1>2, <1>3, DoneKept

\* Starting a tool makes it the lone one or none; while one is alone, only it
\* takes steps.
LEMMA SoloStep ==
  ASSUME Core, SoloOK, NEW t \in Thread, Start(t) \/ ToolStep(t) \/ ToolCrash(t)
  PROVE  SoloOK'
<1> SUFFICES ASSUME NEW v \in Thread, alone' = v
             PROVE  (\A u \in Thread \ {v} : ~Running(u)') /\ SoloKnows(v)' /\ SoloDone(v)'
  BY DEF SoloOK
<1>1. CASE Start(t)
  <2>1. v = t /\ \A u \in Thread : ~Running(u)
    BY <1>1, NoneIsNoThread DEF Start
  <2>2. /\ \A u \in Thread \ {t} : tool'[u] = tool[u]
        /\ tool'[t].pc = "list" /\ tool'[t].done = {}
    BY <1>1, StartFields
  <2> QED BY <2>1, <2>2 DEF SoloKnows, SoloDone, Running
<1>2. CASE ToolStep(t) \/ ToolCrash(t)
  <2>1. alone = v
    BY <1>2 DEF ToolStep, ToolCrash, ListInstall, ListOnce, ReadReplaced, Remove, Put, Create,
                Refused, InOperation, Unlinked, Linked, Removed
  <2>2. v = t
    BY <1>2, <2>1, StepperRuns DEF SoloOK
  <2>3. SoloKnows(t) /\ SoloDone(t) /\ \A u \in Thread \ {t} : ~Running(u)
    BY <2>1, <2>2 DEF SoloOK
  <2>4. SoloKnows(t)' /\ SoloDone(t)'
    BY <1>2, <2>3, SoloListInstall, SoloListOnce, SoloReadReplaced, SoloRemove, SoloPut,
       SoloCreate, SoloRefused, SoloInOperation, SoloReturned, SoloCrash DEF ToolStep
  <2>5. \A u \in Thread \ {t} : tool'[u].pc = tool[u].pc
    BY <1>2 DEF Core, ToolStep, ToolCrash, ListInstall, ListOnce, ReadReplaced, Remove, Put, Create,
                Refused, InOperation, Unlinked, Linked, Removed, Goto, Finish
  <2> QED BY <2>2, <2>3, <2>4, <2>5 DEF Running
<1> QED BY <1>1, <1>2

-----------------------------------------------------------------------------
(* KeptNames: installers do not take a name away from each other. *)

\* A step of t keeps a name bound or has an install of it still to settle, and
\* settles an install only while the name is bound.
LEMMA KeptBy ==
  ASSUME Core, KeptNames, NEW t \in Thread,
         \A u \in Thread \ {t} : tool'[u] = tool[u] /\ ret'[u] = ret[u],
         tool'[t].prog = tool[t].prog,
         \A n \in Name : n \in DOMAIN dir =>
            n \in DOMAIN dir' \/ Unsettled(t, n)' \/ Removes(t, n)',
         \A n \in Name : Unsettled(t, n) => n \in DOMAIN dir' \/ Unsettled(t, n)'
  PROVE  KeptNames'
<1> SUFFICES ASSUME NEW n \in Name, NEW v \in Thread, Installs(v, n)'
             PROVE  n \in DOMAIN dir' \/ \E u \in Thread : Removes(u, n)' \/ Unsettled(u, n)'
  BY DEF KeptNames
<1>1. \A u \in Thread : tool'[u].prog = tool[u].prog
  OBVIOUS
<1>2. Installs(v, n)
  BY <1>1 DEF Installs
<1>3. n \in DOMAIN dir \/ \E u \in Thread : Removes(u, n) \/ Unsettled(u, n)
  BY <1>2 DEF KeptNames
<1>4. ASSUME NEW u \in Thread, Removes(u, n)
      PROVE  Removes(u, n)'
  BY <1>1, <1>4 DEF Removes
<1>5. ASSUME NEW u \in Thread \ {t}, Unsettled(u, n)
      PROVE  Unsettled(u, n)'
  BY <1>5 DEF Unsettled, Settled
<1> QED BY <1>3, <1>4, <1>5

\* Moving to a place that settles nothing unsettles nothing done.
LEMMA StaysUnsettled ==
  ASSUME NEW t \in Thread, NEW n,
         tool'[t].prog = tool[t].prog, tool'[t].done = tool[t].done,
         tool'[t].pc \notin {"put", "link"} \/ (tool'[t].pc = "link" /\ ret'[t] \notin {"ok", "no"}),
         Unsettled(t, n)
  PROVE  Unsettled(t, n)'
BY DEF Unsettled, Settled

\* A finished item that counts as done had settled before, or is no install.
LEMMA KeptFinish ==
  ASSUME Core, KeptNames, NEW t \in Thread, Running(t), NEW ok \in BOOLEAN, Finish(t, ok),
         UNCHANGED dir, \A u \in Thread \ {t} : ret'[u] = ret[u],
         ok => Settled(t, tool[t].at) \/ Current(t).act # "install"
  PROVE  KeptNames'
<1>1. /\ \A u \in Thread \ {t} : tool'[u] = tool[u]
      /\ tool'[t].prog = tool[t].prog
      /\ tool'[t].done = IF ok THEN tool[t].done \cup {tool[t].at} ELSE tool[t].done
      /\ tool'[t].pc \in {"end", "list"}
  BY FinishFields
<1>2. ASSUME NEW n \in Name, Unsettled(t, n)
      PROVE  Unsettled(t, n)'
  <2>1. PICK i \in 1..Len(tool[t].prog) : /\ tool[t].prog[i].act = "install"
                                          /\ tool[t].prog[i].name = n
                                          /\ ~Settled(t, i)
    BY <1>2 DEF Unsettled
  <2>2. i \notin tool'[t].done
    BY <1>1, <2>1 DEF Settled, Current
  <2> QED BY <1>1, <2>1, <2>2 DEF Unsettled, Settled
<1> QED BY <1>1, <1>2, KeptBy

\* A tool that moves on within its item, changing nothing in the directory.
LEMMA KeptGoto ==
  ASSUME Core, KeptNames, NEW t \in Thread, NEW pc \in Pc \ {"put", "link"}, Goto(t, pc),
         UNCHANGED dir, \A u \in Thread \ {t} : ret'[u] = ret[u]
  PROVE  KeptNames'
<1>1. /\ \A u \in Thread \ {t} : tool'[u] = tool[u]
      /\ tool'[t].pc = pc /\ tool'[t].prog = tool[t].prog /\ tool'[t].done = tool[t].done
  BY GotoFields
<1>2. \A n \in Name : Unsettled(t, n) => Unsettled(t, n)'
  BY <1>1, StaysUnsettled
<1> QED BY <1>1, <1>2, KeptBy

\* An object of the right kind was listed: the name is bound.
LEMMA KeptPut ==
  ASSUME Core, KeptNames, NEW t \in Thread, RightKind(t), UNCHANGED <<dir, ret>>,
         tool' = [tool EXCEPT ![t].pc = "put", ![t].target = dir[Current(t).name]]
  PROVE  KeptNames'
<1>0. dir[Current(t).name] \in Entry
  BY DEF RightKind, Bound, Core, DirOK
<1>1. /\ \A u \in Thread \ {t} : tool'[u] = tool[u]
      /\ tool'[t].pc = "put" /\ tool'[t].prog = tool[t].prog
      /\ tool'[t].done = tool[t].done /\ tool'[t].at = tool[t].at
  BY <1>0, PutFields
<1>2. ASSUME NEW n \in Name, Unsettled(t, n), n \notin DOMAIN dir
      PROVE  Unsettled(t, n)'
  <2>1. PICK i \in 1..Len(tool[t].prog) : /\ tool[t].prog[i].act = "install"
                                          /\ tool[t].prog[i].name = n
                                          /\ ~Settled(t, i)
    BY <1>2 DEF Unsettled
  <2>2. i # tool[t].at
    BY <1>2, <2>1 DEF RightKind, Bound, Current
  <2> QED BY <1>1, <2>1, <2>2 DEF Unsettled, Settled
<1> QED BY <1>1, <1>2, KeptBy

LEMMA KeptCreate ==
  ASSUME Core, KeptNames, NEW t \in Thread, Create(t)
  PROVE  KeptNames'
<1>0. /\ UNCHANGED <<dir, ret>> /\ Goto(t, "link") /\ ret[t] = None
  BY DEF Create, Creates, Invoke, Core, CallOK, Inv, IdleHoldsNothing
<1>1. /\ \A u \in Thread \ {t} : tool'[u] = tool[u]
      /\ tool'[t].pc = "link" /\ tool'[t].prog = tool[t].prog /\ tool'[t].done = tool[t].done
  BY <1>0, GotoFields DEF Pc
<1>2. \A n \in Name : Unsettled(t, n) => Unsettled(t, n)'
  BY <1>0, <1>1, StaysUnsettled, ResultAssumption
<1> QED BY <1>0, <1>1, <1>2, KeptBy

\* A name is unbound by an install that has yet to settle, or by a remove; and a
\* link is told yes or no while the name is bound.
LEMMA KeptInOperation ==
  ASSUME Core, KeptNames, NEW t \in Thread, InOperation(t)
  PROVE  KeptNames'
<1>0. /\ UNCHANGED <<obj, tool, call>> /\ call[t] # None /\ ret[t] = None
      /\ tool[t].pc \in {"link", "unlink", "remove"} /\ tool[t].pc # "idle" /\ Running(t)
      /\ \A u \in Thread \ {t} : ret'[u] = ret[u]
  BY CallOfOne DEF InOperation, Core, CallOK, Running
<1>1. /\ tool[t].at \in 1..Len(tool[t].prog) /\ tool[t].at \notin tool[t].done
      /\ tool[t].pc = "unlink" => Current(t).act = "install"
      /\ tool[t].pc = "remove" => Current(t).act = "remove"
  BY <1>0 DEF Core, ToolOK, Doing
<1>2. ASSUME NEW n \in Name, n \in DOMAIN dir
      PROVE  n \in DOMAIN dir' \/ Unsettled(t, n)' \/ Removes(t, n)'
  <2>1. CASE UNCHANGED dir
    BY <1>2, <2>1
  <2>2. CASE CasSucceeds(t) /\ n # Current(t).name
    BY <1>2, <2>2, CasEffect
  <2>3. CASE CasSucceeds(t) /\ n = Current(t).name
    <3>1. CASE tool[t].pc = "link"
      BY <1>2, <2>3, <3>1, CasEffect
    <3>2. CASE tool[t].pc = "unlink"
      BY <1>0, <1>1, <2>3, <3>2 DEF Unsettled, Settled, Current
    <3>3. CASE tool[t].pc = "remove"
      BY <1>0, <1>1, <2>3, <3>3 DEF Removes, Current
    <3> QED BY <1>0, <3>1, <3>2, <3>3
  <2> QED BY <2>1, <2>2, <2>3 DEF InOperation, Get, CasFails
<1>3. ASSUME NEW n \in Name, Unsettled(t, n)
      PROVE  n \in DOMAIN dir' \/ Unsettled(t, n)'
  <2>1. CASE tool[t].pc # "link" \/ ret'[t] \notin {"ok", "no"}
    BY <1>0, <1>3, <2>1, StaysUnsettled
  <2>2. CASE tool[t].pc = "link" /\ ret'[t] \in {"ok", "no"}
    <3>1. Bound(t)'
      <4>1. CASE CasSucceeds(t)
        BY <1>0, <2>2, <4>1, CasEffect DEF Bound, Current
      <4>2. CASE UNCHANGED dir /\ Turn(t, dir)
        <5>1. Rejects(call[t], dir)
          BY <1>0, <2>2, <4>2, ResultAssumption DEF Turn, Core, Inv, TypeOK
        <5>2. call[t].kind = "link" /\ call[t].name = Current(t).name
          BY <2>2, CallFields
        <5> QED BY <1>0, <4>2, <5>1, <5>2 DEF Rejects, Existed, Bound, Current
      <4> QED BY <4>1, <4>2 DEF InOperation, Get, CasFails
    <3>2. PICK i \in 1..Len(tool[t].prog) : /\ tool[t].prog[i].act = "install"
                                            /\ tool[t].prog[i].name = n
                                            /\ ~Settled(t, i)
      BY <1>3 DEF Unsettled
    <3>3. CASE i = tool[t].at
      BY <1>0, <3>1, <3>2, <3>3 DEF Bound, Current
    <3>4. CASE i # tool[t].at
      BY <1>0, <3>2, <3>4 DEF Unsettled, Settled
    <3> QED BY <3>3, <3>4
  <2> QED BY <2>1, <2>2
<1> QED BY <1>0, <1>2, <1>3, KeptBy

LEMMA KeptReturned ==
  ASSUME Core, KeptNames, NEW t \in Thread, Unlinked(t) \/ Linked(t) \/ Removed(t)
  PROVE  KeptNames'
<1>0. /\ Running(t) /\ UNCHANGED dir /\ \A u \in Thread \ {t} : ret'[u] = ret[u]
      /\ ToolOK(t)
  BY CallOfOne DEF Unlinked, Linked, Removed, Running, Core
<1>1. CASE Unlinked(t)
  BY <1>0, <1>1, KeptFinish, KeptGoto DEF Unlinked, Pc
<1>2. CASE Linked(t)
  <2>1. PICK ok \in BOOLEAN : ok <=> (ret[t] = "ok" \/ (ret[t] = "no" /\ Current(t).act = "install"))
    OBVIOUS
  <2>2. Finish(t, ok) /\ tool[t].pc = "link"
    BY <1>2, <2>1 DEF Linked
  <2>3. ok => Settled(t, tool[t].at)
    BY <2>1, <2>2 DEF Settled
  <2> QED BY <1>0, <2>2, <2>3, KeptFinish
<1>3. CASE Removed(t)
  <2>1. PICK ok \in BOOLEAN : ok <=> ret[t] # "denied"
    OBVIOUS
  <2>2. Finish(t, ok) /\ Current(t).act = "remove"
    BY <1>0, <1>3, <2>1 DEF Removed, ToolOK, Doing
  <2> QED BY <1>0, <2>2, KeptFinish
<1> QED BY <1>1, <1>2, <1>3

\* A new program adds installs that have yet to settle.
LEMMA KeptStart ==
  ASSUME Core, KeptNames, NEW t \in Thread, Start(t)
  PROVE  KeptNames'
<1>1. /\ \A u \in Thread \ {t} : tool'[u] = tool[u]
      /\ tool[t].prog = << >> /\ tool'[t].prog \in Programs[t]
      /\ tool'[t].pc = "list" /\ tool'[t].at = 1 /\ tool'[t].done = {}
  BY StartFields
<1>2. UNCHANGED <<dir, ret>>
  BY DEF Start, vars
<1> SUFFICES ASSUME NEW n \in Name, NEW v \in Thread, Installs(v, n)'
             PROVE  n \in DOMAIN dir' \/ \E u \in Thread : Removes(u, n)' \/ Unsettled(u, n)'
  BY DEF KeptNames
<1>3. CASE v = t
  BY <1>1, <1>3 DEF Installs, Unsettled, Settled
<1>4. CASE v # t
  <2>1. Installs(v, n)
    BY <1>1, <1>4 DEF Installs
  <2>2. n \in DOMAIN dir \/ \E u \in Thread : Removes(u, n) \/ Unsettled(u, n)
    BY <2>1 DEF KeptNames
  <2>3. ASSUME NEW u \in Thread, Removes(u, n) \/ Unsettled(u, n)
        PROVE  Removes(u, n)' \/ Unsettled(u, n)'
    <3>1. u # t
      BY <1>1, <2>3 DEF Removes, Unsettled
    <3> QED BY <1>1, <1>2, <2>3, <3>1 DEF Removes, Unsettled, Settled
  <2> QED BY <1>2, <2>2, <2>3
<1> QED BY <1>3, <1>4

LEMMA KeptStep ==
  ASSUME Core, KeptNames, NEW t \in Thread, Start(t) \/ ToolStep(t) \/ ToolCrash(t)
  PROVE  KeptNames'
<1>1. CASE ListInstall(t)
  BY <1>1, KeptPut, KeptGoto DEF ListInstall, Invoke, vars, Pc
<1>2. CASE ListOnce(t)
  BY <1>2, KeptFinish, KeptGoto DEF ListOnce, vars, Pc, Running
<1>3. CASE ReadReplaced(t)
  BY <1>3, KeptFinish, KeptPut DEF ReadReplaced, vars, Running
<1>4. CASE Remove(t)
  BY <1>4, KeptGoto DEF Remove, Invoke, Pc
<1>5. CASE Put(t)
  BY <1>5, KeptFinish DEF Put, vars, Running, Settled
<1>6. CASE Refused(t)
  BY <1>6, KeptFinish DEF Refused, vars, Running
<1>7. CASE ToolCrash(t)
  <2>1. Goto(t, "dead") /\ UNCHANGED dir /\ \A u \in Thread \ {t} : ret'[u] = ret[u]
    BY <1>7, CallOfOne DEF ToolCrash, Goto, vars
  <2> QED BY <2>1, KeptGoto DEF Pc
<1> QED BY <1>1, <1>2, <1>3, <1>4, <1>5, <1>6, <1>7, KeptCreate, KeptInOperation,
           KeptReturned, KeptStart DEF ToolStep

-----------------------------------------------------------------------------
(* The theorems. *)

LEMMA ToolInitOK == ToolInit => ToolInv
<1> SUFFICES ASSUME ToolInit
             PROVE  ToolInv
  OBVIOUS
<1>1. Inv
  BY DEF ToolInit, Init, Inv, TypeOK, CasReady, IdleHoldsNothing, Pending, NoEntries
<1>2. \A t \in Thread : /\ tool[t] = Idle /\ tool[t].pc = "idle" /\ tool[t].prog = << >>
                        /\ tool[t].at = 1 /\ tool[t].done = {} /\ call[t] = None
  BY DEF ToolInit, Init, Idle
<1>3. Idle \in ToolRec
  BY DEF Idle, ToolRec, Pc
<1>4. tool \in [Thread -> ToolRec]
  BY <1>3 DEF ToolInit
<1>5. \A t \in Thread : ToolOK(t) /\ CallOK(t)
  BY <1>2 DEF ToolOK, CallOK, Running, Doing
<1>6. ObjOK
  BY DEF ToolInit, ObjOK, Free
<1>7. DOMAIN dir = {}
  BY DEF ToolInit, Init, NoEntries
<1>8. SoloOK
  BY NoneIsNoThread DEF ToolInit, SoloOK
<1>9. KeptNames
  BY <1>2 DEF KeptNames, Installs
<1> QED BY <1>1, <1>4, <1>5, <1>6, <1>7, <1>8, <1>9 DEF ToolInv, Core, DirOK

LEMMA ToolStutter == ToolInv /\ UNCHANGED toolVars => ToolInv'
<1> SUFFICES ASSUME ToolInv, UNCHANGED toolVars
             PROVE  ToolInv'
  OBVIOUS
<1>1. Inv'
  BY InvStutter DEF ToolInv, Core, toolVars
<1>2. Core'
  BY <1>1 DEF ToolInv, Core, toolVars, vars, ToolOK, CallOK, ObjOK, DirOK, Made, Running, Doing,
              Current, Unlinking, Linking
<1>3. SoloOK'
  <2>1. ASSUME NEW t \in Thread
        PROVE  /\ Running(t)' <=> Running(t)
               /\ SoloKnows(t) => SoloKnows(t)'
               /\ SoloDone(t) => SoloDone(t)'
    <3>1. SoloKnows(t) => SoloKnows(t)'
      BY DEF SoloKnows, toolVars, vars, Current, Bound, RightKind
    <3>2. SoloDone(t) => SoloDone(t)'
      BY DEF SoloDone, Last, ItemHolds, toolVars, vars
    <3> QED BY <3>1, <3>2 DEF Running, toolVars
  <2> QED BY <2>1 DEF ToolInv, SoloOK, toolVars
<1>4. KeptNames'
  BY DEF ToolInv, KeptNames, Installs, Removes, Unsettled, Settled, toolVars, vars
<1> QED BY <1>2, <1>3, <1>4 DEF ToolInv

\* The invariant of the tools holds whatever programs they run.
THEOREM ToolInvHolds == ToolSpec => []ToolInv
<1>1. ToolInv /\ [ToolNext]_toolVars => ToolInv'
  BY CoreStep, SoloStep, KeptStep, ToolStutter DEF ToolInv, ToolNext
<1> QED BY ToolInitOK, <1>1, PTL DEF ToolSpec

\* Whatever dies when, and however many tools there are, no name is bound to a
\* file, blob or gate without contents.
THEOREM NoEmptyObjectHolds == ToolSpec => []NoEmptyObject
<1>1. ToolInv => NoEmptyObject
  BY DEF ToolInv, Core, ObjOK, DirOK, NoEmptyObject
<1> QED BY <1>1, ToolInvHolds, PTL

\* A tool that has run with no other has done what it counts as done.
THEOREM DoneAloneHolds == ToolSpec => []DoneAlone
<1>1. ToolInv => DoneAlone
  BY DEF ToolInv, SoloOK, SoloDone, Last, ItemHolds, DoneAlone
<1> QED BY <1>1, ToolInvHolds, PTL

\* When all tools on a name have ended, none was to remove it and all installs
\* of it were done, the name is bound.
THEOREM StaysInstalledHolds == ToolSpec => []StaysInstalled
<1>1. ToolInv => StaysInstalled
  BY DEF ToolInv, KeptNames, StaysInstalled, Installs, Removes, Unsettled, Settled
<1> QED BY <1>1, ToolInvHolds, PTL

\* The links and unlinks of the tools are those of an atomic directory, with
\* tools dying inside them and whatever they do between them.
THEOREM ToolsLinearizable == ToolSpec => Linearizable
<1>1. ToolInit => Abstract!Init
  BY InitRefines DEF ToolInit
<1>2. ASSUME ToolInv, [ToolNext]_toolVars
      PROVE  [Abstract!Next]_<<dir, call, ret>>
  <2>1. [Next]_vars
    BY <1>2, ToolStepIsDirStep DEF ToolInv, ToolNext, toolVars
  <2>2. Inv
    BY <1>2 DEF ToolInv, Core
  <2> QED BY <2>1, <2>2, NextRefines
<1> QED BY <1>1, <1>2, ToolInvHolds, PTL DEF ToolSpec, Linearizable, Abstract!Spec

=============================================================================
