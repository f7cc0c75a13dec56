----------------------------- MODULE AdminTools -----------------------------
(***************************************************************************)
(* The programs that install things in the labeled file system: the        *)
(* actions of admin_fstools (snapfaas/bins/admin_fstools/main.rs), the     *)
(* bootstrap of the image directory (snapfaas/src/fs/bootstrap.rs) and the *)
(* create_or_update helpers they use (snapfaas/src/fs/utils.rs).  Each is  *)
(* a process of its own on the shared backing store, so any two of them    *)
(* interleave, and any may die between two of its steps.                   *)
(*                                                                         *)
(* A program is a sequence of items, one per name it deals with.  The acts *)
(*   install   create_or_update_file and _blob, and prepare_fs's gate:     *)
(*             overwrite an object of the right kind, else unlink whatever *)
(*             has the name, create the object with its contents, link it  *)
(*   make      Mkdir: create_directory, fs.link                            *)
(*   once      create_faceted: list, and create and link if not there      *)
(*   remove    Delete: fs.rm                                               *)
(*   replace   update_python: replace_blob of the object at the path       *)
(* call link and unlink of DirectoryOps.  An item that must succeed stops  *)
(* its program with an error when it does not (`?` and expect); the error  *)
(* of another is printed and the program goes on.                          *)
(*                                                                         *)
(* All names are in one directory: those of different directories race     *)
(* less.  Whether a label check on an object passes, and whether a base    *)
(* path leads to a directory, is left open (Refused).  The root object     *)
(* exists: fs.initialize adds it once and changes nothing afterwards.      *)
(***************************************************************************)
EXTENDS DirectoryOps, Naturals, Sequences

CONSTANTS
  Programs,   \* per thread: the programs it may run
  MaxItems    \* no program has more items

Act  == {"install", "make", "once", "remove", "replace"}
Kind == {"file", "blob", "gate", "directory", "faceted"}
Item == [act : Act, kind : Kind, name : Name, must : BOOLEAN]

\* Mkdir makes a directory, create_faceted a faceted one.
ASSUME ProgramsAssumption ==
  /\ MaxItems \in Nat
  /\ \A t \in Thread : \A p \in Programs[t] :
       /\ p \in Seq(Item)
       /\ Len(p) \in 1..MaxItems
       /\ \A i \in 1..Len(p) : /\ p[i].act = "make" => p[i].kind = "directory"
                               /\ p[i].act = "once" => p[i].kind = "faceted"

ASSUME NoneIsNoThread == None \notin Thread

\* References to objects: the uid a tool draws is fresh, one for each item.
ASSUME EntryAssumption == Thread \X (1..MaxItems) \subseteq Entry

VARIABLES
  obj,    \* per reference: the object in the store
  tool,   \* per thread: its program and how far it is
  alone   \* the tool that has run with no other since it started, or None

toolVars == <<vars, obj, tool, alone>>

Free == [kind |-> "free", data |-> None]
Idle == [pc |-> "idle", prog |-> << >>, at |-> 1, done |-> {}, target |-> None]

ToolInit ==
  /\ Init
  /\ obj   = [e \in Entry |-> Free]
  /\ tool  = [t \in Thread |-> Idle]
  /\ alone = None

Running(t) == tool[t].pc \notin {"idle", "end", "dead"}
Current(t) == tool[t].prog[tool[t].at]
Unlinking(t) == [kind |-> "unlink", name |-> Current(t).name, entry |-> None]
Linking(t)   == [kind |-> "link", name |-> Current(t).name,
                 entry |-> <<t, tool[t].at>>]

Goto(t, pc) == tool' = [tool EXCEPT ![t].pc = pc]

\* The item is over: on to the next one, unless it was the last or had to succeed.
Finish(t, ok) ==
  LET stops == tool[t].at = Len(tool[t].prog) \/ (~ok /\ Current(t).must)
  IN  tool' = [tool EXCEPT ![t].pc   = IF stops THEN "end" ELSE "list",
                           ![t].at   = IF stops THEN @ ELSE @ + 1,
                           ![t].done = IF ok THEN @ \cup {tool[t].at} ELSE @,
                           ![t].target = None]

Start(t) ==
  /\ tool[t].pc = "idle"
  /\ \E p \in Programs[t] : tool' = [tool EXCEPT ![t] = [@ EXCEPT !.pc = "list", !.prog = p]]
  /\ alone' = IF \E u \in Thread : Running(u) THEN None ELSE t
  /\ UNCHANGED <<vars, obj>>

\* The entry that dir.list or read_path finds at the name of the item.
Bound(t)    == Current(t).name \in DOMAIN dir
RightKind(t) == Bound(t) /\ obj[dir[Current(t).name]].kind = Current(t).kind

\* Mutant of ListInstall: a name of another kind is left for link to refuse.
ListInstallKeeps(t) ==
  /\ tool[t].pc = "list" /\ Current(t).act = "install"
  /\ \/ /\ RightKind(t)
        /\ tool' = [tool EXCEPT ![t].pc = "put", ![t].target = dir[Current(t).name]]
     \/ ~RightKind(t) /\ Goto(t, "create")
  /\ UNCHANGED <<vars, obj, alone>>

\* match dir.list(fs).get(&name), the second arm up to the call of unlink.
ListInstall(t) ==
  /\ tool[t].pc = "list" /\ Current(t).act = "install"
  /\ \/ /\ RightKind(t)
        /\ tool' = [tool EXCEPT ![t].pc = "put", ![t].target = dir[Current(t).name]]
        /\ UNCHANGED vars
     \/ Bound(t) /\ ~RightKind(t) /\ Goto(t, "unlink") /\ Invoke(t, Unlinking(t))
     \/ ~Bound(t) /\ Goto(t, "create") /\ UNCHANGED vars
  /\ UNCHANGED <<obj, alone>>

\* create_faceted: if !fs.list_dir(base_dir)?.contains_key(&name)
ListOnce(t) ==
  /\ tool[t].pc = "list" /\ Current(t).act = "once"
  /\ \/ Bound(t) /\ Finish(t, FALSE)
     \/ ~Bound(t) /\ Goto(t, "create")
  /\ UNCHANGED <<vars, obj, alone>>

\* replace_blob: read_path, then NotABlob unless it is one.
ReadReplaced(t) ==
  /\ tool[t].pc = "list" /\ Current(t).act = "replace"
  /\ \/ /\ RightKind(t)
        /\ tool' = [tool EXCEPT ![t].pc = "put", ![t].target = dir[Current(t).name]]
     \/ ~RightKind(t) /\ Finish(t, FALSE)
  /\ UNCHANGED <<vars, obj, alone>>

\* rm up to the call of unlink.
Remove(t) ==
  /\ tool[t].pc = "list" /\ Current(t).act = "remove"
  /\ Goto(t, "remove")
  /\ Invoke(t, Unlinking(t))
  /\ UNCHANGED <<obj, alone>>

\* fileentry.write, blobentry.replace, gate.replace: on the object that was
\* listed, wherever it is linked by now.
Put(t) ==
  /\ tool[t].pc = "put"
  /\ obj' = [obj EXCEPT ![tool[t].target].data = t]
  /\ Finish(t, TRUE)
  /\ UNCHANGED <<vars, alone>>

Creates(t) == tool[t].pc = "create" \/ (tool[t].pc = "list" /\ Current(t).act = "make")

\* Mutant of Create: the object is linked before it is written.
CreateEmpty(t) ==
  /\ Creates(t)
  /\ obj' = [obj EXCEPT ![<<t, tool[t].at>>] = [kind |-> Current(t).kind, data |-> None]]
  /\ Goto(t, "link")
  /\ Invoke(t, Linking(t))
  /\ UNCHANGED alone

\* create_file and its write, create_blob, create_direct_gate, create_directory
\* or create_faceted_directory, and the call of link.
Create(t) ==
  /\ Creates(t)
  /\ obj' = [obj EXCEPT ![<<t, tool[t].at>>] =
               [kind |-> Current(t).kind,
                data |-> IF Current(t).act = "install" THEN t ELSE None]]
  /\ Goto(t, "link")
  /\ Invoke(t, Linking(t))
  /\ UNCHANGED alone

\* BadPath, NotADir, or CannotWrite for the object to write or create.  Nothing
\* puts a name back that the item unlinked before.
Refused(t) ==
  /\ \/ tool[t].pc \in {"list", "put"}
     \/ tool[t].pc = "create" /\ Current(t).act = "install"
  /\ Finish(t, FALSE)
  /\ UNCHANGED <<vars, obj, alone>>

\* unlink returned: its Ok(false) is ignored, an error ends the item.
Unlinked(t) ==
  /\ tool[t].pc = "unlink"
  /\ Return(t)
  /\ IF ret[t] = "denied" THEN Finish(t, FALSE) ELSE Goto(t, "create")
  /\ UNCHANGED <<obj, alone>>

\* link returned: install ignores the Ok(false) of dir.link, fs.link makes it
\* NameExists.
Linked(t) ==
  /\ tool[t].pc = "link"
  /\ Return(t)
  /\ Finish(t, ret[t] = "ok" \/ (ret[t] = "no" /\ Current(t).act = "install"))
  /\ UNCHANGED <<obj, alone>>

Removed(t) ==
  /\ tool[t].pc = "remove"
  /\ Return(t)
  /\ Finish(t, ret[t] # "denied")
  /\ UNCHANGED <<obj, alone>>

\* The tool is killed, perhaps inside link or unlink.
ToolCrash(t) ==
  /\ Running(t)
  /\ tool' = [tool EXCEPT ![t].pc = "dead"]
  /\ \/ Crash(t)
     \/ call[t] = None /\ UNCHANGED vars
  /\ UNCHANGED <<obj, alone>>

\* A step of link or unlink that is not its return.
InOperation(t) == (Get(t) \/ CasSucceeds(t) \/ CasFails(t)) /\ UNCHANGED <<obj, tool, alone>>

ToolStep(t) ==
  \/ ListInstall(t) \/ ListOnce(t) \/ ReadReplaced(t) \/ Remove(t)
  \/ Put(t) \/ Create(t) \/ Refused(t)
  \/ InOperation(t) \/ Unlinked(t) \/ Linked(t) \/ Removed(t)

ToolNext == \E t \in Thread : Start(t) \/ ToolStep(t) \/ ToolCrash(t)

\* Processes run; nobody has to start a tool.
ToolSpec ==
  /\ ToolInit /\ [][ToolNext]_toolVars
  /\ \A t \in Thread : WF_toolVars(ToolStep(t))

-----------------------------------------------------------------------------
(* Properties. *)

Installs(t, n) == \E i \in 1..Len(tool[t].prog) : /\ tool[t].prog[i].act = "install"
                                                  /\ tool[t].prog[i].name = n

\* Whatever dies when, a name that is bound to a file, a blob or a gate is bound
\* to one with its contents: create_or_update writes before it links.
NoEmptyObject ==
  \A n \in DOMAIN dir : obj[dir[n]].kind \in {"file", "blob", "gate"} =>
                          obj[dir[n]].data # None

\* A tool that runs with no other, over whatever finished, failed and killed tools
\* have left behind, does what it says: an item it counts as done leaves the
\* name bound to an object of its kind with its contents, or not bound at all.
DoneAlone ==
  \A t \in Thread : alone = t =>
    \A i \in tool[t].done :
      LET it == tool[t].prog[i]
      IN  (\A j \in (i + 1)..tool[t].at : tool[t].prog[j].name # it.name) =>
            IF it.act = "remove"
            THEN it.name \notin DOMAIN dir
            ELSE /\ it.name \in DOMAIN dir
                 /\ obj[dir[it.name]].kind = it.kind
                 /\ it.act \in {"install", "replace"} => obj[dir[it.name]].data = t

\* Installers do not take a name away from each other: when every tool that was
\* started on name n has ended, none was to delete it and each one's installs were
\* done, n is bound, though unlink and link are two operations and each tool may
\* have unlinked what another had just linked.
StaysInstalled ==
  \A n \in Name :
    LET on == {t \in Thread : \E i \in 1..Len(tool[t].prog) : tool[t].prog[i].name = n}
    IN  /\ \E t \in on : Installs(t, n)
        /\ \A t \in on :
             /\ tool[t].pc = "end"
             /\ \A i \in 1..Len(tool[t].prog) :
                  tool[t].prog[i].name = n => /\ tool[t].prog[i].act # "remove"
                                              /\ tool[t].prog[i].act = "install" => i \in tool[t].done
        => n \in DOMAIN dir

\* Every tool that is started ends or is killed: no two of them keep each other
\* going round the compare-and-swap loops.
ToolsEnd == \A t \in Thread : Running(t) ~> ~Running(t)

=============================================================================
