---------------------------- MODULE MCAdminTools ----------------------------
(***************************************************************************)
(* TLC instance of AdminTools: two tools of an administrator who may write *)
(* the directory and one of somebody who may not, on two names.  The       *)
(* programs are actions of admin_fstools cut down to the names they race   *)
(* for; t2 has a Mkdir followed by a CreateBlob of the same name, so that  *)
(* an object of the wrong kind is in the way.                              *)
(***************************************************************************)
EXTENDS AdminTools, TLC

CONSTANTS t1, t2, t3, a, b

It(act, kind, name, must) == [act |-> act, kind |-> kind, name |-> name, must |-> must]

GenKeypair   == <<It("install", "file", a, FALSE), It("install", "file", b, FALSE)>>
Bootstrap    == <<It("once", "faceted", a, FALSE), It("install", "blob", b, TRUE),
                  It("install", "gate", a, TRUE)>>
CreateBlob   == <<It("install", "blob", a, FALSE)>>
Mkdir        == <<It("make", "directory", a, FALSE)>>
Delete       == <<It("remove", "file", a, FALSE)>>
UpdatePython == <<It("replace", "blob", b, TRUE)>>

\* t1 and t2 may write; t3's label may not flow to the directory's.
MCPrograms == (t1 :> {GenKeypair, Bootstrap})
              @@ (t2 :> {Mkdir \o CreateBlob, UpdatePython, Delete})
              @@ (t3 :> {CreateBlob, Delete})

MCEntry == Thread \X (1..MaxItems)

=============================================================================
