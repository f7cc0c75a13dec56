------------------------------ MODULE BlobStore ------------------------------
(***************************************************************************)
(* The blob store (snapfaas/src/blobstore/mod.rs) and its users: the blob  *)
(* descriptors of a running function (snapfaas/src/syscall_server.rs), the *)
(* uploads of the gateway (frontends/webfront/src/init.rs) and the images  *)
(* that the administrator installs (snapfaas/src/fs/bootstrap.rs).         *)
(*                                                                         *)
(* A blob is written to a temporary file while its digest is computed, and *)
(* saved by renaming that file to the digest.  Contents are sequences; the *)
(* digest is injective (SHA-256 without collisions), so a digest is the    *)
(* sequence it was computed over and a file name is a sequence as well.    *)
(* rename and write of the operating system are atomic; write may take     *)
(* only a prefix of what it is given.  Nothing deletes a saved blob.       *)
(*                                                                         *)
(* meant does not exist in the code: it is what the guest has been told    *)
(* that its open descriptors stand for.                                    *)
(***************************************************************************)
EXTENDS Naturals, Sequences

CONSTANTS
  Proc,     \* workers, each with the processor of one invocation at a time
  Byte,
  Chunk,    \* what a guest gives to one blob_write, and what is uploaded
  MaxLen,   \* bound: the length of a blob
  MaxFd     \* bound: the descriptors of one processor

ASSUME ChunkAssumption == Chunk \subseteq Seq(Byte)
ASSUME BoundAssumption == MaxLen \in Nat /\ MaxFd \in Nat \ {0}

VARIABLES
  files,   \* the saved blobs: contents by name
  named,   \* the names that blob objects and the functions of gates have held
  queued,  \* the names in invocations that wait for a worker
  proc     \* per worker: its processor

vars == <<files, named, queued, proc>>

Nothing == [x \in {} |-> << >>]
With(f, x, v) == [y \in DOMAIN f \cup {x} |-> IF y = x THEN v ELSE f[y]]
Without(f, x) == [y \in DOMAIN f \ {x} |-> f[y]]

\* A descriptor the guest has not closed means to it what it did.
Told(m, fd, v) == IF fd \in DOMAIN m THEN m ELSE With(m, fd, v)

\* SyscallProcessor::new: empty tables, the first descriptor is 1.
NewProcessor(up) ==
  [up |-> up, create_blobs |-> Nothing, blobs |-> Nothing, max_blob_id |-> 1,
   meant |-> Nothing]

Init ==
  /\ files  = Nothing
  /\ named  = {}
  /\ queued = {}
  /\ proc   = [p \in Proc |-> NewProcessor(FALSE)]

Became(p, r) == proc' = [proc EXCEPT ![p] = r]

-----------------------------------------------------------------------------
(* The store. *)

\* create: an empty temporary file and the digest of nothing.
Create == [data |-> << >>, digest |-> << >>]

\* Mutant of Written: the digest is that of the whole buffer.
WrittenWhole(nb, bytes, n) ==
  [data |-> nb.data \o SubSeq(bytes, 1, n), digest |-> nb.digest \o bytes]

\* NewBlob::write: the file takes n bytes, the digest is updated with those.
Written(nb, bytes, n) ==
  [data   |-> nb.data \o SubSeq(bytes, 1, n),
   digest |-> nb.digest \o SubSeq(bytes, 1, n)]

\* Mutant of Saved: the name is known before the contents are there.
SavedLate(nb) == UNCHANGED files

\* save up to the rename: over a file of that name, if there is one.
Saved(nb) == files' = With(files, nb.digest, nb.data)

-----------------------------------------------------------------------------
(* Descriptors. *)

\* Mutant of Inserted: max_blob_id stays.
InsertedSame(r, name, content) ==
  [r EXCEPT !.blobs = With(@, r.max_blob_id, [name |-> name, content |-> content]),
            !.meant = Told(@, r.max_blob_id, content)]

\* A new descriptor for an open blob.
Inserted(r, name, content) ==
  [r EXCEPT !.blobs = With(@, r.max_blob_id, [name |-> name, content |-> content]),
            !.meant = Told(@, r.max_blob_id, content),
            !.max_blob_id = @ + 1]

\* blobstore.open(name), and its unwrap or expect: without the file the thread
\* panics and the processor is gone.
Opened(r, name) ==
  IF name \in DOMAIN files THEN Inserted(r, name, files[name]) ELSE NewProcessor(FALSE)

Room(p) == proc[p].up /\ proc[p].max_blob_id <= MaxFd

\* Worker: an invocation with a blob is taken and given a processor; run puts the
\* blob in its table.
Begin(p) ==
  /\ ~proc[p].up
  /\ \E name \in queued :
       /\ queued' = queued \ {name}
       /\ Became(p, Opened(NewProcessor(TRUE), name))
  /\ UNCHANGED <<files, named>>

BeginWithout(p) ==
  /\ ~proc[p].up
  /\ Became(p, NewProcessor(TRUE))
  /\ UNCHANGED <<files, named, queued>>

\* The function answers, fails or dies: the tables are dropped, with them the
\* temporary files.
End(p) ==
  /\ proc[p].up
  /\ Became(p, NewProcessor(FALSE))
  /\ UNCHANGED <<files, named, queued>>

BlobCreate(p) ==
  LET r == proc[p]
  IN  /\ Room(p)
      /\ Became(p, [r EXCEPT !.create_blobs = With(@, r.max_blob_id, Create),
                             !.meant = Told(@, r.max_blob_id, << >>),
                             !.max_blob_id = @ + 1])
      /\ UNCHANGED <<files, named, queued>>

\* blob_write: the guest is told how much was taken.
BlobWrite(p, fd, bytes) ==
  LET r == proc[p]
  IN  /\ fd \in DOMAIN r.create_blobs
      /\ \E n \in 0..Len(bytes) :
           /\ Len(r.create_blobs[fd].data) + n <= MaxLen
           /\ Became(p, [r EXCEPT !.create_blobs[fd] = Written(@, bytes, n),
                                  !.meant[fd] = @ \o SubSeq(bytes, 1, n)])
      /\ UNCHANGED <<files, named, queued>>

\* blob_finalize: the new blob is out of its table whatever save answers.
BlobFinalize(p, fd) ==
  LET r    == proc[p]
      nb   == r.create_blobs[fd]
      gone == [r EXCEPT !.create_blobs = Without(@, fd)]
  IN  /\ fd \in DOMAIN r.create_blobs
      /\ Saved(nb)
      /\ Became(p, [gone EXCEPT !.blobs = With(@, fd, [name |-> nb.digest, content |-> nb.data])])
      /\ UNCHANGED <<named, queued>>

\* save fails, before the rename or, at set_permissions, after it.
FinalizeFails(p, fd) ==
  LET r == proc[p]
  IN  /\ fd \in DOMAIN r.create_blobs
      /\ UNCHANGED files \/ Saved(r.create_blobs[fd])
      /\ Became(p, [r EXCEPT !.create_blobs = Without(@, fd), !.meant = Without(@, fd)])
      /\ UNCHANGED <<named, queued>>

\* blob_close: knows only the blobs that are open for reading.
BlobClose(p, fd) ==
  LET r == proc[p]
  IN  /\ fd \in DOMAIN r.blobs
      /\ Became(p, [r EXCEPT !.blobs = Without(@, fd), !.meant = Without(@, fd)])
      /\ UNCHANGED <<files, named, queued>>

\* dent_create and dent_update of a blob: the object gets the name behind fd.
DentNameBlob(p, fd) ==
  /\ fd \in DOMAIN proc[p].blobs
  /\ named' = named \cup {proc[p].blobs[fd].name}
  /\ UNCHANGED <<files, queued, proc>>

\* dent_get_blob, and dent_ls_gate for an image of a function.
DentGetBlob(p, name) ==
  /\ Room(p)
  /\ name \in named
  /\ Became(p, Opened(proc[p], name))
  /\ UNCHANGED <<files, named, queued>>

\* A response kept as a blob (toblob): written in full, saved, given a descriptor.
InvokeToBlob(p, bytes) ==
  LET nb == Written(Create, bytes, Len(bytes))
  IN  /\ Room(p)
      /\ Saved(nb)
      /\ Became(p, Inserted(proc[p], nb.digest, nb.data))
      /\ UNCHANGED <<named, queued>>

\* prepare_payload: the upload is saved, then its name put in the invocation.
Upload(bytes) ==
  LET nb == Written(Create, bytes, Len(bytes))
  IN  /\ Saved(nb)
      /\ queued' = queued \cup {nb.digest}
      /\ UNCHANGED <<named, proc>>

\* localfile2blob or CreateBlob, and the name stored in the file system.  CreateBlob
\* ignores the error of a copy that stopped half way.
Install(bytes) ==
  /\ \E n \in 0..Len(bytes) :
       LET nb == Written(Create, bytes, n)
       IN  Saved(nb) /\ named' = named \cup {nb.digest}
  /\ UNCHANGED <<queued, proc>>

Next ==
  \/ \E p \in Proc :
       \/ Begin(p) \/ BeginWithout(p) \/ End(p) \/ BlobCreate(p)
       \/ \E fd \in 1..MaxFd : \/ \E bytes \in Chunk : BlobWrite(p, fd, bytes)
                               \/ BlobFinalize(p, fd)
                               \/ FinalizeFails(p, fd)
                               \/ BlobClose(p, fd)
                               \/ DentNameBlob(p, fd)
       \/ \E name \in named : DentGetBlob(p, name)
       \/ \E bytes \in Chunk : InvokeToBlob(p, bytes)
  \/ \E bytes \in Chunk : Upload(bytes) \/ Install(bytes)

Spec == Init /\ [][Next]_vars

-----------------------------------------------------------------------------
(* Properties. *)

NewBlob  == [data : Seq(Byte), digest : Seq(Byte)]
OpenBlob == [name : Seq(Byte), content : Seq(Byte)]

\* The types of the files and of the processors' tables.
TypeOK ==
  /\ DOMAIN files \subseteq Seq(Byte)
  /\ \A name \in DOMAIN files : files[name] \in Seq(Byte)
  /\ named \subseteq Seq(Byte) /\ queued \subseteq Seq(Byte)
  /\ \A p \in Proc :
       /\ proc[p].max_blob_id \in 1..(MaxFd + 1)
       /\ DOMAIN proc[p].blobs \cup DOMAIN proc[p].create_blobs \subseteq 1..MaxFd
       /\ \A fd \in DOMAIN proc[p].blobs : proc[p].blobs[fd] \in OpenBlob
       /\ \A fd \in DOMAIN proc[p].create_blobs : proc[p].create_blobs[fd] \in NewBlob

\* A file has the contents its name is the digest of, and so has every descriptor
\* that is open on one, whatever part of each write the disk took, whoever else
\* saved the same contents, and wherever a save or a function stopped.
ContentAddressed ==
  /\ \A name \in DOMAIN files : files[name] = name
  /\ \A p \in Proc : \A fd \in DOMAIN proc[p].blobs :
       proc[p].blobs[fd].content = proc[p].blobs[fd].name

\* Every name that an object, a gate, a waiting invocation or a descriptor holds is
\* the name of a saved blob: the unwrap of Blobstore::open in the worker and the
\* expect in dent_get_blob and dent_ls_gate never fail.
NamesSaved ==
  /\ named \cup queued \subseteq DOMAIN files
  /\ \A p \in Proc : \A fd \in DOMAIN proc[p].blobs : proc[p].blobs[fd].name \in DOMAIN files

\* A descriptor stands for one blob as long as the processor lives: what is behind
\* it, before and after it is finalized, is what the guest was told had been
\* written to it, or what it held when it was opened.
DescriptorsKept ==
  \A p \in Proc :
    LET r == proc[p]
    IN  /\ DOMAIN r.blobs \cap DOMAIN r.create_blobs = {}
        /\ \A fd \in DOMAIN r.create_blobs : r.create_blobs[fd].data = r.meant[fd]
        /\ \A fd \in DOMAIN r.blobs : r.blobs[fd].content = r.meant[fd]

\* A saved blob is never removed, renamed or changed.
NeverRewritten ==
  [][\A name \in DOMAIN files : name \in DOMAIN files' /\ files'[name] = files[name]]_files

=============================================================================
