--------------------------- MODULE BlobStoreProofs ---------------------------
(***************************************************************************)
(* Proofs about BlobStore, for any workers, bytes and contents and any     *)
(* number of descriptors.                                                  *)
(***************************************************************************)
EXTENDS BlobStore, SequenceTheorems, TLAPS

\* A map from some of the descriptors, and a processor.
Table(T) == UNION {[S -> T] : S \in SUBSET (1..MaxFd)}

Processor ==
  [up : BOOLEAN, create_blobs : Table(NewBlob), blobs : Table(OpenBlob),
   max_blob_id : 1..(MaxFd + 1), meant : Table(Seq(Byte))]

\* What a processor's tables have in common: a descriptor was issued below
\* max_blob_id, is in one table, and its file, digest and name are all what the
\* guest was told.
Good(r) ==
  /\ DOMAIN r.meant = DOMAIN r.blobs \cup DOMAIN r.create_blobs
  /\ DOMAIN r.blobs \cap DOMAIN r.create_blobs = {}
  /\ \A fd \in DOMAIN r.meant : fd < r.max_blob_id
  /\ \A fd \in DOMAIN r.create_blobs : /\ r.create_blobs[fd].data = r.meant[fd]
                                       /\ r.create_blobs[fd].digest = r.meant[fd]
  /\ \A fd \in DOMAIN r.blobs : /\ r.blobs[fd].content = r.meant[fd]
                                /\ r.blobs[fd].name = r.meant[fd]

\* The names behind the descriptors of a processor.
Names(r) == {r.blobs[fd].name : fd \in DOMAIN r.blobs}

Inv ==
  /\ DOMAIN files \subseteq Seq(Byte)
  /\ \A name \in DOMAIN files : files[name] = name
  /\ proc \in [Proc -> Processor]
  /\ named \cup queued \subseteq DOMAIN files
  /\ \A p \in Proc : Good(proc[p]) /\ Names(proc[p]) \subseteq DOMAIN files

-----------------------------------------------------------------------------
(* Maps. *)

\* Every map that the tables are updated with is a table again.
LEMMA TableDef ==
  ASSUME NEW T, NEW f
  PROVE  f \in Table(T) <=> (DOMAIN f \subseteq 1..MaxFd /\ f \in [DOMAIN f -> T])
  BY DEF Table

\* insert keeps the type of a table.
LEMMA WithTable ==
  ASSUME NEW T, NEW f \in Table(T), NEW x \in 1..MaxFd, NEW v \in T
  PROVE  With(f, x, v) \in Table(T)
  <1>1. DOMAIN f \subseteq 1..MaxFd /\ f \in [DOMAIN f -> T]
    BY TableDef
  <1>2. With(f, x, v) \in [DOMAIN f \cup {x} -> T]
    BY <1>1 DEF With
  <1> QED BY <1>1, <1>2 DEF Table

\* remove keeps the type of a table.
LEMMA WithoutTable ==
  ASSUME NEW T, NEW f \in Table(T), NEW x
  PROVE  Without(f, x) \in Table(T)
  <1>1. DOMAIN f \subseteq 1..MaxFd /\ f \in [DOMAIN f -> T]
    BY TableDef
  <1>2. Without(f, x) \in [DOMAIN f \ {x} -> T]
    BY <1>1 DEF Without
  <1> QED BY <1>1, <1>2 DEF Table

\* An overwritten entry keeps the type of a table.
LEMMA ExceptTable ==
  ASSUME NEW T, NEW f \in Table(T), NEW x \in DOMAIN f, NEW v \in T
  PROVE  [f EXCEPT ![x] = v] \in Table(T)
  <1>1. DOMAIN f \subseteq 1..MaxFd /\ f \in [DOMAIN f -> T]
    BY TableDef
  <1>2. [f EXCEPT ![x] = v] \in [DOMAIN f -> T]
    BY <1>1
  <1> QED BY <1>1, <1>2 DEF Table

-----------------------------------------------------------------------------
(* The store. *)

\* A new blob whose file and digest agree.
Sound(nb) == nb \in NewBlob /\ nb.data = nb.digest

\* create makes one.
LEMMA CreateSound == Sound(Create)
  BY DEF Sound, Create, NewBlob

\* A write, of which the disk took any part, leaves one.
LEMMA WrittenSound ==
  ASSUME NEW nb, Sound(nb), NEW bytes \in Seq(Byte), NEW n \in 0..Len(bytes)
  PROVE  /\ Sound(Written(nb, bytes, n))
         /\ Written(nb, bytes, n).data = nb.data \o SubSeq(bytes, 1, n)
  <1>1. SubSeq(bytes, 1, n) \in Seq(Byte)
    BY SubSeqProperties
  <1>2. nb.data \o SubSeq(bytes, 1, n) \in Seq(Byte)
    BY <1>1 DEF Sound, NewBlob
  <1> QED BY <1>2 DEF Sound, Written, NewBlob

\* A save of one adds its name and changes no file that was there.
LEMMA SavedKeeps ==
  ASSUME Inv, NEW nb, Sound(nb), Saved(nb)
  PROVE  /\ DOMAIN files' = DOMAIN files \cup {nb.digest}
         /\ DOMAIN files' \subseteq Seq(Byte)
         /\ \A name \in DOMAIN files' : files'[name] = name
  BY DEF Saved, Inv, Sound, NewBlob, With

-----------------------------------------------------------------------------
(* Descriptors. *)

\* The processor of a new invocation.
LEMMA NewProcessorGood ==
  ASSUME NEW up \in BOOLEAN
  PROVE  /\ NewProcessor(up) \in Processor
         /\ Good(NewProcessor(up))
         /\ Names(NewProcessor(up)) = {}
         /\ NewProcessor(up).max_blob_id = 1
  <1>1. ASSUME NEW T PROVE Nothing \in Table(T)
    BY TableDef DEF Nothing
  <1>2. DOMAIN Nothing = {}
    BY DEF Nothing
  <1>3. NewProcessor(up) \in Processor
    BY <1>1, BoundAssumption DEF NewProcessor, Processor
  <1> QED BY <1>2, <1>3 DEF NewProcessor, Good, Names

\* A descriptor for an open blob whose name is that of its contents.
LEMMA InsertedGood ==
  ASSUME NEW r \in Processor, Good(r), r.max_blob_id <= MaxFd, NEW c \in Seq(Byte)
  PROVE  /\ Inserted(r, c, c) \in Processor
         /\ Good(Inserted(r, c, c))
         /\ Names(Inserted(r, c, c)) = Names(r) \cup {c}
  <1> DEFINE m == r.max_blob_id
             q == Inserted(r, c, c)
  <1>1. m \in 1..MaxFd
    BY BoundAssumption DEF Processor
  <1>2. m \notin DOMAIN r.meant /\ m \notin DOMAIN r.blobs /\ m \notin DOMAIN r.create_blobs
    BY <1>1 DEF Good
  <1>3. /\ q.up = r.up /\ q.create_blobs = r.create_blobs /\ q.max_blob_id = m + 1
        /\ q.blobs = With(r.blobs, m, [name |-> c, content |-> c])
        /\ q.meant = With(r.meant, m, c)
    BY <1>2 DEF Inserted, Told, Processor
  <1>4. With(r.blobs, m, [name |-> c, content |-> c]) \in Table(OpenBlob)
    BY <1>1, WithTable DEF Processor, OpenBlob
  <1>5. Told(r.meant, m, c) \in Table(Seq(Byte))
    BY <1>1, WithTable DEF Processor, Told
  <1>6. m + 1 \in 1..(MaxFd + 1)
    BY <1>1, BoundAssumption
  <1>7. q \in Processor
    BY <1>4, <1>5, <1>6 DEF Inserted, Processor
  <1>8. /\ DOMAIN q.blobs = DOMAIN r.blobs \cup {m}
        /\ q.blobs[m] = [name |-> c, content |-> c]
        /\ \A fd \in DOMAIN r.blobs : q.blobs[fd] = r.blobs[fd]
    BY <1>2, <1>3 DEF With
  <1>9. /\ DOMAIN q.meant = DOMAIN r.meant \cup {m}
        /\ q.meant[m] = c
        /\ \A fd \in DOMAIN r.meant : q.meant[fd] = r.meant[fd]
    BY <1>2, <1>3 DEF With
  <1>10. DOMAIN r.meant \subseteq Nat
    BY TableDef DEF Processor
  <1> HIDE DEF q
  <1>11. Good(q)
    BY <1>1, <1>2, <1>3, <1>8, <1>9, <1>10 DEF Good
  <1>12. Names(q) = Names(r) \cup {c}
    BY <1>2, <1>8 DEF Names
  <1> QED BY <1>7, <1>11, <1>12 DEF q

\* The unwrap of Blobstore::open passes for a saved name.
LEMMA OpenedGood ==
  ASSUME Inv, NEW r \in Processor, Good(r), r.max_blob_id <= MaxFd,
         Names(r) \subseteq DOMAIN files, NEW name \in DOMAIN files
  PROVE  /\ Opened(r, name) \in Processor
         /\ Good(Opened(r, name))
         /\ Names(Opened(r, name)) \subseteq DOMAIN files
  BY InsertedGood DEF Opened, Inv

\* How a step of one processor keeps the invariant, whatever else it does.
LEMMA StepKeeps ==
  ASSUME Inv, NEW p \in Proc, NEW q \in Processor, Good(q), Became(p, q),
         DOMAIN files \subseteq DOMAIN files', DOMAIN files' \subseteq Seq(Byte),
         \A name \in DOMAIN files' : files'[name] = name,
         Names(q) \subseteq DOMAIN files', named' \cup queued' \subseteq DOMAIN files'
  PROVE  Inv'
  <1>1. proc' \in [Proc -> Processor] /\ proc'[p] = q
    BY DEF Inv, Became
  <1>2. \A o \in Proc : o # p => proc'[o] = proc[o]
    BY DEF Inv, Became
  <1>3. \A o \in Proc : Good(proc'[o]) /\ Names(proc'[o]) \subseteq DOMAIN files'
    BY <1>1, <1>2 DEF Inv
  <1> QED BY <1>1, <1>3 DEF Inv, Good, Names

\* The processor after blob_create, blob_write, blob_finalize, a failed
\* blob_finalize, and blob_close.
AfterCreate(r) == [r EXCEPT !.create_blobs = With(@, r.max_blob_id, Create),
                            !.meant = Told(@, r.max_blob_id, << >>),
                            !.max_blob_id = @ + 1]
AfterWrite(r, fd, bytes, n) == [r EXCEPT !.create_blobs[fd] = Written(@, bytes, n),
                                         !.meant[fd] = @ \o SubSeq(bytes, 1, n)]
AfterFinalize(r, fd) ==
  [[r EXCEPT !.create_blobs = Without(@, fd)] EXCEPT
     !.blobs = With(@, fd, [name    |-> r.create_blobs[fd].digest,
                            content |-> r.create_blobs[fd].data])]
AfterFailure(r, fd) == [r EXCEPT !.create_blobs = Without(@, fd), !.meant = Without(@, fd)]
AfterClose(r, fd) == [r EXCEPT !.blobs = Without(@, fd), !.meant = Without(@, fd)]

\* blob_create: a descriptor for an empty new blob.
LEMMA CreatedGood ==
  ASSUME NEW r \in Processor, Good(r), r.max_blob_id <= MaxFd
  PROVE  /\ AfterCreate(r) \in Processor /\ Good(AfterCreate(r))
         /\ Names(AfterCreate(r)) = Names(r)
  <1> DEFINE m == r.max_blob_id
             q == AfterCreate(r)
  <1>1. m \in 1..MaxFd /\ m + 1 \in 1..(MaxFd + 1)
    BY BoundAssumption DEF Processor
  <1>2. m \notin DOMAIN r.meant /\ m \notin DOMAIN r.blobs /\ m \notin DOMAIN r.create_blobs
    BY <1>1 DEF Good
  <1>3. Create \in NewBlob /\ << >> \in Seq(Byte) /\ Create.data = << >> /\ Create.digest = << >>
    BY DEF Create, NewBlob
  <1>4. With(r.create_blobs, m, Create) \in Table(NewBlob)
    BY <1>1, <1>3, WithTable DEF Processor
  <1>5. Told(r.meant, m, << >>) \in Table(Seq(Byte))
    BY <1>1, <1>3, WithTable DEF Processor, Told
  <1>6. q \in Processor
    BY <1>1, <1>4, <1>5 DEF Processor, AfterCreate
  <1>7. /\ q.blobs = r.blobs /\ q.max_blob_id = m + 1
        /\ q.create_blobs = With(r.create_blobs, m, Create)
        /\ q.meant = With(r.meant, m, << >>)
    BY <1>2 DEF Told, Processor, AfterCreate
  <1> HIDE DEF q
  <1>8. /\ DOMAIN q.create_blobs = DOMAIN r.create_blobs \cup {m}
        /\ q.create_blobs[m] = Create
        /\ \A fd \in DOMAIN r.create_blobs : q.create_blobs[fd] = r.create_blobs[fd]
    BY <1>2, <1>7 DEF With
  <1>9. /\ DOMAIN q.meant = DOMAIN r.meant \cup {m}
        /\ q.meant[m] = << >>
        /\ \A fd \in DOMAIN r.meant : q.meant[fd] = r.meant[fd]
    BY <1>2, <1>7 DEF With
  <1>10. DOMAIN r.meant \subseteq Nat
    BY TableDef DEF Processor
  <1>11. Good(q)
    <2>1. \A fd \in DOMAIN q.meant : fd < q.max_blob_id
      BY <1>1, <1>7, <1>9, <1>10 DEF Good
    <2>2. \A fd \in DOMAIN q.create_blobs : /\ q.create_blobs[fd].data = q.meant[fd]
                                            /\ q.create_blobs[fd].digest = q.meant[fd]
      BY <1>2, <1>3, <1>8, <1>9 DEF Good
    <2>3. \A fd \in DOMAIN q.blobs : /\ q.blobs[fd].content = q.meant[fd]
                                     /\ q.blobs[fd].name = q.meant[fd]
      BY <1>2, <1>7, <1>9 DEF Good
    <2>4. /\ DOMAIN q.meant = DOMAIN q.blobs \cup DOMAIN q.create_blobs
          /\ DOMAIN q.blobs \cap DOMAIN q.create_blobs = {}
      BY <1>2, <1>7, <1>8, <1>9 DEF Good
    <2> QED BY <2>1, <2>2, <2>3, <2>4 DEF Good
  <1> QED BY <1>6, <1>7, <1>11 DEF Names, q

\* blob_write: file, digest and what the guest was told grow by the same bytes.
LEMMA WrittenGood ==
  ASSUME NEW r \in Processor, Good(r), NEW fd \in DOMAIN r.create_blobs,
         NEW bytes \in Seq(Byte), NEW n \in 0..Len(bytes)
  PROVE  /\ AfterWrite(r, fd, bytes, n) \in Processor /\ Good(AfterWrite(r, fd, bytes, n))
         /\ Names(AfterWrite(r, fd, bytes, n)) = Names(r)
  <1> DEFINE q == AfterWrite(r, fd, bytes, n)
             nb == Written(r.create_blobs[fd], bytes, n)
             told == r.meant[fd] \o SubSeq(bytes, 1, n)
  <1>1. /\ r.create_blobs \in Table(NewBlob) /\ r.meant \in Table(Seq(Byte))
        /\ fd \in DOMAIN r.meant
    BY DEF Processor, Good
  <1>2. /\ r.create_blobs \in [DOMAIN r.create_blobs -> NewBlob]
        /\ r.meant \in [DOMAIN r.meant -> Seq(Byte)]
    BY <1>1, TableDef
  <1>3. Sound(r.create_blobs[fd]) /\ r.create_blobs[fd].data = r.meant[fd]
    BY <1>2 DEF Sound, Good
  <1>4. nb \in NewBlob /\ nb.data = told /\ nb.digest = told
    BY <1>3, WrittenSound DEF Sound
  <1>5. told \in Seq(Byte)
    BY <1>4 DEF NewBlob
  <1> HIDE DEF nb, told
  <1>6. /\ q.up = r.up /\ q.blobs = r.blobs /\ q.max_blob_id = r.max_blob_id
        /\ q.create_blobs = [r.create_blobs EXCEPT ![fd] = nb]
        /\ q.meant = [r.meant EXCEPT ![fd] = told]
    BY <1>1 DEF Processor, nb, told, AfterWrite
  <1>7. q \in Processor
    <2>1. [r.create_blobs EXCEPT ![fd] = nb] \in Table(NewBlob)
      BY <1>1, <1>4, ExceptTable
    <2>2. [r.meant EXCEPT ![fd] = told] \in Table(Seq(Byte))
      BY <1>1, <1>5, ExceptTable
    <2>3. q = [r EXCEPT !.create_blobs = [r.create_blobs EXCEPT ![fd] = nb],
                        !.meant = [r.meant EXCEPT ![fd] = told]]
      BY DEF nb, told, Processor, AfterWrite
    <2> QED BY <2>1, <2>2, <2>3 DEF Processor
  <1> HIDE DEF q
  <1>8. /\ DOMAIN q.create_blobs = DOMAIN r.create_blobs
        /\ DOMAIN q.meant = DOMAIN r.meant
        /\ q.create_blobs[fd] = nb /\ q.meant[fd] = told
        /\ \A o \in DOMAIN r.create_blobs : o # fd => q.create_blobs[o] = r.create_blobs[o]
        /\ \A o \in DOMAIN r.meant : o # fd => q.meant[o] = r.meant[o]
    BY <1>1, <1>2, <1>6
  <1>9. Good(q)
    BY <1>4, <1>6, <1>8 DEF Good
  <1> QED BY <1>6, <1>7, <1>9 DEF Names, q

\* blob_finalize: the descriptor goes on with the blob of the digest's name.
LEMMA FinalizedGood ==
  ASSUME NEW r \in Processor, Good(r), NEW fd \in DOMAIN r.create_blobs
  PROVE  /\ AfterFinalize(r, fd) \in Processor /\ Good(AfterFinalize(r, fd))
         /\ Names(AfterFinalize(r, fd)) = Names(r) \cup {r.create_blobs[fd].digest}
  <1> DEFINE nb   == r.create_blobs[fd]
             blob == [name |-> nb.digest, content |-> nb.data]
             q    == AfterFinalize(r, fd)
  <1>1. r.create_blobs \in Table(NewBlob) /\ r.blobs \in Table(OpenBlob)
    BY DEF Processor
  <1>2. DOMAIN r.create_blobs \subseteq 1..MaxFd /\ nb \in NewBlob
    BY <1>1, TableDef
  <1>3. blob \in OpenBlob
    BY <1>2 DEF NewBlob, OpenBlob
  <1>4. Without(r.create_blobs, fd) \in Table(NewBlob)
    BY <1>1, WithoutTable
  <1>5. With(r.blobs, fd, blob) \in Table(OpenBlob)
    BY <1>1, <1>2, <1>3, WithTable
  <1>6. /\ q \in Processor
        /\ q.create_blobs = Without(r.create_blobs, fd)
        /\ q.blobs = With(r.blobs, fd, blob)
        /\ q.meant = r.meant /\ q.max_blob_id = r.max_blob_id
    BY <1>4, <1>5 DEF AfterFinalize, Processor
  <1> HIDE DEF q
  <1>7. /\ DOMAIN q.create_blobs = DOMAIN r.create_blobs \ {fd}
        /\ \A o \in DOMAIN q.create_blobs : q.create_blobs[o] = r.create_blobs[o]
    BY <1>6 DEF Without
  <1>8. /\ DOMAIN q.blobs = DOMAIN r.blobs \cup {fd}
        /\ q.blobs[fd] = blob
        /\ \A o \in DOMAIN r.blobs : o # fd => q.blobs[o] = r.blobs[o]
    BY <1>6 DEF With
  <1>9. fd \notin DOMAIN r.blobs /\ blob.name = r.meant[fd] /\ blob.content = r.meant[fd]
    BY DEF Good
  <1>10. Good(q)
    BY <1>6, <1>7, <1>8, <1>9 DEF Good
  <1>11. Names(q) = Names(r) \cup {nb.digest}
    BY <1>8, <1>9 DEF Names
  <1> QED BY <1>6, <1>10, <1>11 DEF q

\* A failed finalize forgets the descriptor.
LEMMA FailedGood ==
  ASSUME NEW r \in Processor, Good(r), NEW fd \in DOMAIN r.create_blobs
  PROVE  /\ AfterFailure(r, fd) \in Processor /\ Good(AfterFailure(r, fd))
         /\ Names(AfterFailure(r, fd)) = Names(r)
  <1> DEFINE q == AfterFailure(r, fd)
  <1>1. /\ Without(r.create_blobs, fd) \in Table(NewBlob)
        /\ Without(r.meant, fd) \in Table(Seq(Byte))
    BY WithoutTable DEF Processor
  <1>2. /\ q \in Processor
        /\ q.create_blobs = Without(r.create_blobs, fd) /\ q.meant = Without(r.meant, fd)
        /\ q.blobs = r.blobs /\ q.max_blob_id = r.max_blob_id
    BY <1>1 DEF AfterFailure, Processor
  <1> HIDE DEF q
  <1>3. /\ DOMAIN q.create_blobs = DOMAIN r.create_blobs \ {fd}
        /\ \A o \in DOMAIN q.create_blobs : q.create_blobs[o] = r.create_blobs[o]
    BY <1>2 DEF Without
  <1>4. /\ DOMAIN q.meant = DOMAIN r.meant \ {fd}
        /\ \A o \in DOMAIN q.meant : q.meant[o] = r.meant[o]
    BY <1>2 DEF Without
  <1>5. Good(q)
    BY <1>2, <1>3, <1>4 DEF Good
  <1> QED BY <1>2, <1>5 DEF Names, q

\* So does a close.
LEMMA ClosedGood ==
  ASSUME NEW r \in Processor, Good(r), NEW fd \in DOMAIN r.blobs
  PROVE  /\ AfterClose(r, fd) \in Processor /\ Good(AfterClose(r, fd))
         /\ Names(AfterClose(r, fd)) \subseteq Names(r)
  <1> DEFINE q == AfterClose(r, fd)
  <1>1. /\ Without(r.blobs, fd) \in Table(OpenBlob)
        /\ Without(r.meant, fd) \in Table(Seq(Byte))
    BY WithoutTable DEF Processor
  <1>2. /\ q \in Processor
        /\ q.blobs = Without(r.blobs, fd) /\ q.meant = Without(r.meant, fd)
        /\ q.create_blobs = r.create_blobs /\ q.max_blob_id = r.max_blob_id
    BY <1>1 DEF AfterClose, Processor
  <1> HIDE DEF q
  <1>3. /\ DOMAIN q.blobs = DOMAIN r.blobs \ {fd}
        /\ \A o \in DOMAIN q.blobs : q.blobs[o] = r.blobs[o]
    BY <1>2 DEF Without
  <1>4. /\ DOMAIN q.meant = DOMAIN r.meant \ {fd}
        /\ \A o \in DOMAIN q.meant : q.meant[o] = r.meant[o]
    BY <1>2 DEF Without
  <1>5. Good(q)
    BY <1>2, <1>3, <1>4 DEF Good
  <1>6. Names(q) \subseteq Names(r)
    BY <1>3 DEF Names
  <1> QED BY <1>2, <1>5, <1>6 DEF q

-----------------------------------------------------------------------------
(* The invariant. *)

\* The empty store.
LEMMA InitInv == Init => Inv
  <1> SUFFICES ASSUME Init PROVE Inv
    OBVIOUS
  <1>1. DOMAIN files = {} /\ named \cup queued = {}
    BY DEF Init, Nothing
  <1>2. proc \in [Proc -> Processor]
    BY NewProcessorGood DEF Init
  <1>3. \A p \in Proc : Good(proc[p]) /\ Names(proc[p]) = {}
    BY NewProcessorGood DEF Init
  <1> QED BY <1>1, <1>2, <1>3 DEF Inv

\* Every step keeps the invariant, and the files that were there.
LEMMA NextInv ==
  ASSUME Inv, [Next]_vars
  PROVE  /\ Inv'
         /\ \A name \in DOMAIN files : name \in DOMAIN files' /\ files'[name] = files[name]
  <1> DEFINE Kept == \A name \in DOMAIN files : name \in DOMAIN files' /\ files'[name] = files[name]
  <1>1. ASSUME UNCHANGED files PROVE Kept
    BY <1>1
  <1>2. ASSUME NEW nb, Sound(nb), Saved(nb) PROVE Kept
    BY <1>2, SavedKeeps DEF Inv
  <1>3. ASSUME NEW p \in Proc
        PROVE  /\ proc[p] \in Processor /\ Good(proc[p]) /\ Names(proc[p]) \subseteq DOMAIN files
    BY DEF Inv
  <1>4. ASSUME NEW bytes \in Chunk
        PROVE  /\ bytes \in Seq(Byte) /\ Len(bytes) \in 0..Len(bytes)
               /\ \A n \in 0..Len(bytes) : Sound(Written(Create, bytes, n))
    <2>1. bytes \in Seq(Byte)
      BY <1>4, ChunkAssumption
    <2>2. Len(bytes) \in 0..Len(bytes)
      BY <2>1
    <2>3. \A n \in 0..Len(bytes) : Sound(Written(Create, bytes, n))
      BY <2>1, CreateSound, WrittenSound
    <2> QED BY <2>1, <2>2, <2>3
  <1>5. ASSUME NEW nb, Sound(nb) PROVE nb.data = nb.digest /\ nb.digest \in Seq(Byte)
    BY <1>5 DEF Sound, NewBlob
  <1>6. CASE UNCHANGED vars
    BY <1>6 DEF vars, Inv, Good, Names
  <1>7. ASSUME NEW p \in Proc, Begin(p) PROVE Inv' /\ Kept
    <2>1. PICK name \in queued : queued' = queued \ {name} /\ Became(p, Opened(NewProcessor(TRUE), name))
      BY <1>7 DEF Begin
    <2>2. UNCHANGED <<files, named>>
      BY <1>7 DEF Begin
    <2>3. name \in DOMAIN files /\ 1 <= MaxFd
      BY BoundAssumption DEF Inv
    <2>4. /\ Opened(NewProcessor(TRUE), name) \in Processor
          /\ Good(Opened(NewProcessor(TRUE), name))
          /\ Names(Opened(NewProcessor(TRUE), name)) \subseteq DOMAIN files
      BY <2>3, NewProcessorGood, OpenedGood
    <2>5. Inv'
      BY <2>1, <2>2, <2>4, StepKeeps DEF Inv
    <2> QED BY <2>2, <2>5
  <1>8. ASSUME NEW p \in Proc, BeginWithout(p) \/ End(p) PROVE Inv' /\ Kept
    <2>1. UNCHANGED <<files, named, queued>>
      BY <1>8 DEF BeginWithout, End
    <2>2. \E up \in BOOLEAN : Became(p, NewProcessor(up))
      BY <1>8 DEF BeginWithout, End
    <2>3. Inv'
      BY <2>1, <2>2, NewProcessorGood, StepKeeps DEF Inv
    <2> QED BY <2>1, <2>3
  <1>9. ASSUME NEW p \in Proc, BlobCreate(p) PROVE Inv' /\ Kept
    <2>1. UNCHANGED <<files, named, queued>> /\ proc[p].max_blob_id <= MaxFd
      BY <1>9 DEF BlobCreate, Room
    <2>2. Became(p, AfterCreate(proc[p]))
      BY <1>9 DEF BlobCreate, AfterCreate
    <2>3. Inv'
      BY <1>3, <2>1, <2>2, CreatedGood, StepKeeps DEF Inv
    <2> QED BY <2>1, <2>3
  <1>10. ASSUME NEW p \in Proc, NEW fd \in 1..MaxFd, NEW bytes \in Chunk, BlobWrite(p, fd, bytes)
         PROVE  Inv' /\ Kept
    <2>1. UNCHANGED <<files, named, queued>> /\ fd \in DOMAIN proc[p].create_blobs
      BY <1>10 DEF BlobWrite
    <2>2. PICK n \in 0..Len(bytes) : Became(p, AfterWrite(proc[p], fd, bytes, n))
      BY <1>10 DEF BlobWrite, AfterWrite
    <2>3. /\ AfterWrite(proc[p], fd, bytes, n) \in Processor
          /\ Good(AfterWrite(proc[p], fd, bytes, n))
          /\ Names(AfterWrite(proc[p], fd, bytes, n)) \subseteq DOMAIN files
      BY <1>3, <1>4, <2>1, WrittenGood
    <2>4. Inv'
      BY <2>1, <2>2, <2>3, StepKeeps DEF Inv
    <2> QED BY <2>1, <2>4
  <1>11. ASSUME NEW p \in Proc, NEW fd \in 1..MaxFd, BlobFinalize(p, fd) PROVE Inv' /\ Kept
    <2> DEFINE nb == proc[p].create_blobs[fd]
    <2>1. /\ fd \in DOMAIN proc[p].create_blobs /\ Saved(nb) /\ UNCHANGED <<named, queued>>
          /\ Became(p, AfterFinalize(proc[p], fd))
      BY <1>11 DEF BlobFinalize, AfterFinalize
    <2>2. Sound(nb)
      BY <1>3, <2>1, TableDef DEF Processor, Good, Sound
    <2>3. /\ AfterFinalize(proc[p], fd) \in Processor /\ Good(AfterFinalize(proc[p], fd))
          /\ Names(AfterFinalize(proc[p], fd)) = Names(proc[p]) \cup {nb.digest}
      BY <1>3, <2>1, FinalizedGood
    <2>4. /\ DOMAIN files' = DOMAIN files \cup {nb.digest}
          /\ DOMAIN files' \subseteq Seq(Byte)
          /\ \A name \in DOMAIN files' : files'[name] = name
      BY <2>1, <2>2, SavedKeeps
    <2> HIDE DEF nb
    <2>5. Inv'
      BY <1>3, <2>1, <2>3, <2>4, StepKeeps DEF Inv
    <2> QED BY <1>2, <2>1, <2>2, <2>5
  <1>12. ASSUME NEW p \in Proc, NEW fd \in 1..MaxFd, FinalizeFails(p, fd) PROVE Inv' /\ Kept
    <2> DEFINE nb == proc[p].create_blobs[fd]
    <2>1. /\ fd \in DOMAIN proc[p].create_blobs /\ UNCHANGED <<named, queued>>
          /\ UNCHANGED files \/ Saved(nb)
          /\ Became(p, AfterFailure(proc[p], fd))
      BY <1>12 DEF FinalizeFails, AfterFailure
    <2>2. Sound(nb)
      BY <1>3, <2>1, TableDef DEF Processor, Good, Sound
    <2>3. /\ AfterFailure(proc[p], fd) \in Processor /\ Good(AfterFailure(proc[p], fd))
          /\ Names(AfterFailure(proc[p], fd)) = Names(proc[p])
      BY <1>3, <2>1, FailedGood
    <2>4. /\ DOMAIN files \subseteq DOMAIN files' /\ DOMAIN files' \subseteq Seq(Byte)
          /\ \A name \in DOMAIN files' : files'[name] = name
      BY <2>1, <2>2, SavedKeeps DEF Inv
    <2> HIDE DEF nb
    <2>5. Inv'
      BY <1>3, <2>1, <2>3, <2>4, StepKeeps DEF Inv
    <2> QED BY <1>1, <1>2, <2>1, <2>2, <2>5
  <1>13. ASSUME NEW p \in Proc, NEW fd \in 1..MaxFd, BlobClose(p, fd) PROVE Inv' /\ Kept
    <2>1. /\ fd \in DOMAIN proc[p].blobs /\ UNCHANGED <<files, named, queued>>
          /\ Became(p, AfterClose(proc[p], fd))
      BY <1>13 DEF BlobClose, AfterClose
    <2>2. Inv'
      BY <1>3, <2>1, ClosedGood, StepKeeps DEF Inv
    <2> QED BY <2>1, <2>2
  <1>14. ASSUME NEW p \in Proc, NEW fd \in 1..MaxFd, DentNameBlob(p, fd) PROVE Inv' /\ Kept
    <2>1. /\ UNCHANGED <<files, queued, proc>>
          /\ named' = named \cup {proc[p].blobs[fd].name} /\ fd \in DOMAIN proc[p].blobs
      BY <1>14 DEF DentNameBlob
    <2>2. proc[p].blobs[fd].name \in DOMAIN files
      BY <1>3, <2>1 DEF Names
    <2> QED BY <2>1, <2>2 DEF Inv, Good, Names
  <1>15. ASSUME NEW p \in Proc, NEW name \in named, DentGetBlob(p, name) PROVE Inv' /\ Kept
    <2>1. /\ UNCHANGED <<files, named, queued>> /\ proc[p].max_blob_id <= MaxFd
          /\ Became(p, Opened(proc[p], name))
      BY <1>15 DEF DentGetBlob, Room
    <2>2. name \in DOMAIN files
      BY DEF Inv
    <2>3. /\ Opened(proc[p], name) \in Processor /\ Good(Opened(proc[p], name))
          /\ Names(Opened(proc[p], name)) \subseteq DOMAIN files
      BY <1>3, <2>1, <2>2, OpenedGood
    <2>4. Inv'
      BY <2>1, <2>3, StepKeeps DEF Inv
    <2> QED BY <2>1, <2>4
  <1>16. ASSUME NEW p \in Proc, NEW bytes \in Chunk, InvokeToBlob(p, bytes) PROVE Inv' /\ Kept
    <2> DEFINE nb == Written(Create, bytes, Len(bytes))
    <2>1. /\ Saved(nb) /\ UNCHANGED <<named, queued>> /\ proc[p].max_blob_id <= MaxFd
          /\ Became(p, Inserted(proc[p], nb.digest, nb.data))
      BY <1>16 DEF InvokeToBlob, Room
    <2>2. Sound(nb)
      BY <1>4
    <2> HIDE DEF nb
    <2>3. nb.data = nb.digest /\ nb.digest \in Seq(Byte)
      BY <1>5, <2>2
    <2>4. /\ Inserted(proc[p], nb.digest, nb.digest) \in Processor
          /\ Good(Inserted(proc[p], nb.digest, nb.digest))
          /\ Names(Inserted(proc[p], nb.digest, nb.digest)) = Names(proc[p]) \cup {nb.digest}
      BY <1>3, <2>1, <2>3, InsertedGood
    <2>5. /\ DOMAIN files' = DOMAIN files \cup {nb.digest}
          /\ DOMAIN files' \subseteq Seq(Byte)
          /\ \A name \in DOMAIN files' : files'[name] = name
      BY <2>1, <2>2, SavedKeeps
    <2>6. Inv'
      BY <1>3, <2>1, <2>3, <2>4, <2>5, StepKeeps DEF Inv
    <2> QED BY <1>2, <2>1, <2>2, <2>6
  <1>17. ASSUME NEW bytes \in Chunk, Upload(bytes) \/ Install(bytes) PROVE Inv' /\ Kept
    <2>1. PICK n \in 0..Len(bytes) :
            /\ Saved(Written(Create, bytes, n)) /\ UNCHANGED proc
            /\ named' \cup queued' \subseteq named \cup queued \cup {Written(Create, bytes, n).digest}
      BY <1>4, <1>17 DEF Upload, Install
    <2> DEFINE nb == Written(Create, bytes, n)
    <2>2. Sound(nb)
      BY <1>4
    <2>3. /\ DOMAIN files' = DOMAIN files \cup {nb.digest}
          /\ DOMAIN files' \subseteq Seq(Byte)
          /\ \A name \in DOMAIN files' : files'[name] = name
      BY <2>1, <2>2, SavedKeeps
    <2>4. Kept
      BY <1>2, <2>1, <2>2
    <2>5. Inv'
      BY <2>1, <2>3 DEF Inv, Good, Names
    <2> QED BY <2>4, <2>5
  <1> QED BY <1>6, <1>7, <1>8, <1>9, <1>10, <1>11, <1>12, <1>13, <1>14, <1>15, <1>16, <1>17 DEF Next

\* The inductive invariant holds in every behaviour.
LEMMA InvHolds == Spec => []Inv
  <1>1. Inv /\ [Next]_vars => Inv'
    BY NextInv
  <1> QED BY InitInv, <1>1, PTL DEF Spec

\* Files, names and descriptor tables keep their types.
THEOREM TypeOKHolds == Spec => []TypeOK
  <1>1. Inv => TypeOK
    <2> SUFFICES ASSUME Inv PROVE TypeOK
      OBVIOUS
    <2>1. /\ DOMAIN files \subseteq Seq(Byte)
          /\ \A name \in DOMAIN files : files[name] \in Seq(Byte)
          /\ named \subseteq Seq(Byte) /\ queued \subseteq Seq(Byte)
      BY DEF Inv
    <2>2. ASSUME NEW p \in Proc
          PROVE  /\ proc[p].max_blob_id \in 1..(MaxFd + 1)
                 /\ DOMAIN proc[p].blobs \cup DOMAIN proc[p].create_blobs \subseteq 1..MaxFd
                 /\ \A fd \in DOMAIN proc[p].blobs : proc[p].blobs[fd] \in OpenBlob
                 /\ \A fd \in DOMAIN proc[p].create_blobs : proc[p].create_blobs[fd] \in NewBlob
      <3>1. /\ proc[p].max_blob_id \in 1..(MaxFd + 1)
            /\ proc[p].blobs \in Table(OpenBlob) /\ proc[p].create_blobs \in Table(NewBlob)
        BY DEF Inv, Processor
      <3>2. DOMAIN proc[p].blobs \subseteq 1..MaxFd /\ proc[p].blobs \in [DOMAIN proc[p].blobs -> OpenBlob]
        BY <3>1, TableDef
      <3>3. /\ DOMAIN proc[p].create_blobs \subseteq 1..MaxFd
            /\ proc[p].create_blobs \in [DOMAIN proc[p].create_blobs -> NewBlob]
        BY <3>1, TableDef
      <3> QED BY <3>1, <3>2, <3>3
    <2> QED BY <2>1, <2>2 DEF TypeOK
  <1> QED BY <1>1, InvHolds, PTL

\* A saved file, and what is behind an open descriptor, is what its name is the
\* digest of.
THEOREM ContentAddressedHolds == Spec => []ContentAddressed
  <1>1. Inv => ContentAddressed
    BY DEF Inv, Good, ContentAddressed
  <1> QED BY <1>1, InvHolds, PTL

\* No open of a stored name fails: the unwraps of Blobstore::open do not panic.
THEOREM NamesSavedHolds == Spec => []NamesSaved
  <1>1. Inv => NamesSaved
    BY DEF Inv, Names, NamesSaved
  <1> QED BY <1>1, InvHolds, PTL

\* A descriptor stands for what the guest was told, before and after blob_finalize.
THEOREM DescriptorsKeptHolds == Spec => []DescriptorsKept
  <1>1. Inv => DescriptorsKept
    BY DEF Inv, Good, DescriptorsKept
  <1> QED BY <1>1, InvHolds, PTL

\* save never changes or removes a file that is there.
THEOREM NeverRewrittenHolds == Spec => NeverRewritten
  <1>1. Inv /\ [Next]_vars =>
          [\A name \in DOMAIN files : name \in DOMAIN files' /\ files'[name] = files[name]]_files
    BY NextInv
  <1> QED BY <1>1, InvHolds, PTL DEF Spec, NeverRewritten

=============================================================================
