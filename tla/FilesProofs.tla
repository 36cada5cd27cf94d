---------------------------- MODULE FilesProofs ----------------------------
(***************************************************************************)
(* For any number of names, uploads, renames and prints: TypeOK, that the  *)
(* file of a print that is shown by its name is kept, and that an upload   *)
(* that was alone on its file is stored.                                   *)
(*                                                                         *)
(* An upload or rename that has locked the state works on another name     *)
(* than the text that is shown (LockedNamesFree), since nothing is shown   *)
(* while it has the lock; and an inode with an entry was opened by some    *)
(* upload (EntriesCreated), so that no new file is that of another name.   *)
(***************************************************************************)
EXTENDS Files, TLAPS

USE FilesAssumption

Texts == Names \cup Aliases

ShownIsDone ==
    /\ \A p \in queued : print[p].phase = "done" /\ print[p].name \in Texts
    /\ shown # None => print[shown].phase = "done" /\ print[shown].name \in Texts

NamesKnown ==
    /\ \A u \in Uploads : upload[u].phase # "idle" => upload[u].name \in Names
    /\ \A r \in Renames : rename[r].phase = "locked" => rename[r].old \in Names /\ rename[r].new \in Names
    /\ \A p \in Prints : print[p].phase # "idle" => print[p].name \in Texts

LockedNamesFree ==
    /\ \A u \in Uploads : upload[u].phase = "locked" => upload[u].name # Printing
    /\ \A r \in Renames : rename[r].phase = "locked" => Printing \notin {rename[r].old, rename[r].new}

EntriesCreated ==
    \A n \in Names : dir[n] # None => \E v \in Uploads : dir[n] \in upload[v].opened

FilesOpened ==
    \A u \in Uploads :
        /\ upload[u].file # None => upload[u].file \in upload[u].opened
        /\ upload[u].phase = "receiving" =>
              upload[u].before + upload[u].offset =< upload[u].received

AloneIsStored ==
    \A u \in Uploads :
        upload[u].phase = "receiving" /\ IsAlone(u) /\ NothingFailed(u) => IsStored(u)

Inv ==
    /\ TypeOK
    /\ ShownIsDone
    /\ NamesKnown
    /\ LockedNamesFree
    /\ EntriesCreated
    /\ FilesOpened
    /\ AloneIsStored

\* A part written at the end of what the same upload has written: one part more of it.
LEMMA WrittenParts ==
    ASSUME NEW parts \in Content, NEW offset \in Nat, NEW before \in Nat, NEW u \in Uploads,
           parts = PartsOf(u, before, offset)
    PROVE  Written(parts, offset, <<u, before + offset + 1>>) = PartsOf(u, before, offset + 1)
<1> USE DEF PartsOf
<1> DEFINE part == <<u, before + offset + 1>>
<1> DEFINE n == IF Len(parts) > offset THEN Len(parts) ELSE offset + 1
<1> DEFINE W == [k \in 1 .. n |-> IF k = offset + 1 THEN part
                                  ELSE IF k <= Len(parts) THEN parts[k] ELSE None]
<1>1. Len(parts) = offset
  OBVIOUS
<1>2. n = offset + 1
  BY <1>1
<1>3. \A k \in 1 .. n : W[k] = <<u, before + k>>
  <2> SUFFICES ASSUME NEW k \in 1 .. n
               PROVE  W[k] = <<u, before + k>>
    OBVIOUS
  <2>1. CASE k = offset + 1
    <3>1. W[k] = part /\ before + k = before + offset + 1
      BY <2>1
    <3> QED
      BY <3>1
  <2>2. CASE k # offset + 1
    BY <1>1, <1>2, <2>2
  <2> QED
    BY <2>1, <2>2
<1>4. W = [k \in 1 .. (offset + 1) |-> <<u, before + k>>]
  BY <1>2, <1>3
<1> QED
  BY <1>4 DEF Written

\* A part written at an offset leaves a file that is not shorter.
LEMMA WrittenType ==
    ASSUME NEW parts \in Content, NEW offset \in Nat, NEW part \in Part
    PROVE  /\ Written(parts, offset, part) \in Content
           /\ Len(Written(parts, offset, part)) >= Len(parts)
<1> DEFINE n == IF Len(parts) > offset THEN Len(parts) ELSE offset + 1
<1> DEFINE W == [k \in 1 .. n |-> IF k = offset + 1 THEN part
                                  ELSE IF k <= Len(parts) THEN parts[k] ELSE None]
<1> DEFINE S == Part \cup {None}
<1>1. parts \in Seq(S) /\ part \in S /\ None \in S
  BY DEF Content
<1>2. n \in Nat /\ n >= Len(parts)
  BY <1>1
<1> HIDE DEF S
<1>3. \A k \in 1 .. n : W[k] \in S
  BY <1>1
<1>4. W \in Seq(S) /\ Len(W) = n
  <2> HIDE DEF n
  <2>1. W \in [1 .. n -> S]
    BY <1>3
  <2> QED
    BY <1>2, <2>1
<1> QED
  BY <1>2, <1>4 DEF Written, Content, S

LEMMA InitInv == Init => Inv
<1> SUFFICES ASSUME Init
             PROVE  Inv
  OBVIOUS
<1>1. <<>> \in Content
  BY DEF Content
<1>2. TypeOK
  BY <1>1 DEF Init, TypeOK, Upload, Rename, StartPrint
<1> QED
  BY <1>2 DEF Init, Inv, ShownIsDone, NamesKnown, LockedNamesFree, EntriesCreated,
              FilesOpened, AloneIsStored

\* Uploads keep the invariant.
LEMMA UploadInv ==
    ASSUME Inv, NEW u \in Uploads, UploadStep(u)
    PROVE  Inv'
<1> USE DEF Inv
<1>0. upload \in [Uploads -> Upload] /\ upload[u] \in Upload
  BY DEF TypeOK
<1>1. ASSUME NEW n \in Names, UploadChecks(u, n)
      PROVE  Inv'
  <2>1. /\ ~ StateLocked
        /\ UNCHANGED <<dir, content, rename, print, queued, shown>>
    BY <1>1 DEF UploadChecks
  <2>2. /\ upload' \in [Uploads -> Upload]
        /\ upload'[u].phase \in {"locked", "failed"}
        /\ upload'[u].phase = "locked" => n # Printing
        /\ upload'[u].name = n
        /\ upload'[u].file = upload[u].file
        /\ upload'[u].opened = upload[u].opened
        /\ \A v \in Uploads \ {u} : upload'[v] = upload[v]
    <3> DEFINE up == [upload[u] EXCEPT !.phase = IF Printing = n THEN "failed" ELSE "locked",
                                       !.name = n]
    <3>1. /\ up \in Upload
          /\ up.phase = IF Printing = n THEN "failed" ELSE "locked"
          /\ up.name = n
          /\ up.file = upload[u].file
          /\ up.opened = upload[u].opened
      BY <1>0 DEF Upload
    <3>2. upload' = [upload EXCEPT ![u] = up]
      BY <1>1 DEF UploadChecks
    <3> QED
      BY <1>0, <3>1, <3>2
  <2>3. TypeOK'
    BY <2>1, <2>2 DEF TypeOK
  <2>4. ShownIsDone' /\ NamesKnown'
    BY <2>1, <2>2 DEF ShownIsDone, NamesKnown
  <2>5. LockedNamesFree'
    BY <2>1, <2>2 DEF LockedNamesFree, StateLocked, Printing
  <2>6. EntriesCreated'
    BY <2>1, <2>2 DEF EntriesCreated
  <2>7. FilesOpened'
    BY <2>2 DEF FilesOpened
  <2>8. AloneIsStored'
    <3> SUFFICES ASSUME NEW v \in Uploads, upload'[v].phase = "receiving", IsAlone(v)',
                        NothingFailed(v)'
                 PROVE  IsStored(v)'
      BY DEF AloneIsStored
    <3>1. v # u /\ upload'[v] = upload[v] /\ \A w \in Uploads : upload'[w].opened = upload[w].opened
      BY <2>2
    <3>2. IsAlone(v) /\ NothingFailed(v)
      BY <3>1 DEF IsAlone, NothingFailed
    <3> QED
      BY <2>1, <3>1, <3>2 DEF AloneIsStored, IsStored
  <2> QED
    BY <2>3, <2>4, <2>5, <2>6, <2>7, <2>8
<1>2. CASE UploadCreates(u)
  <2> DEFINE n == upload[u].name
  <2>1. /\ upload[u].phase = "locked"
        /\ UNCHANGED <<rename, print, queued, shown>>
        /\ n \in Names
        /\ n # Printing
    BY <1>2 DEF UploadCreates, NamesKnown, LockedNamesFree
  <2>2. CASE /\ UNCHANGED <<dir, content>>
             /\ upload' = [upload EXCEPT ![u].phase = "failed"]
    <3>1. /\ upload' \in [Uploads -> Upload]
          /\ upload'[u].phase = "failed"
          /\ upload'[u].name = n
          /\ upload'[u].file = upload[u].file
          /\ upload'[u].opened = upload[u].opened
          /\ \A v \in Uploads \ {u} : upload'[v] = upload[v]
      <4> DEFINE up == [upload[u] EXCEPT !.phase = "failed"]
      <4>1. /\ up \in Upload /\ up.phase = "failed" /\ up.name = n
            /\ up.file = upload[u].file /\ up.opened = upload[u].opened
        BY <1>0 DEF Upload
      <4>2. upload' = [upload EXCEPT ![u] = up]
        BY <2>2
      <4> QED
        BY <1>0, <4>1, <4>2
    <3>2. TypeOK'
      BY <2>1, <2>2, <3>1 DEF TypeOK
    <3>3. ShownIsDone' /\ NamesKnown' /\ FilesOpened'
      BY <2>1, <2>2, <3>1 DEF ShownIsDone, NamesKnown, FilesOpened
    <3>4. LockedNamesFree'
      BY <2>1, <2>2, <3>1 DEF LockedNamesFree, Printing
    <3>5. EntriesCreated'
      BY <2>1, <2>2, <3>1 DEF EntriesCreated
    <3>6. AloneIsStored'
      <4> SUFFICES ASSUME NEW v \in Uploads, upload'[v].phase = "receiving", IsAlone(v)',
                          NothingFailed(v)'
                   PROVE  IsStored(v)'
        BY DEF AloneIsStored
      <4>1. /\ upload'[v] = upload[v]
            /\ \A w \in Uploads : upload'[w].opened = upload[w].opened
        BY <3>1
      <4>2. IsAlone(v) /\ NothingFailed(v)
        BY <4>1 DEF IsAlone, NothingFailed
      <4> QED
        BY <2>2, <4>1, <4>2 DEF AloneIsStored, IsStored
    <3> QED
      BY <3>2, <3>3, <3>4, <3>5, <3>6
  <2>3. ASSUME NEW i \in Inodes,
               IF dir[n] = None THEN Fresh(i) ELSE i = dir[n],
               dir' = [dir EXCEPT ![n] = i],
               content' = [content EXCEPT ![i] = <<>>],
               upload' = [upload EXCEPT ![u] =
                            [upload[u] EXCEPT !.phase = "receiving", !.file = i,
                                              !.opened = upload[u].opened \cup {i},
                                              !.before = upload[u].received, !.offset = 0]]
        PROVE  Inv'
    <3>1. /\ upload' \in [Uploads -> Upload]
          /\ upload'[u].phase = "receiving"
          /\ upload'[u].name = n
          /\ upload'[u].file = i
          /\ upload'[u].opened = upload[u].opened \cup {i}
          /\ upload'[u].before = upload'[u].received
          /\ upload'[u].received \in Nat
          /\ upload'[u].offset = 0
          /\ \A v \in Uploads \ {u} : upload'[v] = upload[v]
      <4> DEFINE up == [upload[u] EXCEPT !.phase = "receiving", !.file = i,
                                         !.opened = upload[u].opened \cup {i},
                                         !.before = upload[u].received, !.offset = 0]
      <4>1. /\ up \in Upload /\ up.phase = "receiving" /\ up.name = n /\ up.file = i
            /\ up.opened = upload[u].opened \cup {i}
            /\ up.before = up.received /\ up.received \in Nat /\ up.offset = 0
        BY <1>0 DEF Upload
      <4>2. upload' = [upload EXCEPT ![u] = up]
        BY <1>0, <2>3
      <4> HIDE DEF up
      <4> QED
        BY <1>0, <4>1, <4>2
    <3>2. /\ dir' \in [Names -> Inodes \cup {None}]
          /\ content' \in [Inodes -> Content]
          /\ dir'[n] = i
          /\ content'[i] = <<>>
          /\ \A m \in Names \ {n} : dir'[m] = dir[m] /\ dir[m] # i
          /\ \A j \in Inodes \ {i} : content'[j] = content[j]
      <4>1. \A m \in Names \ {n} : dir[m] # i
        <5>1. CASE dir[n] = None
          BY <2>3, <5>1 DEF EntriesCreated, Fresh
        <5>2. CASE dir[n] # None
          BY <2>1, <2>3, <5>2 DEF TypeOK
        <5> QED
          BY <5>1, <5>2
      <4>2. <<>> \in Content
        BY DEF Content
      <4> QED
        BY <2>1, <2>3, <4>1, <4>2 DEF TypeOK
    <3>3. TypeOK'
      <4> HIDE DEF n
      <4>1. \A v \in Uploads : upload'[v].phase \in {"receiving", "created"} => upload'[v].file # None
        BY <3>1 DEF TypeOK
      <4>2. \A m, k \in Names : dir'[m] # None /\ dir'[m] = dir'[k] => m = k
        BY <3>2 DEF TypeOK
      <4> QED
        BY <2>1, <3>1, <3>2, <4>1, <4>2 DEF TypeOK
    <3>4. ShownIsDone' /\ NamesKnown'
      BY <2>1, <3>1 DEF ShownIsDone, NamesKnown
    <3>8. FilesOpened'
      BY <3>1 DEF FilesOpened
    <3>5. LockedNamesFree'
      BY <2>1, <3>1 DEF LockedNamesFree, Printing
    <3>6. EntriesCreated'
      <4> SUFFICES ASSUME NEW m \in Names, dir'[m] # None
                   PROVE  \E v \in Uploads : dir'[m] \in upload'[v].opened
        BY DEF EntriesCreated
      <4>1. CASE m = n
        BY <3>1, <3>2, <4>1
      <4>2. CASE m # n
        <5>1. dir'[m] = dir[m]
          BY <3>2, <4>2
        <5>2. PICK v \in Uploads : dir[m] \in upload[v].opened
          BY <5>1 DEF EntriesCreated
        <5>3. upload[v].opened \subseteq upload'[v].opened
          BY <3>1
        <5> QED
          BY <5>1, <5>2, <5>3
      <4> QED
        BY <4>1, <4>2
    <3>7. AloneIsStored'
      <4> SUFFICES ASSUME NEW v \in Uploads, upload'[v].phase = "receiving", IsAlone(v)',
                          NothingFailed(v)'
                   PROVE  IsStored(v)'
        BY DEF AloneIsStored
      <4>1. CASE v = u
        BY <3>1, <3>2, <4>1 DEF IsStored, PartsOf
      <4>2. CASE v # u
        <5>1. upload'[v] = upload[v] /\ upload[v].file # i
          BY <3>1, <4>2 DEF IsAlone
        <5>2. IsAlone(v) /\ NothingFailed(v)
          <6>1. \A w \in Uploads : upload[w].opened \subseteq upload'[w].opened
            BY <3>1
          <6> QED
            BY <5>1, <6>1 DEF IsAlone, NothingFailed
        <5>3. upload[v].file \in Inodes
          BY <5>1 DEF TypeOK, Upload
        <5> QED
          BY <3>2, <5>1, <5>2, <5>3 DEF AloneIsStored, IsStored
      <4> QED
        BY <4>1, <4>2
    <3> QED
      BY <3>3, <3>4, <3>5, <3>6, <3>7, <3>8
  <2> QED
    BY <1>2, <2>2, <2>3 DEF UploadCreates
<1>3. CASE UploadWrites(u)
  <2> DEFINE f == upload[u].file
             o == upload[u].offset
             W == Written(content[f], o, NextPart(u))
  <2>1. /\ upload[u].phase = "receiving"
        /\ f \in Inodes
        /\ f \in upload[u].opened
        /\ content[f] \in Content
        /\ o \in Nat
        /\ upload[u].before \in Nat
        /\ upload[u].received \in Nat
        /\ NextPart(u) \in Part
        /\ UNCHANGED <<dir, rename, print, queued, shown>>
    <3>1. upload[u].phase = "receiving" /\ UNCHANGED <<dir, rename, print, queued, shown>>
      BY <1>3 DEF UploadWrites
    <3>2. f \in Inodes /\ f \in upload[u].opened
      BY <1>0, <3>1 DEF TypeOK, Upload, FilesOpened
    <3>3. o \in Nat /\ upload[u].before \in Nat /\ upload[u].received \in Nat
      BY <1>0 DEF Upload
    <3>4. content[f] \in Content
      BY <3>2 DEF TypeOK
    <3> QED
      BY <3>1, <3>2, <3>3, <3>4 DEF NextPart, Part
  <2>2. /\ upload' \in [Uploads -> Upload]
        /\ upload'[u].phase = "receiving"
        /\ upload'[u].name = upload[u].name
        /\ upload'[u].file = f
        /\ upload'[u].opened = upload[u].opened
        /\ upload'[u].before = upload[u].before
        /\ upload'[u].received = upload[u].received + 1
        /\ \A v \in Uploads \ {u} : upload'[v] = upload[v]
        /\ \/ /\ upload'[u].offset = o
              /\ UNCHANGED content
           \/ /\ upload'[u].offset = o + 1
              /\ content' = [content EXCEPT ![f] = W]
    <3>1. CASE /\ content' = [content EXCEPT ![f] = W]
               /\ upload' = [upload EXCEPT ![u] = [upload[u] EXCEPT
                                !.offset = o + 1, !.received = upload[u].received + 1]]
      <4> DEFINE up == [upload[u] EXCEPT !.offset = o + 1, !.received = upload[u].received + 1]
      <4>1. /\ up \in Upload /\ up.phase = upload[u].phase /\ up.name = upload[u].name
            /\ up.file = f /\ up.opened = upload[u].opened /\ up.before = upload[u].before
            /\ up.received = upload[u].received + 1 /\ up.offset = o + 1
        <5>1. o + 1 \in Nat /\ upload[u].received + 1 \in Nat
          BY <2>1
        <5> HIDE DEF W
        <5> QED
          BY <1>0, <5>1 DEF Upload
      <4>2. upload' = [upload EXCEPT ![u] = up]
        BY <3>1
      <4> HIDE DEF up, W, f, o
      <4> QED
        BY <1>0, <2>1, <3>1, <4>1, <4>2
    <3>2. CASE UNCHANGED content /\ upload' = [upload EXCEPT ![u].received = @ + 1]
      <4> DEFINE up == [upload[u] EXCEPT !.received = upload[u].received + 1]
      <4>1. /\ up \in Upload /\ up.phase = upload[u].phase /\ up.name = upload[u].name
            /\ up.file = f /\ up.opened = upload[u].opened /\ up.before = upload[u].before
            /\ up.received = upload[u].received + 1 /\ up.offset = o
        BY <1>0 DEF Upload
      <4>2. upload' = [upload EXCEPT ![u] = up]
        BY <3>2
      <4> HIDE DEF up, W, f, o
      <4> QED
        BY <1>0, <2>1, <3>2, <4>1, <4>2
    <3> QED
      BY <1>3, <3>1, <3>2 DEF UploadWrites
  <2>3. content' \in [Inodes -> Content]
    <3>1. W \in Content
      <4> DEFINE parts == content[f]
      <4>1. parts \in Content
        BY <2>1
      <4> HIDE DEF parts, o
      <4>2. Written(parts, o, NextPart(u)) \in Content
        BY <2>1, <4>1, WrittenType
      <4> QED
        BY <4>2 DEF parts
    <3> HIDE DEF W, f
    <3> QED
      BY <2>1, <2>2, <3>1 DEF TypeOK
  <2> HIDE DEF f, o, W
  <2>4. TypeOK'
    <3>1. \A v \in Uploads : upload'[v].phase \in {"receiving", "created"} => upload'[v].file # None
      BY <2>1, <2>2 DEF TypeOK
    <3> QED
      BY <2>1, <2>2, <2>3, <3>1 DEF TypeOK
  <2>5. ShownIsDone' /\ NamesKnown'
    BY <2>1, <2>2 DEF ShownIsDone, NamesKnown
  <2>6. LockedNamesFree'
    BY <2>1, <2>2 DEF LockedNamesFree, Printing
  <2>7. EntriesCreated'
    BY <2>1, <2>2 DEF EntriesCreated
  <2>8. FilesOpened'
    BY <2>1, <2>2 DEF FilesOpened, o, f
  <2>9. AloneIsStored'
    <3> SUFFICES ASSUME NEW v \in Uploads, upload'[v].phase = "receiving", IsAlone(v)',
                        NothingFailed(v)'
                 PROVE  IsStored(v)'
      BY DEF AloneIsStored
    <3>1. IsAlone(v) /\ upload[v].phase = "receiving"
      BY <2>1, <2>2 DEF IsAlone, f
    <3>2. CASE v = u
      <4> DEFINE b == upload[u].before
                 parts == content[f]
      <4>1. /\ b + o =< upload[u].received
            /\ b + upload'[u].offset = upload[u].received + 1
        BY <2>1, <2>2, <3>2 DEF FilesOpened, o, NothingFailed
      <4>2. /\ upload'[u].offset = o + 1
            /\ content' = [content EXCEPT ![f] = W]
        BY <2>1, <2>2, <4>1
      <4>3. NothingFailed(u) /\ NextPart(u) = <<u, b + o + 1>>
        <5>1. b + o = upload[u].received
          <6> DEFINE rec == upload[u].received
          <6>1. b \in Nat /\ o \in Nat /\ rec \in Nat /\ b + (o + 1) = rec + 1
            BY <2>1, <4>1, <4>2
          <6> HIDE DEF b, rec
          <6>2. b + o = rec
            BY <6>1
          <6> QED
            BY <6>2 DEF rec
        <5>2. upload[u].received + 1 = b + o + 1
          BY <5>1
        <5> QED
          BY <5>1, <5>2 DEF NothingFailed, NextPart, o
      <4>4. parts = PartsOf(u, b, o)
        BY <3>1, <3>2, <4>3 DEF AloneIsStored, IsStored, o, f
      <4>5. parts \in Content /\ b \in Nat /\ o \in Nat
        BY <2>1
      <4> HIDE DEF parts, b
      <4>6. Written(parts, o, <<u, b + o + 1>>) = PartsOf(u, b, o + 1)
        BY <4>4, <4>5, WrittenParts
      <4>7. W = PartsOf(u, b, o + 1)
        BY <4>3, <4>6 DEF W, parts
      <4>8. content'[f] = W
        BY <2>1, <4>2 DEF TypeOK
      <4> QED
        BY <2>2, <3>2, <4>2, <4>7, <4>8 DEF IsStored, b
    <3>3. CASE v # u
      <4>1. upload'[v] = upload[v] /\ NothingFailed(v)
        BY <2>2, <3>3 DEF NothingFailed
      <4>2. upload[v].file \in Inodes \ {f}
        BY <2>1, <3>1, <3>3 DEF IsAlone, TypeOK, Upload
      <4>3. content'[upload[v].file] = content[upload[v].file]
        BY <2>2, <4>2 DEF TypeOK
      <4> QED
        BY <3>1, <4>1, <4>3 DEF AloneIsStored, IsStored
    <3> QED
      BY <3>2, <3>3
  <2> QED
    BY <2>4, <2>5, <2>6, <2>7, <2>8, <2>9
<1>4. CASE UploadEnds(u)
  <2>1. /\ upload[u].phase = "receiving"
        /\ UNCHANGED <<dir, content, rename, print, queued, shown>>
    BY <1>4 DEF UploadEnds
  <2>2. /\ upload' \in [Uploads -> Upload]
        /\ upload'[u].phase \in {"created", "failed"}
        /\ upload'[u].name = upload[u].name
        /\ upload'[u].file = upload[u].file
        /\ upload'[u].opened = upload[u].opened
        /\ \A v \in Uploads \ {u} : upload'[v] = upload[v]
    <3>1. PICK ph \in {"created", "failed"} : upload' = [upload EXCEPT ![u].phase = ph]
      BY <1>4 DEF UploadEnds
    <3> DEFINE up == [upload[u] EXCEPT !.phase = ph]
    <3>2. upload' = [upload EXCEPT ![u] = up]
      BY <3>1
    <3>3. /\ up \in Upload /\ up.phase = ph /\ up.name = upload[u].name
          /\ up.file = upload[u].file /\ up.opened = upload[u].opened
      BY <1>0 DEF Upload
    <3> HIDE DEF up
    <3> QED
      BY <1>0, <3>2, <3>3
  <2>3. TypeOK'
    <3>1. \A v \in Uploads : upload'[v].phase \in {"receiving", "created"} => upload'[v].file # None
      BY <2>1, <2>2 DEF TypeOK
    <3> QED
      BY <2>1, <2>2, <3>1 DEF TypeOK
  <2>4. ShownIsDone' /\ NamesKnown' /\ FilesOpened'
    BY <2>1, <2>2 DEF ShownIsDone, NamesKnown, FilesOpened
  <2>5. LockedNamesFree'
    BY <2>1, <2>2 DEF LockedNamesFree, Printing
  <2>6. EntriesCreated'
    BY <2>1, <2>2 DEF EntriesCreated
  <2>7. AloneIsStored'
    <3> SUFFICES ASSUME NEW v \in Uploads, upload'[v].phase = "receiving", IsAlone(v)',
                        NothingFailed(v)'
                 PROVE  IsStored(v)'
      BY DEF AloneIsStored
    <3>1. upload'[v] = upload[v] /\ \A w \in Uploads : upload'[w].opened = upload[w].opened
      BY <2>2
    <3>2. IsAlone(v) /\ NothingFailed(v)
      BY <3>1 DEF IsAlone, NothingFailed
    <3> QED
      BY <2>1, <3>1, <3>2 DEF AloneIsStored, IsStored
  <2> QED
    BY <2>3, <2>4, <2>5, <2>6, <2>7
<1> QED
  BY <1>1, <1>2, <1>3, <1>4 DEF UploadStep

\* What only looks at the files and the uploads keeps what is known about them.
LEMMA UploadsUntouched ==
    ASSUME Inv, UNCHANGED <<content, upload>>
    PROVE  FilesOpened' /\ AloneIsStored'
BY DEF Inv, FilesOpened, AloneIsStored, IsAlone, NothingFailed, IsStored

\* Renames keep the invariant.
LEMMA RenameInv ==
    ASSUME Inv, NEW r \in Renames, RenameStep(r)
    PROVE  Inv'
<1> USE DEF Inv
<1>1. ASSUME NEW old \in Names, NEW new \in Names, RenameChecks(r, old, new)
      PROVE  Inv'
  <2>1. /\ ~ StateLocked
        /\ UNCHANGED <<dir, content, upload, print, queued, shown>>
    BY <1>1 DEF RenameChecks
  <2>2. /\ rename' \in [Renames -> Rename]
        /\ \A q \in Renames \ {r} : rename'[q] = rename[q]
        /\ rename'[r].phase = "locked" => /\ rename'[r].old = old
                                          /\ rename'[r].new = new
                                          /\ Printing \notin {old, new}
    <3>0. rename \in [Renames -> Rename] /\ rename[r] \in Rename
      BY DEF TypeOK
    <3>1. CASE Printing \in {old, new}
      <4> DEFINE done == [rename[r] EXCEPT !.phase = "done"]
      <4>1. done \in Rename /\ done.phase = "done"
        BY <3>0 DEF Rename
      <4>2. rename' = [rename EXCEPT ![r] = done]
        BY <1>1, <3>1 DEF RenameChecks
      <4> HIDE DEF done
      <4> QED
        BY <3>0, <4>1, <4>2
    <3>2. CASE Printing \notin {old, new}
      <4>1. rename' = [rename EXCEPT ![r] = [phase |-> "locked", old |-> old, new |-> new]]
        BY <1>1, <3>2 DEF RenameChecks
      <4>2. [phase |-> "locked", old |-> old, new |-> new] \in Rename
        BY DEF Rename
      <4> QED
        BY <3>0, <3>2, <4>1, <4>2
    <3> QED
      BY <3>1, <3>2
  <2>3. TypeOK'
    BY <2>1, <2>2 DEF TypeOK
  <2>4. ShownIsDone' /\ NamesKnown' /\ EntriesCreated'
    BY <2>1, <2>2 DEF ShownIsDone, NamesKnown, EntriesCreated
  <2>5. LockedNamesFree'
    BY <2>1, <2>2 DEF LockedNamesFree, Printing
  <2> QED
    BY <2>1, <2>3, <2>4, <2>5, UploadsUntouched
<1>2. CASE RenameMoves(r)
  <2> DEFINE old == rename[r].old
             new == rename[r].new
  <2>1. /\ old \in Names
        /\ new \in Names
        /\ UNCHANGED <<content, upload, print, queued, shown>>
    BY <1>2 DEF RenameMoves, NamesKnown
  <2>2. /\ rename' \in [Renames -> Rename]
        /\ \A q \in Renames \ {r} : rename'[q] = rename[q]
        /\ rename'[r].phase = "done"
    <3> DEFINE done == [rename[r] EXCEPT !.phase = "done"]
    <3>0. rename \in [Renames -> Rename] /\ rename[r] \in Rename
      BY DEF TypeOK
    <3>1. done \in Rename /\ done.phase = "done"
      BY <3>0 DEF Rename
    <3>2. rename' = [rename EXCEPT ![r] = done]
      BY <1>2 DEF RenameMoves
    <3> HIDE DEF done
    <3> QED
      BY <3>0, <3>1, <3>2
  <2>3. \/ UNCHANGED dir
        \/ old # new /\ dir' = [dir EXCEPT ![new] = dir[old], ![old] = None]
    BY <1>2 DEF RenameMoves
  <2> HIDE DEF old, new
  <2>4. /\ dir' \in [Names -> Inodes \cup {None}]
        /\ \A n \in Names : dir'[n] # None => \E m \in Names : dir'[n] = dir[m]
        /\ \A n, m \in Names : dir'[n] # None /\ dir'[n] = dir'[m] => n = m
    <3>1. dir \in [Names -> Inodes \cup {None}]
      BY DEF TypeOK
    <3>2. \A n, m \in Names : dir[n] # None /\ dir[n] = dir[m] => n = m
      BY DEF TypeOK
    <3>3. CASE UNCHANGED dir
      BY <3>1, <3>2, <3>3
    <3>4. CASE old # new /\ dir' = [dir EXCEPT ![new] = dir[old], ![old] = None]
      <4>1. /\ dir' \in [Names -> Inodes \cup {None}]
            /\ dir'[old] = None
            /\ dir'[new] = dir[old]
            /\ \A n \in Names \ {old, new} : dir'[n] = dir[n]
        BY <2>1, <3>1, <3>4
      <4> QED
        BY <2>1, <3>2, <4>1
    <3> QED
      BY <2>3, <3>3, <3>4
  <2>5. TypeOK'
    BY <2>1, <2>2, <2>4 DEF TypeOK
  <2>6. ShownIsDone' /\ NamesKnown'
    BY <2>1, <2>2 DEF ShownIsDone, NamesKnown
  <2>7. EntriesCreated'
    BY <2>1, <2>4 DEF EntriesCreated
  <2>8. LockedNamesFree'
    BY <2>1, <2>2 DEF LockedNamesFree, Printing
  <2> QED
    BY <2>1, <2>5, <2>6, <2>7, <2>8, UploadsUntouched
<1> QED
  BY <1>1, <1>2 DEF RenameStep

\* A handler of start_print that goes on with its print: nobody looks at it yet.
LEMMA PrintGoesOn ==
    ASSUME Inv, NEW p \in Prints, NEW new \in StartPrint,
           print[p].phase \notin {"idle", "done"},
           print' = [print EXCEPT ![p] = new],
           new.name = print[p].name,
           new.phase # "idle",
           queued' = queued \/ (queued' = queued \cup {p} /\ new.phase = "done"),
           UNCHANGED <<dir, content, upload, rename, shown>>
    PROVE  Inv'
<1> USE DEF Inv
<1>1. /\ print \in [Prints -> StartPrint]
      /\ print' \in [Prints -> StartPrint]
      /\ print'[p] = new
      /\ \A q \in Prints \ {p} : print'[q] = print[q]
  BY DEF TypeOK
<1>2. TypeOK'
  BY <1>1 DEF TypeOK
<1>3. p \notin queued /\ p # shown
  BY DEF ShownIsDone
<1>4. print[p].name \in Texts
  BY DEF NamesKnown
<1>5. ShownIsDone'
  BY <1>1, <1>3, <1>4 DEF ShownIsDone, TypeOK
<1>6. NamesKnown' /\ EntriesCreated'
  BY <1>1, <1>4 DEF NamesKnown, EntriesCreated
<1>7. LockedNamesFree'
  BY <1>1, <1>3 DEF LockedNamesFree, Printing, TypeOK
<1> QED
  BY <1>2, <1>5, <1>6, <1>7, UploadsUntouched

\* So do prints, on their way to the state and in it.
LEMMA PrintInv ==
    ASSUME Inv, PrintOver \/ \E p \in Prints : PrintStep(p)
    PROVE  Inv'
<1> USE DEF Inv
<1>1. ASSUME NEW p \in Prints, NEW n \in Texts, PrintAccepted(p, n)
      PROVE  Inv'
  <2>1. /\ print[p].phase = "idle"
        /\ shown = None
        /\ UNCHANGED <<dir, content, upload, rename, queued, shown>>
    BY <1>1 DEF PrintAccepted
  <2>2. /\ print' \in [Prints -> StartPrint]
        /\ print'[p].phase = "accepted"
        /\ print'[p].name = n
        /\ \A q \in Prints \ {p} : print'[q] = print[q]
    <3> DEFINE new == [print[p] EXCEPT !.phase = "accepted", !.name = n]
    <3>0. print \in [Prints -> StartPrint] /\ print[p] \in StartPrint
      BY DEF TypeOK
    <3>1. new \in StartPrint /\ new.phase = "accepted" /\ new.name = n
      BY <3>0 DEF StartPrint, Texts
    <3>2. print' = [print EXCEPT ![p] = new]
      BY <1>1 DEF PrintAccepted
    <3> HIDE DEF new
    <3> QED
      BY <3>0, <3>1, <3>2
  <2>3. TypeOK'
    BY <2>1, <2>2 DEF TypeOK
  <2>4. ShownIsDone' /\ NamesKnown' /\ EntriesCreated'
    BY <2>1, <2>2 DEF ShownIsDone, NamesKnown, EntriesCreated, TypeOK
  <2>5. LockedNamesFree'
    BY <2>1, <2>2 DEF LockedNamesFree, Printing
  <2> QED
    BY <2>1, <2>3, <2>4, <2>5, UploadsUntouched
<1>2. ASSUME NEW p \in Prints, PrintCounts(p) \/ PrintOpens(p) \/ PrintSent(p)
      PROVE  Inv'
  <2>0. print[p] \in StartPrint
    BY DEF TypeOK
  <2>1. CASE PrintCounts(p)
    <3> DEFINE ph == IF dir[PathOf[print[p].name]] = None THEN "done" ELSE "counted"
               new == [print[p] EXCEPT !.phase = ph]
    <3>1. /\ print[p].phase = "accepted"
          /\ print' = [print EXCEPT ![p] = new]
          /\ UNCHANGED <<dir, content, upload, rename, queued, shown>>
      BY <2>1 DEF PrintCounts, PrintGoesTo
    <3>2. ph \in {"done", "counted"}
      OBVIOUS
    <3> HIDE DEF ph
    <3>3. new \in StartPrint /\ new.name = print[p].name /\ new.phase = ph
      BY <2>0, <3>2 DEF StartPrint
    <3>9. /\ print[p].phase \notin {"idle", "done"}
          /\ new.phase # "idle"
          /\ queued' = queued \/ (queued' = queued \cup {p} /\ new.phase = "done")
      BY <3>1, <3>2, <3>3
    <3> HIDE DEF new, Inv
    <3> QED
      BY <3>1, <3>2, <3>3, <3>9, PrintGoesOn
  <2>2. CASE PrintOpens(p)
    <3> DEFINE i == dir[PathOf[print[p].name]]
               new == IF i = None THEN [print[p] EXCEPT !.phase = "done"]
                      ELSE [print[p] EXCEPT !.phase = "opened", !.file = i]
    <3>1. /\ print[p].phase = "counted"
          /\ print' = [print EXCEPT ![p] = new]
          /\ UNCHANGED <<dir, content, upload, rename, queued, shown>>
      BY <2>2 DEF PrintOpens
    <3>2. i \in Inodes \cup {None}
      BY <3>1 DEF NamesKnown, Texts, TypeOK
    <3> HIDE DEF i
    <3>3. /\ new \in StartPrint
          /\ new.name = print[p].name
          /\ new.phase \in {"done", "opened"}
      <4>1. CASE i = None
        BY <2>0, <4>1 DEF StartPrint
      <4>2. CASE i # None
        BY <2>0, <3>2, <4>2 DEF StartPrint
      <4> QED
        BY <4>1, <4>2
    <3>9. /\ print[p].phase \notin {"idle", "done"}
          /\ new.phase # "idle"
          /\ queued' = queued \/ (queued' = queued \cup {p} /\ new.phase = "done")
      BY <3>1, <3>3
    <3> HIDE DEF new, Inv
    <3> QED
      BY <3>1, <3>3, <3>9, PrintGoesOn
  <2>3. CASE PrintSent(p)
    <3> DEFINE new == [print[p] EXCEPT !.phase = "done"]
    <3>1. /\ print[p].phase = "opened"
          /\ print' = [print EXCEPT ![p] = new]
          /\ queued' = queued \cup {p}
          /\ UNCHANGED <<dir, content, upload, rename, shown>>
      BY <2>3 DEF PrintSent, PrintGoesTo
    <3>2. new \in StartPrint /\ new.name = print[p].name /\ new.phase = "done"
      BY <2>0 DEF StartPrint
    <3>9. /\ print[p].phase \notin {"idle", "done"}
          /\ new.phase # "idle"
          /\ queued' = queued \/ (queued' = queued \cup {p} /\ new.phase = "done")
      BY <3>1, <3>2
    <3> HIDE DEF new, Inv
    <3> QED
      BY <3>1, <3>2, <3>9, PrintGoesOn
  <2> QED
    BY <1>2, <2>1, <2>2, <2>3
<1>3. ASSUME NEW p \in Prints, PrintShown(p)
      PROVE  Inv'
  <2>1. /\ p \in queued
        /\ ~ StateLocked
        /\ queued' = queued \ {p}
        /\ shown' \in {p, shown}
        /\ UNCHANGED <<dir, content, upload, rename, print>>
    BY <1>3 DEF PrintShown
  <2>2. TypeOK'
    BY <2>1 DEF TypeOK
  <2>3. ShownIsDone' /\ NamesKnown' /\ EntriesCreated'
    BY <2>1 DEF ShownIsDone, NamesKnown, EntriesCreated
  <2>4. LockedNamesFree'
    BY <2>1 DEF LockedNamesFree, StateLocked
  <2> QED
    BY <2>1, <2>2, <2>3, <2>4, UploadsUntouched
<1>4. ASSUME PrintOver
      PROVE  Inv'
  <2>1. /\ ~ StateLocked
        /\ shown' = None
        /\ UNCHANGED <<dir, content, upload, rename, print, queued>>
    BY <1>4 DEF PrintOver
  <2>2. TypeOK'
    BY <2>1 DEF TypeOK
  <2>3. ShownIsDone' /\ NamesKnown' /\ EntriesCreated'
    BY <2>1 DEF ShownIsDone, NamesKnown, EntriesCreated
  <2>4. LockedNamesFree'
    BY <2>1 DEF LockedNamesFree, StateLocked
  <2> QED
    BY <2>1, <2>2, <2>3, <2>4, UploadsUntouched
<1> QED
  BY <1>1, <1>2, <1>3, <1>4 DEF PrintStep, Texts

\* Every step keeps the invariant.
LEMMA NextInv == Inv /\ [Next]_vars => Inv'
<1> SUFFICES ASSUME Inv, [Next]_vars
             PROVE  Inv'
  OBVIOUS
<1>1. CASE UNCHANGED vars
  BY <1>1 DEF vars, Inv, TypeOK, ShownIsDone, NamesKnown, LockedNamesFree, Printing,
              EntriesCreated, FilesOpened, AloneIsStored, IsAlone, NothingFailed, IsStored
<1> QED
  BY <1>1, UploadInv, RenameInv, PrintInv DEF Next

LEMMA InvIsInvariant == Spec => []Inv
BY InitInv, NextInv, PTL DEF Spec

\* Shapes, and that no two names have one file, whatever is uploaded, renamed and printed
\* (upload_file.rs 110-168, rename_file.rs 54-74).
THEOREM FilesTypeCorrect == Spec => []TypeOK
<1>1. Inv => TypeOK
  BY DEF Inv
<1> QED
  BY <1>1, InvIsInvariant, PTL

\* The file of a print that is shown by its name keeps its entry and is not emptied,
\* however many uploads and renames run (upload_file.rs 110-130, rename_file.rs 54-74).
THEOREM PrintedFileKept == Spec => PrintingFileKept
<1> DEFINE f == dir[Printing]
           FileKept == /\ dir'[Printing] = f
                       /\ f # None => Len(content'[f]) >= Len(content[f])
           Kept == shown # None /\ Printing \in Names => FileKept
<1>1. Inv /\ [Next]_vars => [Kept]_vars
  <2> SUFFICES ASSUME Inv, Next, Printing \in Names
               PROVE  FileKept
    OBVIOUS
  <2>0. TypeOK /\ f \in Inodes \cup {None}
    BY DEF Inv, TypeOK
  <2>1. \A i \in Inodes : Len(content[i]) \in Nat /\ Len(content[i]) >= Len(content[i])
    BY <2>0 DEF TypeOK, Content
  <2>2. ASSUME UNCHANGED <<dir, content>>
        PROVE  FileKept
    BY <2>0, <2>1, <2>2
  <2>3. ASSUME NEW u \in Uploads, UploadCreates(u)
        PROVE  FileKept
    <3> DEFINE n == upload[u].name
    <3>1. n \in Names /\ n # Printing
      BY <2>3 DEF UploadCreates, Inv, NamesKnown, LockedNamesFree
    <3>2. CASE UNCHANGED <<dir, content>>
      BY <2>2, <3>2
    <3>3. ASSUME NEW i \in Inodes,
                 IF dir[n] = None THEN Fresh(i) ELSE i = dir[n],
                 dir' = [dir EXCEPT ![n] = i],
                 content' = [content EXCEPT ![i] = <<>>]
          PROVE  FileKept
      <4>1. f # i
        <5>1. CASE dir[n] = None
          BY <3>3, <5>1 DEF Inv, EntriesCreated, Fresh
        <5>2. CASE dir[n] # None
          BY <2>0, <3>1, <3>3, <5>2 DEF TypeOK
        <5> QED
          BY <5>1, <5>2
      <4>2. dir'[Printing] = f
        BY <2>0, <3>1, <3>3 DEF TypeOK
      <4>3. f # None => content'[f] = content[f]
        BY <2>0, <3>3, <4>1 DEF TypeOK
      <4> QED
        BY <2>0, <2>1, <4>2, <4>3
    <3> QED
      BY <2>3, <3>2, <3>3 DEF UploadCreates
  <2>4. ASSUME NEW u \in Uploads, UploadWrites(u)
        PROVE  FileKept
    <3> DEFINE g == upload[u].file
               parts == content[g]
               o == upload[u].offset
    <3>1. g \in Inodes /\ parts \in Content /\ o \in Nat /\ NextPart(u) \in Part
      BY <2>0, <2>4 DEF UploadWrites, TypeOK, Upload, NextPart, Part
    <3>2. /\ dir' = dir
          /\ \/ UNCHANGED content
             \/ content' = [content EXCEPT ![g] = Written(parts, o, NextPart(u))]
      BY <2>4 DEF UploadWrites
    <3> HIDE DEF o
    <3>3. \A j \in Inodes : Len(content'[j]) >= Len(content[j])
      <4> DEFINE W == Written(parts, o, NextPart(u))
      <4>1. Len(W) >= Len(parts)
        <5> HIDE DEF parts
        <5> QED
          BY <3>1, WrittenType
      <4> HIDE DEF g, W
      <4> QED
        BY <2>0, <2>1, <3>1, <3>2, <4>1 DEF TypeOK, W
    <3> QED
      BY <2>0, <3>2, <3>3
  <2>5. ASSUME NEW r \in Renames, RenameMoves(r)
        PROVE  FileKept
    <3>1. Printing \notin {rename[r].old, rename[r].new}
      BY <2>5 DEF RenameMoves, Inv, LockedNamesFree
    <3>2. dir'[Printing] = f /\ content' = content
      BY <2>0, <2>5, <3>1 DEF RenameMoves, TypeOK
    <3> QED
      BY <2>0, <2>1, <3>2
  <2>6. \/ UNCHANGED <<dir, content>>
        \/ \E u \in Uploads : UploadCreates(u) \/ UploadWrites(u)
        \/ \E r \in Renames : RenameMoves(r)
    BY DEF Next, UploadStep, RenameStep, PrintStep, UploadChecks, UploadEnds, RenameChecks,
           PrintAccepted, PrintCounts, PrintOpens, PrintSent, PrintShown, PrintOver
  <2> QED
    BY <2>2, <2>3, <2>4, <2>5, <2>6
<1> QED
  BY <1>1, InvIsInvariant, PTL DEF Spec, PrintingFileKept

\* An upload that had its file to itself and wrote every part has stored them in order,
\* whatever was renamed, printed or uploaded besides (upload_file.rs 103-168).
THEOREM AloneStored == Spec => StoredIfAlone
<1> DEFINE Stored ==
      \A u \in Uploads :
        /\ upload[u].phase = "receiving"
        /\ upload'[u].phase = "created"
        /\ NothingFailed(u)
        /\ IsAlone(u)
        => IsStored(u)
<1>1. Inv => Stored
  BY DEF Inv, AloneIsStored
<1> QED
  BY <1>1, InvIsInvariant, PTL DEF Spec, StoredIfAlone
=============================================================================
