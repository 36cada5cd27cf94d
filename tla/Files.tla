-------------------------------- MODULE Files --------------------------------
(***************************************************************************)
(* upload_file.rs, rename_file.rs and the reading half of start_print.rs   *)
(* over the directory ./files.                                             *)
(*                                                                         *)
(* A directory entry names an inode.  An upload keeps the file it created  *)
(* open and writes to that inode, whatever becomes of the entry; creating  *)
(* a file that exists truncates it.  An upload is received in chunks, one  *)
(* part of a file each; a chunk that carries a name, the first one or a    *)
(* later one, begins a file.                                               *)
(*                                                                         *)
(* Uploads and renames take the name of an entry.  A print is asked for by *)
(* any text that ends in ".gcode" and is joined to ./files/, so that there *)
(* are other ways to write a file: "./a.gcode", "../files/a.gcode", or an  *)
(* absolute path.  The state shows the text, and it is the text that       *)
(* uploads and renames compare with their names.                           *)
(*                                                                         *)
(* Of the server's state only the file name of StateDescription::Print is  *)
(* kept; on its way from start_print to the state a print goes through the *)
(* events of Manager and Bridge, here `queued`.                            *)
(***************************************************************************)
EXTENDS Naturals, Sequences, FiniteSets

CONSTANTS
    Names,    \* file names that match NAME_REGEX
    Aliases,  \* other texts that lead to a file in the directory
    PathOf,   \* the entry that a name or alias leads to
    Uploads,  \* upload requests
    Renames,  \* rename requests
    Prints,   \* print requests
    Inodes,   \* bound on the files that are ever created
    None,
    Parts,    \* how many parts an upload promises
    WriteMayFail

ASSUME FilesAssumption ==
    /\ Parts \in Nat \ {0}
    /\ None \notin Names \cup Aliases \cup Inodes \cup Prints
    /\ PathOf \in [Names \cup Aliases -> Names]
    /\ \A n \in Names : PathOf[n] = n
    /\ WriteMayFail \in BOOLEAN

VARIABLES
    dir,      \* the inode of each name
    content,  \* of each inode: the parts written to it, None for a hole
    upload,   \* the upload handlers
    rename,   \* the rename handlers
    print,    \* the start_print handlers
    queued,   \* prints on their way to the listener
    shown     \* the print that the state describes

vars == <<dir, content, upload, rename, print, queued, shown>>

\* Part k of the body of an upload.
Part == Uploads \X Nat
Content == Seq(Part \cup {None})

(***************************************************************************)
(* The file an upload writes to, the files it has opened, how many parts   *)
(* came before that file, how many were written to it, and how many came.  *)
(***************************************************************************)
Upload == [phase: {"idle", "locked", "receiving", "created", "failed"},
           name: Names \cup {None}, file: Inodes \cup {None}, opened: SUBSET Inodes,
           before: Nat, offset: Nat, received: Nat]
Rename == [phase: {"idle", "locked", "done"}, old: Names \cup {None}, new: Names \cup {None}]
StartPrint == [phase: {"idle", "accepted", "counted", "opened", "done"},
           name: Names \cup Aliases \cup {None}, file: Inodes \cup {None}]

TypeOK ==
    /\ dir \in [Names -> Inodes \cup {None}]
    /\ content \in [Inodes -> Content]
    /\ upload \in [Uploads -> Upload]
    /\ rename \in [Renames -> Rename]
    /\ print \in [Prints -> StartPrint]
    /\ queued \subseteq Prints
    /\ shown \in Prints \cup {None}
    /\ \A u \in Uploads : upload[u].phase \in {"receiving", "created"} => upload[u].file # None
    /\ \A n, m \in Names : dir[n] # None /\ dir[n] = dir[m] => n = m

Init ==
    /\ dir = [n \in Names |-> None]
    /\ content = [i \in Inodes |-> <<>>]
    /\ upload = [u \in Uploads |-> [phase |-> "idle", name |-> None, file |-> None, opened |-> {},
                                    before |-> 0, offset |-> 0, received |-> 0]]
    /\ rename = [r \in Renames |-> [phase |-> "idle", old |-> None, new |-> None]]
    /\ print = [p \in Prints |-> [phase |-> "idle", name |-> None, file |-> None]]
    /\ queued = {}
    /\ shown = None

\* The file name in the description of the state.
Printing == IF shown = None THEN None ELSE print[shown].name

\* A wrong StateLocked: a rename looks at a copy of the state.
LockedByUpload == \E u \in Uploads : upload[u].phase = "locked"

\* Both handlers keep the guard of the state until the file is theirs.
StateLocked ==
    \/ \E u \in Uploads : upload[u].phase = "locked"
    \/ \E r \in Renames : rename[r].phase = "locked"

-----------------------------------------------------------------------------
(* upload_file.rs                                                          *)

\* A chunk that begins the first file, or another one after a part of the last.
BeginsFile(up) ==
    \/ up.phase = "idle"
    \/ up.phase = "receiving" /\ up.before < up.received /\ up.received < Parts

\* Its name is compared with that of the print.
UploadChecks(u, n) ==
    /\ BeginsFile(upload[u])
    /\ ~ StateLocked
    /\ upload' = [upload EXCEPT ![u] = [@ EXCEPT !.phase = IF Printing = n THEN "failed"
                                                                          ELSE "locked",
                                                 !.name = n]]
    /\ UNCHANGED <<dir, content, rename, print, queued, shown>>

\* No file has been created with this inode yet.
Fresh(i) == \A u \in Uploads : i \notin upload[u].opened

\* File::create: a new file, or the one that is there, emptied; or it fails.
UploadCreates(u) ==
    LET up == upload[u]
        n == up.name
    IN  /\ up.phase = "locked"
        /\ \/ \E i \in Inodes :
                 /\ IF dir[n] = None THEN Fresh(i) ELSE i = dir[n]
                 /\ dir' = [dir EXCEPT ![n] = i]
                 /\ content' = [content EXCEPT ![i] = <<>>]
                 /\ upload' = [upload EXCEPT ![u] =
                                  [up EXCEPT !.phase = "receiving", !.file = i,
                                             !.opened = up.opened \cup {i},
                                             !.before = up.received, !.offset = 0]]
           \/ /\ WriteMayFail
              /\ upload' = [upload EXCEPT ![u].phase = "failed"]
              /\ UNCHANGED <<dir, content>>
        /\ UNCHANGED <<rename, print, queued, shown>>

\* A part written at an offset, with a hole before it if the file is shorter.
Written(parts, offset, part) ==
    [k \in 1 .. (IF Len(parts) > offset THEN Len(parts) ELSE offset + 1) |->
        IF k = offset + 1 THEN part ELSE IF k <= Len(parts) THEN parts[k] ELSE None]

\* The part that comes next.
NextPart(u) == <<u, upload[u].received + 1>>

\* A wrong UploadWrites: each part is written to what has the name by now.
UploadWritesByName(u) ==
    LET up == upload[u] IN
    /\ up.phase = "receiving"
    /\ up.received < Parts
    /\ content' = IF dir[up.name] = None THEN content
                  ELSE [content EXCEPT ![dir[up.name]] = Written(@, up.offset, NextPart(u))]
    /\ upload' = [upload EXCEPT ![u] = [up EXCEPT !.offset = up.offset + 1,
                                                     !.received = up.received + 1]]
    /\ UNCHANGED <<dir, rename, print, queued, shown>>

\* An error of write() is only printed, and the upload goes on.
UploadWrites(u) ==
    LET up == upload[u] IN
    /\ up.phase = "receiving"
    /\ up.received < Parts
    /\ \/ /\ content' = [content EXCEPT ![up.file] = Written(@, up.offset, NextPart(u))]
          /\ upload' = [upload EXCEPT ![u] = [up EXCEPT !.offset = up.offset + 1,
                                                     !.received = up.received + 1]]
       \/ /\ WriteMayFail
          /\ upload' = [upload EXCEPT ![u].received = @ + 1]
          /\ UNCHANGED content
    /\ UNCHANGED <<dir, rename, print, queued, shown>>

\* The end of the body: as many bytes as promised, or fewer; or, before it, a
\* chunk that is not UTF-8, a short write, or a broken connection, which makes the
\* handler panic (PrintOver is what the hook does to a print).  What was written
\* stays.
UploadEnds(u) ==
    /\ upload[u].phase = "receiving"
    /\ \/ upload[u].received = Parts /\ upload' = [upload EXCEPT ![u].phase = "created"]
       \/ upload' = [upload EXCEPT ![u].phase = "failed"]
    /\ UNCHANGED <<dir, content, rename, print, queued, shown>>

-----------------------------------------------------------------------------
(* rename_file.rs                                                          *)

RenameChecks(r, old, new) ==
    /\ rename[r].phase = "idle"
    /\ ~ StateLocked
    /\ rename' = [rename EXCEPT ![r] =
                    IF Printing \in {old, new}
                    THEN [@ EXCEPT !.phase = "done"]
                    ELSE [phase |-> "locked", old |-> old, new |-> new]]
    /\ UNCHANGED <<dir, content, upload, print, queued, shown>>

\* A wrong RenameMoves: the file stays under its old name, too.
RenameCopies(r) ==
    /\ rename[r].phase = "locked"
    /\ dir' = [dir EXCEPT ![rename[r].new] = dir[rename[r].old]]
    /\ rename' = [rename EXCEPT ![r].phase = "done"]
    /\ UNCHANGED <<content, upload, print, queued, shown>>

\* std::fs::rename replaces what has the new name; onto itself it does nothing.
RenameMoves(r) ==
    LET old == rename[r].old
        new == rename[r].new
    IN  /\ rename[r].phase = "locked"
        /\ dir' = IF dir[old] = None \/ old = new
                  THEN dir
                  ELSE [dir EXCEPT ![new] = dir[old], ![old] = None]
        /\ rename' = [rename EXCEPT ![r].phase = "done"]
        /\ UNCHANGED <<content, upload, print, queued, shown>>

-----------------------------------------------------------------------------
(* start_print.rs                                                          *)

PrintGoesTo(p, s) == print' = [print EXCEPT ![p].phase = s]

\* The state is CONNECTED; the guard is gone at once.
PrintAccepted(p, n) ==
    /\ print[p].phase = "idle"
    /\ shown = None
    /\ ~ StateLocked
    /\ print' = [print EXCEPT ![p] = [@ EXCEPT !.phase = "accepted", !.name = n]]
    /\ UNCHANGED <<dir, content, upload, rename, queued, shown>>

\* The file is opened twice, first to count its lines.
PrintCounts(p) ==
    /\ print[p].phase = "accepted"
    /\ PrintGoesTo(p, IF dir[PathOf[print[p].name]] = None THEN "done" ELSE "counted")
    /\ UNCHANGED <<dir, content, upload, rename, queued, shown>>

PrintOpens(p) ==
    LET i == dir[PathOf[print[p].name]] IN
    /\ print[p].phase = "counted"
    /\ print' = [print EXCEPT ![p] = IF i = None THEN [@ EXCEPT !.phase = "done"]
                                     ELSE [@ EXCEPT !.phase = "opened", !.file = i]]
    /\ UNCHANGED <<dir, content, upload, rename, queued, shown>>

\* The file that was opened is read to its end, and what it said is sent as a print.
PrintSent(p) ==
    /\ print[p].phase = "opened"
    /\ PrintGoesTo(p, "done")
    /\ queued' = queued \cup {p}
    /\ UNCHANGED <<dir, content, upload, rename, shown>>

-----------------------------------------------------------------------------
(* The state: PRINTING is stored for a print, CONNECTED after it.  A print *)
(* that arrives in another state is dropped, but one that arrives before   *)
(* PRINTING was stored takes the place of the other (Bridge!ListenerChecks *)
(* and Bridge!ListenerStartsPrint).                                        *)

PrintShown(p) ==
    /\ p \in queued
    /\ ~ StateLocked
    /\ queued' = queued \ {p}
    /\ shown' \in {p, shown}
    /\ UNCHANGED <<dir, content, upload, rename, print>>

PrintOver ==
    /\ shown # None
    /\ ~ StateLocked
    /\ shown' = None
    /\ UNCHANGED <<dir, content, upload, rename, print, queued>>

-----------------------------------------------------------------------------
UploadStep(u) ==
    \/ \E n \in Names : UploadChecks(u, n)
    \/ UploadCreates(u)
    \/ UploadWrites(u)
    \/ UploadEnds(u)

RenameStep(r) ==
    \/ \E old, new \in Names : RenameChecks(r, old, new)
    \/ RenameMoves(r)

PrintStep(p) ==
    \/ \E n \in Names \cup Aliases : PrintAccepted(p, n)
    \/ PrintCounts(p)
    \/ PrintOpens(p)
    \/ PrintSent(p)
    \/ PrintShown(p)

Next ==
    \/ \E u \in Uploads : UploadStep(u)
    \/ \E r \in Renames : RenameStep(r)
    \/ \E p \in Prints : PrintStep(p)
    \/ PrintOver

Spec == Init /\ [][Next]_vars

-----------------------------------------------------------------------------
(* Safety                                                                  *)

\* While the state shows a print that was asked for by the name of its file, neither the
\* entry of that file is changed nor the file emptied: upload and rename act on the state
\* they have checked, with its guard held (upload_file.rs 110-130, rename_file.rs 54-74).
\* For a print that was asked for by an alias it is false (TouchesNoPrint).
PrintingFileKept ==
    [][shown # None /\ Printing \in Names =>
         /\ dir'[Printing] = dir[Printing]
         /\ dir[Printing] # None =>
              Len(content'[dir[Printing]]) >= Len(content[dir[Printing]])]_vars

\* No other upload has opened the file that u writes to.
IsAlone(u) == \A v \in Uploads \ {u} : upload[u].file \notin upload[v].opened

\* Every part that has come since the file was created was written.
NothingFailed(u) == upload[u].before + upload[u].offset = upload[u].received

\* n parts of the body of u, in order, that came after some others.
PartsOf(u, before, n) == [k \in 1 .. n |-> <<u, before + k>>]

\* The file holds the parts that came for it, in order.
IsStored(u) == content[upload[u].file] = PartsOf(u, upload[u].before, upload[u].offset)

\* An upload that is answered with "Created" has stored its file whole and in order if no
\* write failed and no other upload had the same file, whatever was renamed or printed in
\* the meantime: it writes to the file it created, not to the name (upload_file.rs
\* 125-168).
StoredIfAlone ==
    [][\A u \in Uploads :
         /\ upload[u].phase = "receiving"
         /\ upload'[u].phase = "created"
         /\ NothingFailed(u)
         /\ IsAlone(u)
         => IsStored(u)]_vars

-----------------------------------------------------------------------------
(* What the headers of the routes promise.                                 *)

\* upload_file.rs 4: "! Cannot upload a file that is currently printing."  rename_file.rs
\* 4: "! Cannot rename a file that is currently printing."  An upload or rename that has
\* passed its check does not touch the file of the print that is shown.
TouchesNoPrint ==
    shown # None =>
        /\ \A u \in Uploads : upload[u].phase = "locked" => upload[u].name # PathOf[Printing]
        /\ \A r \in Renames : rename[r].phase = "locked" =>
             PathOf[Printing] \notin {rename[r].old, rename[r].new}

\* upload_file.rs 4: "! Cannot upload a file that is currently printing."  No
\* part is written to the file the state shows as being printed.
NoUploadWhilePrinting ==
    [][\A u \in Uploads :
         UploadWrites(u) /\ Printing # None => dir[PathOf[Printing]] # upload[u].file]_vars

\* rename_file.rs 4: "! Cannot rename a file that is currently printing."  The
\* file that is printed is the one that has its name.
PrintedFileInPlace == shown # None => dir[PathOf[Printing]] = print[shown].file

\* upload_file.rs 2: "Upload a .gcode file to the files directory."  When the
\* answer is "Created", the file that was uploaded is stored, all of it.
CreatedIsStored ==
    [][\A u \in Uploads :
         upload[u].phase = "receiving" /\ upload'[u].phase = "created" =>
             NothingFailed(u) /\ IsStored(u)]_vars
=============================================================================
