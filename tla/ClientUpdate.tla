----------------------------- MODULE ClientUpdate -----------------------------
(***************************************************************************)
(* client_update_check.rs: what happens to ./client before the server      *)
(* starts.  check_updates is sequential; every expect, unwrap and panic of *)
(* it ends the process, and so may anything else at any step.  What was    *)
(* written to the disk stays.  The service is then started again.          *)
(*                                                                         *)
(* A release is a number; a file of the client holds the release that it   *)
(* was unpacked from.  GitHub is external: the latest release, the         *)
(* redirects, and downloads that fail or are not the archive.              *)
(***************************************************************************)
EXTENDS Naturals, FiniteSets

CONSTANTS
    Files,
    Contains,    \* the files in the archive of each release
    Releases,    \* ids of releases
    None,        \* no file, or an empty build_info
    Damaged,     \* a file that was not written to its end
    MaxFaults,   \* bound on the failures
    MaxRedirects \* bound on the redirects of a download

ASSUME ClientUpdateAssumption ==
    /\ Releases \subseteq Nat
    /\ Releases # {}
    /\ Contains \in [Releases -> SUBSET Files]
    /\ None \notin Releases
    /\ Damaged \notin Releases
    /\ MaxFaults \in Nat
    /\ MaxRedirects \in Nat

VARIABLES
    latest,      \* the latest release
    withdrawn,   \* whether a latest release was ever withdrawn; no action reads it
    phase,       \* the step that the process takes next
    current_id,  \* the build_info that was read
    latest_info, \* the release that was fetched
    redirects,   \* how often the download was redirected
    unpacked,    \* the files that extract has written
    dir,         \* ./client exists
    zip,         \* ./client/dist.zip
    client,      \* the files in ./client
    build_info,  \* ./client/build_info
    faults

github == <<latest, withdrawn>>
process == <<phase, current_id, latest_info, redirects, unpacked>>
disk == <<dir, zip, client, build_info>>
vars == <<github, process, disk, faults>>

Phases == {"down", "compare", "create_dir", "remove_zip", "get", "download", "open",
           "extract", "truncate", "record", "running"}

Stored == Releases \cup {None, Damaged}

TypeOK ==
    /\ latest \in Releases
    /\ withdrawn \in BOOLEAN
    /\ phase \in Phases
    /\ current_id \in Stored
    /\ latest_info \in Releases \cup {None}
    /\ redirects \in 0..MaxRedirects
    /\ unpacked \subseteq Files
    /\ dir \in BOOLEAN
    /\ zip \in Stored
    /\ client \in [Files -> Stored]
    /\ build_info \in Stored
    /\ faults \in 0..MaxFaults
    \* After the comparison there is a release to install; it is that of the archive.
    /\ phase \notin {"down", "compare", "running"} => latest_info # None
    /\ phase = "download" => zip = Damaged
    /\ phase = "open" => zip \in {latest_info, Damaged}
    /\ phase = "extract" => zip = latest_info

Init ==
    /\ latest \in Releases
    /\ withdrawn = FALSE
    /\ phase = "down"
    /\ current_id = None
    /\ latest_info = None
    /\ redirects = 0
    /\ unpacked = {}
    /\ dir = FALSE
    /\ zip = None
    /\ client = [f \in Files |-> None]
    /\ build_info = None
    /\ faults = 0

-----------------------------------------------------------------------------
(* The process and GitHub                                                  *)

Start ==
    /\ phase = "down"
    /\ phase' = "compare"
    /\ current_id' = build_info
    /\ latest_info' = None
    /\ redirects' = 0
    /\ unpacked' = {}
    /\ UNCHANGED <<github, disk, faults>>

GoesTo(p) == phase' = p /\ UNCHANGED <<current_id, latest_info, redirects, unpacked>>

\* A panic, or the end of the process for any other reason.
Fails ==
    /\ faults < MaxFaults
    /\ faults' = faults + 1
    /\ GoesTo("down")

Crash ==
    /\ phase # "down"
    /\ Fails
    /\ UNCHANGED <<github, disk>>

\* The server was running and is started again, for instance to update.
Stop ==
    /\ phase = "running"
    /\ GoesTo("down")
    /\ UNCHANGED <<github, disk, faults>>

NewRelease ==
    /\ \E r \in Releases : r > latest /\ latest' = r
    /\ UNCHANGED <<withdrawn, process, disk, faults>>

Withdraw ==
    /\ \E r \in Releases : r < latest /\ latest' = r
    /\ withdrawn' = TRUE
    /\ UNCHANGED <<process, disk, faults>>

-----------------------------------------------------------------------------
(* check_updates                                                           *)

\* get_release_info, and the comparison with the build_info that was read.
CheckUpdates ==
    /\ phase = "compare"
    /\ latest_info' = latest
    /\ phase' = IF current_id = latest THEN "running" ELSE "create_dir"
    /\ UNCHANGED <<github, current_id, redirects, unpacked, disk, faults>>

-----------------------------------------------------------------------------
(* download_release                                                        *)

\* A wrong CreateDir: AlreadyExists is an error like the others.
CreateDirOnce ==
    /\ phase = "create_dir"
    /\ dir' = TRUE
    /\ IF dir THEN GoesTo("down") ELSE GoesTo("remove_zip")
    /\ UNCHANGED <<github, zip, client, build_info, faults>>

CreateDir ==
    /\ phase = "create_dir"
    /\ dir' = TRUE
    /\ GoesTo("remove_zip")
    /\ UNCHANGED <<github, zip, client, build_info, faults>>

RemoveZip ==
    /\ phase = "remove_zip"
    /\ zip' = None
    /\ GoesTo("get")
    /\ UNCHANGED <<github, dir, client, build_info, faults>>

\* 301 or 302: download_release calls itself with the new location.
Redirect ==
    /\ phase = "get"
    /\ redirects < MaxRedirects
    /\ redirects' = redirects + 1
    /\ phase' = "create_dir"
    /\ UNCHANGED <<github, current_id, latest_info, unpacked, disk, faults>>

\* Any other status: its body is the archive.
CreateZip ==
    /\ phase = "get"
    /\ zip' = Damaged
    /\ GoesTo("download")
    /\ UNCHANGED <<github, dir, client, build_info, faults>>

Download ==
    /\ phase = "download"
    /\ zip' = latest_info
    /\ GoesTo("open")
    /\ UNCHANGED <<github, dir, client, build_info, faults>>

\* The body is an error page, or write wrote less than the chunk; nobody notices yet.
DownloadGarbage ==
    /\ phase = "download"
    /\ faults < MaxFaults
    /\ faults' = faults + 1
    /\ GoesTo("open")
    /\ UNCHANGED <<github, disk>>

\* A wrong OpenZip: the id is written before the archive is unpacked.
OpenZipRecordsFirst ==
    /\ phase = "open"
    /\ build_info' = latest_info
    /\ GoesTo(IF zip = Damaged THEN "down" ELSE "extract")
    /\ UNCHANGED <<github, dir, zip, client, faults>>

\* A wrong OpenZip: a damaged archive is opened.
OpenZipUnchecked ==
    /\ phase = "open"
    /\ GoesTo("extract")
    /\ UNCHANGED <<github, disk, faults>>

OpenZip ==
    /\ phase = "open"
    /\ GoesTo(IF zip = Damaged THEN "down" ELSE "extract")
    /\ UNCHANGED <<github, disk, faults>>

Extract(f) ==
    /\ phase = "extract"
    /\ f \in Contains[zip] \ unpacked
    /\ client' = [client EXCEPT ![f] = zip]
    /\ unpacked' = unpacked \cup {f}
    /\ UNCHANGED <<github, phase, current_id, latest_info, redirects, dir, zip, build_info,
                   faults>>

\* The file was created, that is truncated, and not written to its end.
ExtractBreaks(f) ==
    /\ phase = "extract"
    /\ f \in Contains[zip] \ unpacked
    /\ client' = [client EXCEPT ![f] = Damaged]
    /\ Fails
    /\ UNCHANGED <<github, dir, zip, build_info>>

Extracted ==
    /\ phase = "extract"
    /\ Contains[zip] \subseteq unpacked
    /\ GoesTo("truncate")
    /\ UNCHANGED <<github, disk, faults>>

-----------------------------------------------------------------------------
(* update_build_info                                                       *)

CreateBuildInfo ==
    /\ phase = "truncate"
    /\ build_info' = None
    /\ GoesTo("record")
    /\ UNCHANGED <<github, dir, zip, client, faults>>

\* main then starts the server.
WriteBuildInfo ==
    /\ phase = "record"
    /\ build_info' = latest_info
    /\ GoesTo("running")
    /\ UNCHANGED <<github, dir, zip, client, faults>>

\* write may write less than the id.
WriteBuildInfoShort ==
    /\ phase = "record"
    /\ faults < MaxFaults
    /\ faults' = faults + 1
    /\ build_info' = Damaged
    /\ GoesTo("running")
    /\ UNCHANGED <<github, dir, zip, client>>

-----------------------------------------------------------------------------

\* What the process does by itself.
Step ==
    \/ CheckUpdates
    \/ CreateDir
    \/ RemoveZip
    \/ Redirect
    \/ CreateZip
    \/ Download
    \/ OpenZip
    \/ \E f \in Files : Extract(f)
    \/ Extracted
    \/ CreateBuildInfo
    \/ WriteBuildInfo

Fault ==
    \/ Crash
    \/ DownloadGarbage
    \/ \E f \in Files : ExtractBreaks(f)
    \/ WriteBuildInfoShort

Next ==
    \/ Start
    \/ Stop
    \/ NewRelease
    \/ Withdraw
    \/ Step
    \/ Fault

Spec == Init /\ [][Next]_vars

\* The process takes its next step, and the service manager starts it again.
FairSpec == Spec /\ WF_vars(Step) /\ WF_vars(Start)

-----------------------------------------------------------------------------

\* Every file of release r is unpacked from it.
Whole(r) == \A f \in Contains[r] : client[f] = r

\* Unless a release was withdrawn, the server never offers the files of another release
\* than the one that build_info names, whatever failed before (client_update_check.rs
\* 14-25: the id is written after the archive was unpacked, and compared with the next
\* one).  After a withdrawal the former id may match a half unpacked client.
ClientIsWhole ==
    phase = "running" /\ build_info \in Releases => withdrawn \/ Whole(build_info)

\* No failure leaves a disk that check_updates cannot repair: once failures end, the
\* server runs, again and again (client_update_check.rs 83-96: what is left of an earlier
\* attempt is no error).
ServerStarts == []<>(phase = "running")
=============================================================================
