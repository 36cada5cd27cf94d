-------------------------- MODULE ClientUpdateProofs --------------------------
(***************************************************************************)
(* A running server offers a client that is whole, unless a release was    *)
(* withdrawn: for any releases, archives and number of failures.           *)
(*                                                                         *)
(* The argument: build_info is never ahead of the latest release, and what *)
(* is unpacked is newer than it.  So a client that was left half unpacked  *)
(* is under an id that the next comparison does not accept.                *)
(***************************************************************************)
EXTENDS ClientUpdate, TLAPS

\* The steps that install latest_info while build_info is still the old one.
Installing == {"create_dir", "remove_zip", "get", "download", "open", "extract", "truncate"}

InstalledIsOld ==
    build_info \in Releases =>
        /\ build_info <= latest
        /\ Whole(build_info) \/ build_info < latest

FetchedIsNew ==
    /\ phase = "compare" => current_id = build_info
    /\ phase \in Installing =>
          /\ latest_info <= latest
          /\ build_info \in Releases => build_info < latest_info
    /\ phase = "record" => build_info = None /\ latest_info <= latest

UnpackedIsNew ==
    /\ phase \in Phases \ {"down", "extract", "truncate", "record", "running"} => unpacked = {}
    /\ phase = "extract" => \A f \in unpacked : client[f] = latest_info
    /\ phase \in {"truncate", "record"} => Whole(latest_info)

\* What holds until a release is withdrawn.
Fresh ==
    /\ InstalledIsOld
    /\ FetchedIsNew
    /\ UnpackedIsNew

Inv ==
    /\ TypeOK
    /\ withdrawn \/ Fresh
    /\ ClientIsWhole

USE ClientUpdateAssumption DEF github

\* Nothing is installed at first.
LEMMA InitInv == Init => Inv
<1> SUFFICES ASSUME Init
             PROVE  Inv
  OBVIOUS
<1> USE DEF Init
<1>1. TypeOK
  <2>1. latest \in Releases /\ phase \in Phases /\ latest_info \in Releases \cup {None}
    BY DEF Phases
  <2>2. current_id \in Stored /\ zip \in Stored /\ build_info \in Stored
    BY DEF Stored
  <2>3. client \in [Files -> Stored]
    BY DEF Stored
  <2>4. redirects \in 0..MaxRedirects /\ faults \in 0..MaxFaults
    OBVIOUS
  <2> QED
    BY <2>1, <2>2, <2>3, <2>4 DEF TypeOK
<1>2. InstalledIsOld /\ ClientIsWhole
  BY DEF InstalledIsOld, ClientIsWhole
<1>3. FetchedIsNew /\ UnpackedIsNew
  BY DEF FetchedIsNew, UnpackedIsNew, Installing
<1> QED
  BY <1>1, <1>2, <1>3 DEF Inv, Fresh

\* Every step of the process, of GitHub and of the disk keeps the types.
LEMMA StepTypes ==
    ASSUME TypeOK, Next
    PROVE  TypeOK'
<1>0. latest \in Releases /\ latest' \in Releases /\ withdrawn' \in BOOLEAN
  BY DEF TypeOK, Next, Start, Stop, NewRelease, Withdraw, Step, Fault, CheckUpdates, CreateDir,
         RemoveZip, Redirect, CreateZip, Download, OpenZip, Extracted, Extract, CreateBuildInfo,
         WriteBuildInfo, Crash, DownloadGarbage, ExtractBreaks, WriteBuildInfoShort
<1>1. CASE Start \/ Stop \/ Crash
  BY <1>1 DEF Start, Stop, Crash, Fails, GoesTo, TypeOK, Stored, Phases, disk
<1>2. CASE NewRelease \/ Withdraw
  BY <1>0, <1>2 DEF NewRelease, Withdraw, TypeOK, disk, process
<1>3. CASE CheckUpdates
  BY <1>0, <1>3 DEF CheckUpdates, TypeOK, Phases, disk
<1>4. CASE CreateDir
  BY <1>4 DEF CreateDir, GoesTo, TypeOK, Phases
<1>7. CASE RemoveZip
  BY <1>7 DEF RemoveZip, GoesTo, TypeOK, Stored, Phases
<1>8. CASE Redirect
  BY <1>8 DEF Redirect, TypeOK, Phases, disk
<1>9. CASE CreateZip
  BY <1>9 DEF CreateZip, GoesTo, TypeOK, Stored, Phases
<1>5. CASE Download
  BY <1>5 DEF Download, GoesTo, TypeOK, Stored, Phases
<1>6. CASE OpenZip
  <2>1. /\ phase' = IF zip = Damaged THEN "down" ELSE "extract"
        /\ phase = "open"
        /\ UNCHANGED <<current_id, latest_info, redirects, unpacked, github, disk, faults>>
    BY <1>6 DEF OpenZip, GoesTo
  <2> QED
    BY <2>1 DEF TypeOK, Stored, Phases, disk
<1>10. CASE Extracted
  BY <1>10 DEF Extracted, GoesTo, TypeOK, Phases, disk
<1>11. CASE DownloadGarbage
  BY <1>11 DEF DownloadGarbage, GoesTo, TypeOK, Phases, disk
<1>12. CASE CreateBuildInfo \/ WriteBuildInfo \/ WriteBuildInfoShort
  BY <1>12 DEF CreateBuildInfo, WriteBuildInfo, WriteBuildInfoShort, GoesTo, TypeOK, Phases,
               Stored
<1>13. ASSUME NEW f \in Files, Extract(f)
       PROVE  TypeOK'
  BY <1>13 DEF Extract, TypeOK, Stored
<1>14. ASSUME NEW f \in Files, ExtractBreaks(f)
       PROVE  TypeOK'
  BY <1>14 DEF ExtractBreaks, Fails, GoesTo, TypeOK, Stored, Phases
<1> QED
  BY <1>1, <1>2, <1>3, <1>4, <1>5, <1>6, <1>7, <1>8, <1>9, <1>10, <1>11, <1>12, <1>13, <1>14
     DEF Next, Step, Fault

\* The steps that neither write a file of the client nor the build_info.
LEMMA QuietInv ==
    ASSUME Inv, TypeOK', ~ withdrawn,
           \/ Start \/ Stop \/ NewRelease
           \/ CheckUpdates \/ CreateDir \/ RemoveZip \/ Redirect \/ CreateZip \/ Download
           \/ OpenZip \/ Extracted \/ Crash \/ DownloadGarbage
    PROVE  Fresh' /\ ClientIsWhole'
<1> USE DEF Inv, Fresh
<1>0. /\ client' = client
      /\ build_info' = build_info
      /\ \A r \in Releases : Whole(r)' <=> Whole(r)
      /\ latest \in Nat /\ latest' \in Releases /\ latest' \in Nat /\ latest' >= latest
  BY DEF Start, Stop, NewRelease, CheckUpdates, CreateDir, RemoveZip, Redirect,
         CreateZip, Download, OpenZip, Extracted, Crash, DownloadGarbage, TypeOK, Whole,
         disk, process
<1>2. InstalledIsOld'
  BY <1>0 DEF InstalledIsOld, TypeOK
<1>3. FetchedIsNew'
  <2>1. CASE Start \/ Stop \/ Crash
    BY <1>0, <2>1 DEF Start, Stop, Crash, Fails, GoesTo, FetchedIsNew, Installing, disk
  <2>2. CASE NewRelease
    BY <1>0, <2>2 DEF NewRelease, FetchedIsNew, Installing, TypeOK, disk, process
  <2>3. CASE CheckUpdates
    <3>1. current_id = build_info /\ build_info' = build_info
      BY <1>0, <2>3 DEF CheckUpdates, FetchedIsNew
    <3>2. /\ latest_info' = latest /\ latest' = latest
          /\ phase' = IF build_info = latest THEN "running" ELSE "create_dir"
      BY <2>3, <3>1 DEF CheckUpdates
    <3>3. build_info \in Releases /\ build_info # latest => build_info < latest
      BY <1>0 DEF InstalledIsOld
    <3> QED
      BY <1>0, <3>1, <3>2, <3>3 DEF FetchedIsNew, Installing
  <2>4. CASE CreateDir \/ RemoveZip \/ Redirect \/ CreateZip \/ Download
    BY <1>0, <2>4 DEF CreateDir, RemoveZip, Redirect, CreateZip, Download, GoesTo,
                      FetchedIsNew, Installing, disk
  <2>5. CASE OpenZip \/ Extracted \/ DownloadGarbage
    BY <1>0, <2>5 DEF OpenZip, Extracted, DownloadGarbage, GoesTo, FetchedIsNew, Installing, disk
  <2> QED
    BY <2>1, <2>2, <2>3, <2>4, <2>5
<1>4. UnpackedIsNew'
  BY <1>0 DEF Start, Stop, NewRelease, CheckUpdates, CreateDir, RemoveZip,
         Redirect, CreateZip, Download, OpenZip, Extracted, Crash, DownloadGarbage, TypeOK,
         Fails, GoesTo, Phases, UnpackedIsNew, Whole, disk, process
<1>5. ClientIsWhole'
  BY <1>0 DEF Start, Stop, NewRelease, CheckUpdates, CreateDir, RemoveZip,
         Redirect, CreateZip, Download, OpenZip, Extracted, Crash, DownloadGarbage, TypeOK,
         Fails, GoesTo, FetchedIsNew, InstalledIsOld, ClientIsWhole, disk, process
<1> QED
  BY <1>2, <1>3, <1>4, <1>5

\* Unpacking a file, or half of it: build_info is older than what is unpacked.
LEMMA ExtractInv ==
    ASSUME Inv, TypeOK', ~ withdrawn, NEW f \in Files, Extract(f) \/ ExtractBreaks(f)
    PROVE  Fresh' /\ ClientIsWhole'
<1> USE DEF Inv, Fresh
<1>1. /\ phase = "extract"
      /\ zip = latest_info
      /\ latest_info \in Releases
      /\ UNCHANGED <<latest, current_id, latest_info, redirects, dir, zip, build_info>>
  BY DEF Extract, ExtractBreaks, Fails, GoesTo, TypeOK
<1>2. build_info \in Releases => build_info < latest
  BY <1>1 DEF FetchedIsNew, Installing, TypeOK
<1>3. CASE Extract(f)
  <2>1. /\ phase' = phase
        /\ unpacked' = unpacked \cup {f}
        /\ client' = [client EXCEPT ![f] = latest_info]
        /\ faults' = faults
    BY <1>1, <1>3 DEF Extract
  <2>2. InstalledIsOld' /\ FetchedIsNew' /\ ClientIsWhole'
    BY <1>1, <1>2, <2>1 DEF InstalledIsOld, FetchedIsNew, ClientIsWhole, Installing, TypeOK
  <2>3. UnpackedIsNew'
    BY <1>1, <2>1 DEF UnpackedIsNew, TypeOK
  <2> QED
    BY <2>2, <2>3
<1>4. CASE ExtractBreaks(f)
  <2>1. /\ phase' = "down"
        /\ unpacked' = unpacked
        /\ client' = [client EXCEPT ![f] = Damaged]
        /\ faults < MaxFaults /\ faults' = faults + 1
    BY <1>4 DEF ExtractBreaks, Fails, GoesTo
  <2> QED
    BY <1>1, <1>2, <2>1
       DEF InstalledIsOld, FetchedIsNew, ClientIsWhole, UnpackedIsNew, Installing, TypeOK
<1> QED
  BY <1>3, <1>4

\* The build_info is emptied, and then names the release that was unpacked.
LEMMA RecordInv ==
    ASSUME Inv, TypeOK', ~ withdrawn, CreateBuildInfo \/ WriteBuildInfo \/ WriteBuildInfoShort
    PROVE  Fresh' /\ ClientIsWhole'
<1> USE DEF Inv, Fresh
<1>1. /\ client' = client /\ latest' = latest /\ latest_info' = latest_info
      /\ latest_info \in Releases
      /\ latest_info <= latest
      /\ Whole(latest_info)
      /\ Whole(latest_info)'
  BY DEF CreateBuildInfo, WriteBuildInfo, WriteBuildInfoShort, GoesTo, TypeOK, FetchedIsNew,
         UnpackedIsNew, Installing, Whole
<1>2. CASE CreateBuildInfo
  BY <1>1, <1>2
     DEF CreateBuildInfo, GoesTo, InstalledIsOld, FetchedIsNew, UnpackedIsNew, ClientIsWhole,
         Installing
<1>3. CASE WriteBuildInfo
  BY <1>1, <1>3
     DEF WriteBuildInfo, GoesTo, InstalledIsOld, FetchedIsNew, UnpackedIsNew, ClientIsWhole,
         Installing
<1>4. CASE WriteBuildInfoShort
  BY <1>1, <1>4
     DEF WriteBuildInfoShort, GoesTo, InstalledIsOld, FetchedIsNew, UnpackedIsNew,
         ClientIsWhole, Installing
<1> QED
  BY <1>2, <1>3, <1>4

\* Every step keeps the invariant; after a withdrawal that is only the types.
LEMMA NextInv == Inv /\ [Next]_vars => Inv'
<1> SUFFICES ASSUME Inv, [Next]_vars
             PROVE  Inv'
  OBVIOUS
<1>1. CASE UNCHANGED vars
  BY <1>1 DEF vars, process, disk, Inv, TypeOK, Fresh, InstalledIsOld, FetchedIsNew,
              UnpackedIsNew, ClientIsWhole, Installing, Whole
<1>2. CASE Next /\ withdrawn'
  BY <1>2, StepTypes DEF Inv, ClientIsWhole
<1>3. CASE Next /\ ~ withdrawn'
  <2>1. ~ Withdraw
    BY <1>3 DEF Withdraw
  <2>2. ~ withdrawn
    BY <1>3, <2>1
       DEF Next, Start, Stop, NewRelease, Step, Fault, CheckUpdates, CreateDir, RemoveZip,
           Redirect, CreateZip, Download, OpenZip, Extracted, Extract, CreateBuildInfo,
           WriteBuildInfo, Crash, DownloadGarbage, ExtractBreaks, WriteBuildInfoShort
  <2>3. TypeOK'
    BY <1>3, StepTypes DEF Inv
  <2>4. ASSUME NEW f \in Files, Extract(f) \/ ExtractBreaks(f)
        PROVE  Fresh' /\ ClientIsWhole'
    BY <2>2, <2>3, <2>4, ExtractInv
  <2>5. CASE CreateBuildInfo \/ WriteBuildInfo \/ WriteBuildInfoShort
    BY <2>2, <2>3, <2>5, RecordInv DEF Inv
  <2>6. CASE \/ Start \/ Stop \/ NewRelease
             \/ CheckUpdates \/ CreateDir \/ RemoveZip \/ Redirect \/ CreateZip \/ Download
             \/ OpenZip \/ Extracted \/ Crash \/ DownloadGarbage
    BY <2>2, <2>3, <2>6, QuietInv DEF Inv
  <2> QED
    BY <1>3, <2>1, <2>3, <2>4, <2>5, <2>6 DEF Inv, Next, Step, Fault
<1> QED
  BY <1>1, <1>2, <1>3

\* The steps of check_updates, the disk they leave and the archive they unpack are well
\* formed (client_update_check.rs 14-145).
THEOREM ClientUpdateTypeCorrect == Spec => []TypeOK
<1>1. Inv => TypeOK
  BY DEF Inv
<1> QED
  BY <1>1, InitInv, NextInv, PTL DEF Spec

\* A server that runs offers all files of the release that build_info names, after any
\* failures, unless a release was withdrawn (client_update_check.rs 14-25).
THEOREM RunningClientIsWhole == Spec => []ClientIsWhole
<1>1. Inv => ClientIsWhole
  BY DEF Inv
<1> QED
  BY <1>1, InitInv, NextInv, PTL DEF Spec
=============================================================================
