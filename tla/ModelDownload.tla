--------------------------- MODULE ModelDownload ---------------------------
(***************************************************************************)
(* The download commands of the model manager and the files they leave: a  *)
(* file or archive is fetched into a temporary path beside it, checked,    *)
(* and moved or unpacked into place.  Commands are async and nothing keeps *)
(* two of them apart; any of them may fail, and the application may end at *)
(* any moment and find its files again at the next start.                  *)
(***************************************************************************)
EXTENDS Integers

CONSTANTS Commands,    \* calls of the commands that may be under way at once
          Wanted,      \* assets each of them asks for
          KindOf,      \* what each asset is and how it is checked
          Rank,        \* order in which targets are pushed
          Temporary,   \* output_path.with_extension("download")
          Chunks,      \* chunks of a response
          Entries,     \* entries of an archive, numbered from 1
          Required,    \* those that asr_model_installed_for looks for
          MaxCommands, \* bound: commands called
          MaxFaults    \* bound: failures, wrong responses and crashes

(***************************************************************************)
(* A "plain" file has no published integrity; a "pinned" one is checked    *)
(* when it is downloaded, a "verified" one also whenever a command begins. *)
(* Every archive has an integrity (asr_model_archive_integrity).           *)
(***************************************************************************)
Assets == DOMAIN KindOf
Archives == {f \in Assets : KindOf[f] = "archive"}
Files == Assets \ Archives
Temporaries == {Temporary[f] : f \in Assets}

ASSUME DownloadAssumption ==
  /\ KindOf \in [Assets -> {"plain", "pinned", "verified", "archive"}]
  /\ Wanted \in [Commands -> SUBSET Assets] /\ DOMAIN Temporary = Assets
  /\ Rank \in [Assets -> Nat] /\ \A f, g \in Assets : Rank[f] = Rank[g] => f = g
  /\ Chunks \in Nat \ {0} /\ Entries \in Nat \ {0} /\ Required \subseteq 1..Entries
  /\ Assets \intersect {"none", "missing", "bad"} = {}
  /\ \A a \in Archives, f \in Assets : Temporary[f] = Temporary[a] => f = a

VARIABLES
  temp,      \* content of each temporary path
  out,       \* content of each file's output path
  unpacked,  \* entries in the .extracting directory of each archive
  dir,       \* entries of the output directory of each archive: their version
  marker,    \* the revision recorded in .parapper-archive-sha256
  at,        \* where each command is
  targets,   \* targets a command has left, the present one included
  item,      \* its present target
  handle,    \* the file it writes
  pos,       \* chunk or entry it is at
  served,    \* what the server sends it
  result,    \* how it ended
  disturbed, \* history: it met a failure that its files do not explain
  contended, \* history: assets two commands were to download at once
  calls, faults

fileVars == <<temp, out, unpacked, dir, marker>>
taskVars == <<at, targets, item, handle, pos, served, result, disturbed>>
vars == <<fileVars, taskVars, contended, calls, faults>>

Absent == << >>
Nothing == [e \in 1..Entries |-> "none"]
Published(f) == [p \in 1..Chunks |-> f]
Spoiled == [p \in 1..Chunks |-> "bad"]
NoFile == <<"none", "none">>

Init ==
  /\ temp = [t \in Temporaries |-> Absent] /\ unpacked = [a \in Archives |-> Nothing]
  /\ out \in {o \in [Files -> {Absent, Spoiled}] :
                \A f \in Files : o[f] = Spoiled => KindOf[f] = "verified"}
  /\ \E old \in SUBSET Archives :
       /\ dir = [a \in Archives |-> [e \in 1..Entries |-> IF a \in old THEN "old" ELSE "none"]]
       /\ marker \in {m \in [Archives -> {"none", "old"}] : \A a \in Archives \ old : m[a] = "none"}
  /\ at = [c \in Commands |-> "idle"] /\ targets = [c \in Commands |-> {}]
  /\ item = [c \in Commands |-> "none"]
  /\ handle = [c \in Commands |-> NoFile] /\ pos = [c \in Commands |-> 1]
  /\ served = [c \in Commands |-> "bad"] /\ result = [c \in Commands |-> "none"]
  /\ disturbed = [c \in Commands |-> FALSE] /\ contended = {} /\ calls = 0 /\ faults = 0

-----------------------------------------------------------------------------
(* What the commands ask of the disk *)

\* asr_model_installed_for, current_nemotron_archive_installed.
ArchiveInstalled(a) == marker[a] = "new" /\ \A e \in Required : dir[a][e] # "none"

Installed(f) == IF f \in Archives THEN ArchiveInstalled(f) ELSE out[f] # Absent

\* push_missing_file_targets_with_query
FileIsMissing(f) == out[f] = Absent

\* push_missing_local_translation_file_targets
FileIsMissingOrCorrupt(f) == out[f] # Published(f)

\* push_asr_download_targets_for_runtime_config
ArchiveIsMissing(a) == ~ArchiveInstalled(a)

IsMissing(f) ==
  CASE KindOf[f] = "archive" -> ArchiveIsMissing(f)
    [] KindOf[f] = "verified" -> FileIsMissingOrCorrupt(f)
    [] KindOf[f] \in {"plain", "pinned"} -> FileIsMissing(f)

HasIntegrity(f) == KindOf[f] # "plain"

\* Mutant: a file that is not verified later is not verified at all.
PassesUnlessVerified(f, content) == KindOf[f] = "verified" => content = Published(f)

\* verify_file_integrity of the downloaded file, where there is one to verify with.
Passes(f, content) == HasIntegrity(f) => content = Published(f)

\* Mutant: an archive that an earlier command left is not used.
NeverUsable(f) == FALSE

\* Mutant: an archive that an earlier command left is used as it is.
UsableAsItIs(f) == f \in Archives /\ temp[Temporary[f]] # Absent

\* cached_archive_available
Usable(f) == f \in Archives /\ temp[Temporary[f]] = Published(f)

At(c, place) == at' = [at EXCEPT ![c] = place]

End(c, how) ==
  /\ At(c, "idle") /\ result' = [result EXCEPT ![c] = how]
  /\ handle' = [handle EXCEPT ![c] = NoFile] /\ targets' = [targets EXCEPT ![c] = {}]

\* Handles follow the file they are open on when it is moved or removed.
Follow(from, to) == handle' = [d \in Commands |-> IF handle[d] = from THEN to ELSE handle[d]]

TempOf(c) == Temporary[item[c]]
OnTemp(c) == <<"temp", TempOf(c)>>

-----------------------------------------------------------------------------
(* download_models, download_local_translation_model *)

Start(c) ==
  /\ at[c] = "idle" /\ calls < MaxCommands
  /\ LET missing == {f \in Wanted[c] : IsMissing(f)}
         removed == {f \in missing : KindOf[f] = "verified"}
         meets(f, d) == \E g \in targets[d] : Temporary[f] = Temporary[g]
     IN  /\ targets' = [targets EXCEPT ![c] = missing]
         /\ out' = [f \in Files |-> IF f \in removed THEN Absent ELSE out[f]]
         /\ handle' = [d \in Commands |->
                         IF \E f \in removed : handle[d] = <<"out", f>> THEN NoFile ELSE handle[d]]
         /\ contended' = contended
              \union {f \in missing : \E d \in Commands \ {c} : meets(f, d)}
              \union {g \in UNION {targets[d] : d \in Commands \ {c}} :
                        \E f \in missing : Temporary[f] = Temporary[g]}
  /\ At(c, "next") /\ calls' = calls + 1
  /\ result' = [result EXCEPT ![c] = "none"] /\ disturbed' = [disturbed EXCEPT ![c] = FALSE]
  /\ UNCHANGED <<temp, unpacked, dir, marker, item, pos, served, faults>>

\* The loop over targets, up to the request: try_install_cached_archive uses
\* what an earlier command has downloaded, if it is whole, and removes it if
\* it is not.
NextTarget(c) ==
  /\ at[c] = "next"
  /\ \E f \in targets[c] :
       LET t == Temporary[f]
       IN  /\ \A g \in targets[c] : Rank[f] <= Rank[g]
           /\ item' = [item EXCEPT ![c] = f]
           /\ At(c, IF Usable(f) THEN "verify" ELSE "request")
           /\ IF f \in Archives /\ ~Usable(f)
                THEN temp' = [temp EXCEPT ![t] = Absent] /\ Follow(<<"temp", t>>, NoFile)
                ELSE UNCHANGED <<temp, handle>>
  /\ UNCHANGED <<out, unpacked, dir, marker, targets, pos, served, result, disturbed, contended,
                 calls, faults>>

\* The response is there: File::create empties what is at the temporary path.
Request(c) ==
  /\ at[c] = "request" /\ At(c, "fetch")
  /\ temp' = [temp EXCEPT ![TempOf(c)] = [p \in 1..Chunks |-> "missing"]]
  /\ handle' = [handle EXCEPT ![c] = OnTemp(c)] /\ pos' = [pos EXCEPT ![c] = 1]
  /\ \/ served' = [served EXCEPT ![c] = item[c]] /\ UNCHANGED <<disturbed, faults>>
     \/ /\ faults < MaxFaults /\ faults' = faults + 1
        /\ served' = [served EXCEPT ![c] = "bad"] /\ disturbed' = [disturbed EXCEPT ![c] = TRUE]
  /\ UNCHANGED <<out, unpacked, dir, marker, targets, item, result, contended, calls>>

\* The last chunk also closes the file.
Fetch(c) ==
  /\ at[c] = "fetch"
  /\ LET h == handle[c] IN
       /\ temp' = [t \in Temporaries |->
                     IF h = <<"temp", t>> THEN [temp[t] EXCEPT ![pos[c]] = served[c]] ELSE temp[t]]
       /\ out' = [f \in Files |->
                    IF h = <<"out", f>> THEN [out[f] EXCEPT ![pos[c]] = served[c]] ELSE out[f]]
  /\ pos' = [pos EXCEPT ![c] = @ + 1]
  /\ IF pos[c] = Chunks
       THEN At(c, "verify") /\ handle' = [handle EXCEPT ![c] = NoFile]
       ELSE UNCHANGED <<at, handle>>
  /\ UNCHANGED <<unpacked, dir, marker, targets, item, served, result, disturbed, contended, calls,
                 faults>>

\* install_downloaded_target
Verify(c) ==
  /\ at[c] = "verify"
  /\ IF Passes(item[c], temp[TempOf(c)])
       THEN /\ At(c, IF item[c] \in Archives THEN "clear" ELSE "rename")
            /\ UNCHANGED <<targets, handle, result>>
       ELSE End(c, "error")
  /\ UNCHANGED <<fileVars, item, pos, served, disturbed, contended, calls, faults>>

Rename(c) ==
  /\ at[c] = "rename"
  /\ LET f == item[c] IN
       IF temp[TempOf(c)] = Absent
         THEN End(c, "error") /\ UNCHANGED <<temp, out>>
         ELSE /\ out' = [out EXCEPT ![f] = temp[TempOf(c)]]
              /\ temp' = [temp EXCEPT ![TempOf(c)] = Absent]
              /\ handle' = [d \in Commands |-> IF handle[d] = OnTemp(c) THEN <<"out", f>>
                                               ELSE IF handle[d] = <<"out", f>> THEN NoFile
                                               ELSE handle[d]]
              /\ targets' = [targets EXCEPT ![c] = @ \ {f}]
              /\ At(c, "next") /\ UNCHANGED result
  /\ UNCHANGED <<unpacked, dir, marker, item, pos, served, disturbed, contended, calls, faults>>

-----------------------------------------------------------------------------
(* extract_archive_directory and the marker *)

Clear(c) ==
  /\ at[c] = "clear" /\ At(c, "unpack")
  /\ unpacked' = [unpacked EXCEPT ![item[c]] = Nothing] /\ pos' = [pos EXCEPT ![c] = 1]
  /\ UNCHANGED <<temp, out, dir, marker, targets, item, handle, served, result, disturbed,
                 contended, calls, faults>>

Unpack(c) ==
  /\ at[c] = "unpack"
  /\ IF temp[TempOf(c)] = Published(item[c])
       THEN /\ unpacked' = [unpacked EXCEPT ![item[c]][pos[c]] = "new"]
            /\ pos' = [pos EXCEPT ![c] = @ + 1]
            /\ At(c, IF pos[c] = Entries THEN "replace" ELSE "unpack")
            /\ UNCHANGED <<targets, handle, result>>
       ELSE End(c, "error") /\ UNCHANGED <<unpacked, pos>>
  /\ UNCHANGED <<temp, out, dir, marker, item, served, disturbed, contended, calls, faults>>

\* One file of fs::remove_dir_all(output_path).
RemoveOld(c) ==
  /\ at[c] = "replace" /\ unpacked[item[c]] # Nothing
  /\ \/ \E e \in 1..Entries : /\ dir[item[c]][e] # "none"
                              /\ dir' = [dir EXCEPT ![item[c]][e] = "none"] /\ UNCHANGED marker
     \/ /\ marker[item[c]] # "none"
        /\ marker' = [marker EXCEPT ![item[c]] = "none"] /\ UNCHANGED dir
  /\ UNCHANGED <<temp, out, unpacked, taskVars, contended, calls, faults>>

MoveInPlace(c) ==
  /\ at[c] = "replace"
  /\ LET a == item[c] IN
       IF unpacked[a] = Nothing
         THEN End(c, "error") /\ UNCHANGED <<dir, unpacked>>
         ELSE /\ dir[a] = Nothing /\ marker[a] = "none"
              /\ dir' = [dir EXCEPT ![a] = unpacked[a]]
              /\ unpacked' = [unpacked EXCEPT ![a] = Nothing]
              /\ At(c, "cleanup") /\ UNCHANGED <<targets, handle, result>>
  /\ UNCHANGED <<temp, out, marker, item, pos, served, disturbed, contended, calls, faults>>

Cleanup(c) ==
  /\ at[c] = "cleanup" /\ At(c, "mark")
  /\ temp' = [temp EXCEPT ![TempOf(c)] = Absent] /\ Follow(OnTemp(c), NoFile)
  /\ unpacked' = [unpacked EXCEPT ![item[c]] = Nothing]
  /\ UNCHANGED <<out, dir, marker, targets, item, pos, served, result, disturbed, contended, calls,
                 faults>>

Mark(c) ==
  /\ at[c] = "mark" /\ At(c, "next")
  /\ marker' = [marker EXCEPT ![item[c]] = "new"]
  /\ targets' = [targets EXCEPT ![c] = @ \ {item[c]}]
  /\ UNCHANGED <<temp, out, unpacked, dir, item, handle, pos, served, result, disturbed, contended,
                 calls, faults>>

Finish(c) ==
  /\ at[c] = "next" /\ targets[c] = {} /\ End(c, "ok")
  /\ UNCHANGED <<fileVars, item, pos, served, disturbed, contended, calls, faults>>

-----------------------------------------------------------------------------
(* Faults *)

\* The network or the disk fails: the command returns the error as it is.
Fail(c) ==
  /\ at[c] # "idle" /\ faults < MaxFaults /\ faults' = faults + 1
  /\ End(c, "error") /\ disturbed' = [disturbed EXCEPT ![c] = TRUE]
  /\ UNCHANGED <<fileVars, item, pos, served, contended, calls>>

\* The application ends; only its files are there at the next start.
Crash ==
  /\ \E c \in Commands : at[c] # "idle"
  /\ faults < MaxFaults /\ faults' = faults + 1
  /\ at' = [c \in Commands |-> "idle"] /\ targets' = [c \in Commands |-> {}]
  /\ handle' = [c \in Commands |-> NoFile]
  /\ result' = [c \in Commands |-> IF at[c] = "idle" THEN result[c] ELSE "crashed"]
  /\ UNCHANGED <<fileVars, item, pos, served, disturbed, contended, calls>>

Next ==
  \/ \E c \in Commands :
       \/ Start(c) \/ NextTarget(c) \/ Request(c) \/ Fetch(c) \/ Verify(c) \/ Rename(c)
       \/ Clear(c) \/ Unpack(c) \/ RemoveOld(c) \/ MoveInPlace(c) \/ Cleanup(c) \/ Mark(c)
       \/ Finish(c) \/ Fail(c)
  \/ Crash

Spec == Init /\ [][Next]_vars

-----------------------------------------------------------------------------
(* Properties *)

InPlace(f) ==
  IF f \in Archives THEN ArchiveInstalled(f) /\ \A e \in 1..Entries : dir[f][e] = "new"
  ELSE out[f] = Published(f) \/ (~HasIntegrity(f) /\ out[f] = Spoiled)

(***************************************************************************)
(* What the status calls installed is whole, whatever failed and whenever  *)
(* the application ended, also while an older revision was replaced: only  *)
(* a file that was corrupt before, and is checked again by the next        *)
(* command, is not.  Excepted are assets that two commands downloaded      *)
(* through one temporary path at the same time.                            *)
(***************************************************************************)
InstalledIsWhole ==
  \A f \in Assets \ contended :
    Installed(f) => InPlace(f) \/ (KindOf[f] = "verified" /\ out[f] = Spoiled)

(***************************************************************************)
(* A command that reports success has everything it was asked for in       *)
(* place, and one that met no failure reports success: nothing that an     *)
(* earlier failure or crash left behind makes a download fail again.       *)
(***************************************************************************)
CommandOutcome ==
  [][\A c \in Commands :
       (at[c] # "idle" /\ at'[c] = "idle" /\ Wanted[c] \intersect contended = {}) =>
          /\ result'[c] = "ok" => \A f \in Wanted[c] : InPlace(f)'
          /\ result'[c] = "error" => disturbed'[c]]_vars

(***************************************************************************)
(* An archive that was downloaded completely is not given up before all of *)
(* it is unpacked in place: a failure or crash on the way costs no second  *)
(* download.                                                               *)
(***************************************************************************)
ArchiveIsKept ==
  [][\A a \in Archives \ contended :
       (temp[Temporary[a]] = Published(a) /\ temp'[Temporary[a]] # Published(a)) =>
          \A e \in 1..Entries : dir'[a][e] = "new"]_vars
=============================================================================
