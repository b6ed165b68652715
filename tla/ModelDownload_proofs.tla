------------------------ MODULE ModelDownload_proofs ------------------------
(***************************************************************************)
(* Proofs that what the download commands leave is whole, for any number   *)
(* of commands, assets, chunks, entries, failures and crashes.             *)
(***************************************************************************)
EXTENDS ModelDownload, TLAPS

Places == {"idle", "next", "request", "fetch", "verify", "rename", "clear", "unpack", "replace",
           "cleanup", "mark"}

Busy(c) == at[c] \notin {"idle", "next"}

AllNew(entries) == \A e \in 1..Entries : entries[e] = "new"

\* A temporary file of which the chunks before p are there.
Partial(v, p) == [q \in 1..Chunks |-> IF q < p THEN v ELSE "missing"]

Indexed ==
  /\ DOMAIN temp = Temporaries /\ DOMAIN out = Files
  /\ DOMAIN unpacked = Archives /\ DOMAIN dir = Archives /\ DOMAIN marker = Archives
  /\ \A a \in Archives : DOMAIN unpacked[a] = 1..Entries /\ DOMAIN dir[a] = 1..Entries
  /\ at \in [Commands -> Places] /\ targets \in [Commands -> SUBSET Assets]
  /\ DOMAIN item = Commands /\ DOMAIN handle = Commands /\ DOMAIN pos = Commands
  /\ DOMAIN served = Commands /\ DOMAIN result = Commands /\ DOMAIN disturbed = Commands

\* What a busy command works on is one of its targets.
Targeted ==
  \A c \in Commands :
    /\ targets[c] \subseteq Wanted[c]
    /\ at[c] = "idle" => targets[c] = {}
    /\ Busy(c) => item[c] \in targets[c]
    /\ at[c] = "fetch" => pos[c] \in 1..Chunks
    /\ at[c] = "unpack" => pos[c] \in 1..Entries
    /\ at[c] = "rename" => item[c] \in Files
    /\ at[c] \in {"clear", "unpack", "replace", "cleanup", "mark"} => item[c] \in Archives

\* Two commands share a temporary path only for assets that are contended.
Apart ==
  \A c, d \in Commands : c # d =>
    \A f \in targets[c], g \in targets[d] :
      Temporary[f] = Temporary[g] => f \in contended /\ g \in contended

\* An open file is the temporary one, unless another command moved or removed it.
Handles ==
  \A c \in Commands :
    /\ at[c] # "fetch" => handle[c] = NoFile
    /\ at[c] = "fetch" =>
         \/ handle[c] = OnTemp(c)
         \/ /\ item[c] \in contended
            /\ handle[c] = NoFile \/ \E f \in contended : handle[c] = <<"out", f>>

\* What is in the temporary file and the .extracting directory at each place.
ProgressOf(c) ==
  Busy(c) /\ item[c] \notin contended =>
    /\ at[c] = "request" /\ item[c] \in Archives => temp[TempOf(c)] = Absent
    /\ at[c] = "fetch" => /\ served[c] = item[c] \/ (served[c] = "bad" /\ disturbed[c])
                          /\ temp[TempOf(c)] = Partial(served[c], pos[c])
    /\ at[c] = "verify" => \/ temp[TempOf(c)] = Published(item[c])
                           \/ temp[TempOf(c)] = Spoiled /\ disturbed[c]
    /\ at[c] = "rename" => \/ temp[TempOf(c)] = Published(item[c])
                           \/ temp[TempOf(c)] = Spoiled /\ KindOf[item[c]] = "plain"
    /\ at[c] \in {"clear", "unpack", "replace"} => temp[TempOf(c)] = Published(item[c])
    /\ at[c] = "unpack" => \A e \in 1..Entries : e < pos[c] => unpacked[item[c]][e] = "new"
    /\ at[c] = "replace" => AllNew(unpacked[item[c]])
    /\ at[c] \in {"cleanup", "mark"} => AllNew(dir[item[c]])

Progress == \A c \in Commands : ProgressOf(c)

\* What is at an output path, installed or not.
Whole ==
  \A f \in Assets \ contended :
    /\ f \in Archives => (marker[f] = "new" => AllNew(dir[f]))
    /\ f \in Files => \/ out[f] = Absent \/ out[f] = Published(f)
                      \/ out[f] = Spoiled /\ KindOf[f] \in {"plain", "verified"}

\* A target is not in place before its command is done with it, and is from then on.
Wanting ==
  \A c \in Commands : \A f \in Wanted[c] \ contended :
    /\ f \in targets[c] /\ f \in Archives => marker[f] # "new"
    /\ f \in targets[c] /\ f \in Files => out[f] = Absent
    /\ at[c] # "idle" /\ f \notin targets[c] => InPlace(f)

IInv == Indexed /\ Targeted /\ Apart /\ Handles /\ Progress /\ Whole /\ Wanting

-----------------------------------------------------------------------------
(* Contents of files *)

LEMMA Kinds ==
  /\ Files \subseteq Assets /\ Archives \subseteq Assets /\ Archives \intersect Files = {}
  /\ \A f \in Assets : /\ f \in Archives \/ f \in Files
                       /\ Temporary[f] \in Temporaries
                       /\ f # "bad" /\ f # "missing" /\ f # "none"
                       /\ f \in Archives <=> KindOf[f] = "archive"
  /\ \A c \in Commands : Wanted[c] \subseteq Assets
  /\ Chunks \in Nat /\ 1 \in 1..Chunks /\ Entries \in Nat /\ 1 \in 1..Entries
BY DownloadAssumption, SMT DEF Assets, Archives, Files, Temporaries

LEMMA NotEmpty == ASSUME NEW v, NEW S, S # {} PROVE [p \in S |-> v] # Absent
<1>1. DOMAIN [p \in S |-> v] # {}
  BY SMT
<1>2. DOMAIN Absent = {}
  BY SMT DEF Absent
<1> QED
  BY <1>1, <1>2

LEMMA Contents ==
  ASSUME NEW f \in Assets
  PROVE  /\ Published(f) # Absent /\ Spoiled # Absent /\ Published(f) # Spoiled
         /\ \A p : p \in 1..Chunks => Partial("bad", p) # Published(f)
         /\ \A p : p \in 1..Chunks => Partial(f, p) # Published(f)
         /\ Partial("bad", 1) # Absent
<1>1. 1 \in 1..Chunks /\ f # "bad" /\ f # "missing"
  BY Kinds
<1>2. Published(f)[1] = f /\ Spoiled[1] = "bad"
  BY <1>1 DEF Published, Spoiled
<1>3. ASSUME NEW p \in 1..Chunks, NEW v PROVE Partial(v, p)[p] = "missing" /\ Published(f)[p] = f
  BY Kinds, SMT DEF Partial, Published
<1>4. Published(f) # Absent /\ Spoiled # Absent
  BY <1>1, NotEmpty, Zenon DEF Published, Spoiled
<1>5. Partial("bad", 1) # Absent
  BY <1>1, Kinds, SMT DEF Partial, Absent
<1>6. Published(f) # Spoiled
  BY <1>1, <1>2
<1>7. \A p : p \in 1..Chunks => Partial("bad", p) # Published(f) /\ Partial(f, p) # Published(f)
  BY <1>1, <1>3
<1> QED
  BY <1>4, <1>5, <1>6, <1>7

LEMMA Begun == \A v : Partial(v, 1) = [p \in 1..Chunks |-> "missing"]
BY Kinds, SMT DEF Partial

LEMMA Written ==
  ASSUME NEW v, NEW p \in 1..Chunks
  PROVE  [Partial(v, p) EXCEPT ![p] = v] = Partial(v, p + 1)
<1> DEFINE S == {v, "missing"}
<1>1. \A r : Partial(v, r) \in [1..Chunks -> S]
  BY SMT DEF Partial
<1>2. ASSUME NEW g \in [1..Chunks -> S]
      PROVE  /\ [g EXCEPT ![p] = v] \in [1..Chunks -> S]
             /\ \A q \in 1..Chunks : [g EXCEPT ![p] = v][q] = IF q = p THEN v ELSE g[q]
  BY SMT
<1>3. \A q \in 1..Chunks : (IF q = p THEN v ELSE Partial(v, p)[q]) = Partial(v, p + 1)[q]
  BY Kinds, SMT DEF Partial
<1>4. ASSUME NEW g \in [1..Chunks -> S], NEW h \in [1..Chunks -> S],
             \A q \in 1..Chunks : g[q] = h[q]
      PROVE  g = h
  <2>1. g = [q \in 1..Chunks |-> g[q]] /\ h = [q \in 1..Chunks |-> h[q]]
    BY Zenon
  <2> QED
    BY <1>4, <2>1, Zenon
<1>5. [Partial(v, p) EXCEPT ![p] = v] \in [1..Chunks -> S]
  BY <1>1, <1>2
<1>6. \A q \in 1..Chunks : [Partial(v, p) EXCEPT ![p] = v][q] = Partial(v, p + 1)[q]
  BY <1>1, <1>2, <1>3
<1> HIDE DEF S
<1> QED
  BY <1>1, <1>4, <1>5, <1>6

LEMMA Complete ==
  /\ \A f : Partial(f, Chunks + 1) = Published(f)
  /\ Partial("bad", Chunks + 1) = Spoiled
BY Kinds, SMT DEF Partial, Published, Spoiled

-----------------------------------------------------------------------------
(* The steps *)

LEMMA Initially == Init => IInv
<1> SUFFICES ASSUME Init PROVE IInv
  OBVIOUS
<1>1. Indexed
  BY SMT DEF Init, Indexed, Places, Nothing
<1>2. Targeted /\ Apart /\ Handles /\ Progress
  BY SMT DEF Init, Targeted, Apart, Handles, Progress, ProgressOf, Busy, NoFile
<1>3. Whole
  BY Kinds, SMT DEF Init, Whole
<1>4. Wanting
  BY Kinds, SMT DEF Init, Wanting
<1> QED
  BY <1>1, <1>2, <1>3, <1>4 DEF IInv

\* Nothing else is at the temporary path or in the place of an uncontended target.
LEMMA Others ==
  ASSUME IInv, NEW c \in Commands, NEW d \in Commands, c # d, Busy(c),
         NEW f \in targets[d], f \notin contended
  PROVE  Temporary[f] # TempOf(c) /\ f # item[c]
BY DEF IInv, Targeted, Apart, TempOf

\* What a command relies on holds as long as nobody touches it.
LEMMA Undisturbed ==
  ASSUME NEW d, ProgressOf(d), at'[d] = at[d], item'[d] = item[d], contended \subseteq contended',
         Busy(d) /\ item[d] \notin contended =>
            /\ served'[d] = served[d] /\ pos'[d] = pos[d] /\ disturbed'[d] = disturbed[d]
            /\ temp'[TempOf(d)] = temp[TempOf(d)]
            /\ at[d] \in {"unpack", "replace"} => unpacked'[item[d]] = unpacked[item[d]]
            /\ at[d] \in {"cleanup", "mark"} => dir'[item[d]] = dir[item[d]]
  PROVE  ProgressOf(d)'
BY SMT DEF ProgressOf, Busy, TempOf, AllNew

\* A command that ends leaves the files of the others alone.
LEMMA Ends ==
  ASSUME IInv, NEW c \in Commands, NEW how, End(c, how),
         UNCHANGED <<fileVars, item, pos, served, contended>>,
         disturbed' = disturbed \/ disturbed' = [disturbed EXCEPT ![c] = TRUE]
  PROVE  IInv'
<1> USE DEF End, At, fileVars
<1>1. Indexed'
  BY SMT DEF IInv, Indexed, Places
<1>2. Targeted'
  BY SMT DEF IInv, Targeted, Indexed, Busy
<1>3. Apart'
  BY SMT DEF IInv, Apart, Indexed
<1>4. Handles'
  BY SMT DEF IInv, Handles, Indexed, OnTemp, TempOf
<1>5. Progress'
  <2>1. ASSUME NEW d \in Commands, d # c PROVE ProgressOf(d)'
    BY <2>1, Undisturbed, SMT DEF IInv, Indexed, Progress, TempOf
  <2>2. ~Busy(c)'
    BY SMT DEF IInv, Indexed, Busy
  <2> QED
    BY <2>1, <2>2 DEF Progress, ProgressOf
<1>6. Whole'
  BY SMT DEF IInv, Whole, AllNew
<1>7. Wanting'
  BY SMT DEF IInv, Wanting, Indexed, InPlace, ArchiveInstalled
<1> QED
  BY <1>1, <1>2, <1>3, <1>4, <1>5, <1>6, <1>7 DEF IInv
\* The files of an asset that a command works on are its own.
LEMMA Own ==
  ASSUME IInv, NEW c \in Commands, NEW f \in targets[c]
  PROVE  /\ f \in Assets /\ f \in Wanted[c] /\ Temporary[f] \in Temporaries
         /\ f \notin contended /\ f \in Archives => marker[f] # "new"
         /\ f \notin contended /\ f \in Files => out[f] = Absent
BY Kinds DEF IInv, Targeted, Wanting

LEMMA NextTargetStep == ASSUME IInv, NEW c \in Commands, NextTarget(c) PROVE IInv'
<1>1. PICK f \in targets[c] :
        /\ at[c] = "next" /\ item' = [item EXCEPT ![c] = f]
        /\ at' = [at EXCEPT ![c] = IF Usable(f) THEN "verify" ELSE "request"]
        /\ IF f \in Archives /\ ~Usable(f)
             THEN /\ temp' = [temp EXCEPT ![Temporary[f]] = Absent]
                  /\ Follow(<<"temp", Temporary[f]>>, NoFile)
             ELSE UNCHANGED <<temp, handle>>
        /\ UNCHANGED <<out, unpacked, dir, marker, targets, pos, served, result,
                       disturbed, contended>>
  BY DEF NextTarget, At
<1>2. Temporary[f] \in Temporaries
  BY Own
<1>3. \A d \in Commands : d # c =>
        \A g \in targets[d] \ contended : Temporary[g] # Temporary[f] /\ g # f
  BY DEF IInv, Apart
<1>4. Indexed'
  BY <1>1, SMT DEF IInv, Indexed, Places, Follow
<1>5. Targeted'
  BY <1>1, SMT DEF IInv, Targeted, Indexed, Busy
<1>6. Apart'
  BY <1>1, SMT DEF IInv, Apart
<1>7. Handles'
  <2>1. \A d \in Commands : d # c /\ at[d] = "fetch" => item[d] \in targets[d]
    BY DEF IInv, Targeted, Busy
  <2> QED
    BY <1>1, <1>3, <2>1, SMT DEF IInv, Handles, Indexed, OnTemp, TempOf, Follow, NoFile
<1>8. Progress'
  <2>1. \A d \in Commands : d # c /\ Busy(d) => item[d] \in targets[d]
    BY DEF IInv, Targeted
  <2>2. ASSUME NEW d \in Commands, d # c, Busy(d), item[d] \notin contended
        PROVE  temp'[TempOf(d)] = temp[TempOf(d)]
    <3>1. TempOf(d) \in Temporaries /\ TempOf(d) # Temporary[f]
      BY <1>3, <2>1, <2>2, Own DEF TempOf
    <3> QED
      BY <1>1, <3>1, SMT DEF IInv, Indexed
  <2>3. f \in Archives => Usable(f) \/ temp'[Temporary[f]] = Absent
    BY <1>1, <1>2, SMT DEF IInv, Indexed
  <2> QED
    <3>1. ASSUME NEW d \in Commands, d # c PROVE ProgressOf(d)'
      BY <1>1, <2>2, <3>1, Undisturbed, SMT DEF IInv, Indexed, Progress
    <3>2. ProgressOf(c)'
      BY <1>1, <2>3, SMT DEF IInv, Indexed, ProgressOf, Busy, TempOf, Usable
    <3> QED
      BY <3>1, <3>2 DEF Progress
<1>9. Whole'
  BY <1>1, SMT DEF IInv, Whole, AllNew
<1>10. Wanting'
  BY <1>1, SMT DEF IInv, Wanting, Indexed, InPlace, ArchiveInstalled
<1> QED
  BY <1>4, <1>5, <1>6, <1>7, <1>8, <1>9, <1>10 DEF IInv

LEMMA RequestStep == ASSUME IInv, NEW c \in Commands, Request(c) PROVE IInv'
<1> USE DEF Request, At
<1>0. item[c] \in targets[c] /\ TempOf(c) \in Temporaries
  BY Own DEF IInv, Targeted, Busy, TempOf
<1>1. Indexed'
  BY SMT DEF IInv, Indexed, Places
<1>2. Targeted'
  BY Kinds, SMT DEF IInv, Targeted, Indexed, Busy
<1>3. Apart'
  BY SMT DEF IInv, Apart
<1>4. Handles'
  BY SMT DEF IInv, Handles, Indexed, OnTemp, TempOf
<1>5. Progress'
  <2>1. ASSUME NEW d \in Commands, d # c, Busy(d), item[d] \notin contended
        PROVE  temp'[TempOf(d)] = temp[TempOf(d)]
    BY Others, <2>1, SMT DEF IInv, Indexed, TempOf, Busy, Targeted
  <2>2. temp'[TempOf(c)] = Partial(served'[c], 1)
    <3>1. PICK new : new = Partial(served'[c], 1)
      OBVIOUS
    <3>2. temp' = [temp EXCEPT ![TempOf(c)] = new]
      BY <3>1, Begun
    <3>3. DOMAIN temp = Temporaries
      BY DEF IInv, Indexed
    <3> HIDE DEF Request
    <3> QED
      BY <1>0, <3>1, <3>2, <3>3, SMT
  <2>3. ASSUME NEW d \in Commands, d # c PROVE ProgressOf(d)'
    <3>1. /\ at'[d] = at[d] /\ item'[d] = item[d] /\ contended' = contended /\ unpacked' = unpacked
          /\ dir' = dir /\ served'[d] = served[d] /\ pos'[d] = pos[d]
          /\ disturbed'[d] = disturbed[d]
      BY <2>3, SMT DEF IInv, Indexed
    <3>2. ProgressOf(d)
      BY DEF IInv, Progress
    <3> QED
      BY <2>1, <2>3, <3>1, <3>2, Undisturbed
  <2>4. at'[c] = "fetch" /\ item'[c] = item[c] /\ pos'[c] = 1
    BY SMT DEF IInv, Indexed
  <2>5. served'[c] = item[c] \/ (served'[c] = "bad" /\ disturbed'[c])
    BY SMT DEF IInv, Indexed
  <2>6. ProgressOf(c)'
    BY <2>2, <2>4, <2>5, SMT DEF ProgressOf, TempOf
  <2> QED
    BY <2>3, <2>6 DEF Progress
<1>6. Whole'
  BY SMT DEF IInv, Whole, AllNew
<1>7. Wanting'
  BY SMT DEF IInv, Wanting, Indexed, InPlace, ArchiveInstalled
<1> QED
  BY <1>1, <1>2, <1>3, <1>4, <1>5, <1>6, <1>7 DEF IInv

LEMMA FetchStep == ASSUME IInv, NEW c \in Commands, Fetch(c) PROVE IInv'
<1> USE DEF Fetch, At
<1>0. /\ item[c] \in targets[c] /\ TempOf(c) \in Temporaries /\ pos[c] \in 1..Chunks
      /\ \A d \in Commands : Busy(d) => item[d] \in targets[d]
  BY Own DEF IInv, Targeted, Busy, TempOf
<1>1. Indexed'
  BY SMT DEF IInv, Indexed, Places
<1>2. Targeted'
  BY Kinds, SMT DEF IInv, Targeted, Indexed, Busy
<1>3. Apart'
  BY SMT DEF IInv, Apart
<1>4. Handles'
  BY SMT DEF IInv, Handles, Indexed, OnTemp, TempOf
<1>5. \A f \in Files : f \notin contended => out'[f] = out[f]
  BY Kinds, SMT DEF IInv, Handles, OnTemp, NoFile
<1>6. Progress'
  <2>1. ASSUME NEW d \in Commands, d # c, Busy(d), item[d] \notin contended
        PROVE  temp'[TempOf(d)] = temp[TempOf(d)]
    <3>1. TempOf(d) # TempOf(c) /\ TempOf(d) \in Temporaries
      BY <1>0, <2>1, Others, Own DEF Busy, TempOf
    <3>2. handle[c] # <<"temp", TempOf(d)>>
      BY <3>1, SMT DEF IInv, Handles, OnTemp, NoFile
    <3> QED
      BY <3>1, <3>2
  <2>2. ASSUME NEW d \in Commands, d # c PROVE ProgressOf(d)'
    <3>1. /\ at'[d] = at[d] /\ item'[d] = item[d] /\ contended' = contended /\ unpacked' = unpacked
          /\ dir' = dir /\ served'[d] = served[d] /\ pos'[d] = pos[d]
          /\ disturbed'[d] = disturbed[d]
      BY <2>2, SMT DEF IInv, Indexed
    <3>2. ProgressOf(d)
      BY DEF IInv, Progress
    <3> QED
      BY <2>1, <2>2, <3>1, <3>2, Undisturbed
  <2>3. ASSUME item[c] \notin contended PROVE ProgressOf(c)'
    <3>1. temp[TempOf(c)] = Partial(served[c], pos[c]) /\ handle[c] = OnTemp(c)
      BY <2>3 DEF IInv, Progress, ProgressOf, Handles, Busy
    <3>2. temp'[TempOf(c)] = Partial(served[c], pos[c] + 1)
      BY <1>0, <3>1, Written, SMT DEF OnTemp
    <3>3. served[c] = item[c] \/ (served[c] = "bad" /\ disturbed[c])
      BY <2>3 DEF IInv, Progress, ProgressOf, Busy
    <3>4. pos[c] = Chunks =>
             temp'[TempOf(c)] = Published(item[c]) \/ (temp'[TempOf(c)] = Spoiled /\ disturbed[c])
      <4> HIDE DEF Fetch
      <4>1. CASE served[c] = item[c]
        BY <3>2, <4>1, Complete
      <4>2. CASE served[c] = "bad" /\ disturbed[c]
        BY <3>2, <4>2, Complete
      <4> QED
        BY <3>3, <4>1, <4>2
    <3>5. /\ at'[c] = IF pos[c] = Chunks THEN "verify" ELSE "fetch"
          /\ pos'[c] = pos[c] + 1
      BY SMT DEF IInv, Indexed
    <3> QED
      BY <3>2, <3>3, <3>4, <3>5, SMT DEF ProgressOf, TempOf
  <2> QED
    BY <2>2, <2>3 DEF Progress, ProgressOf
<1>7. Whole'
  BY <1>5, SMT DEF IInv, Whole, AllNew
<1>8. Wanting'
  <2>1. \A d \in Commands : (at'[d] = "idle") = (at[d] = "idle")
    BY SMT DEF IInv, Indexed
  <2>2. ASSUME NEW d \in Commands, NEW f \in Wanted[d], f \notin contended
        PROVE  f \in Files => out'[f] = out[f]
    BY <1>5, <2>2
  <2> HIDE DEF Fetch
  <2>3. UNCHANGED <<unpacked, dir, marker, targets, contended>>
    BY DEF Fetch
  <2> QED
    BY <2>1, <2>2, <2>3, Kinds, SMT DEF IInv, Wanting, InPlace, ArchiveInstalled
<1> QED
  BY <1>1, <1>2, <1>3, <1>4, <1>6, <1>7, <1>8 DEF IInv
LEMMA VerifyStep == ASSUME IInv, NEW c \in Commands, Verify(c) PROVE IInv'
<1>0. item[c] \in targets[c] /\ item[c] \in Assets
  BY Own DEF Verify, IInv, Targeted, Busy
<1>1. CASE ~Passes(item[c], temp[TempOf(c)])
  BY <1>1, Ends DEF Verify
<1>2. CASE Passes(item[c], temp[TempOf(c)])
  <2>0. /\ at[c] = "verify"
        /\ at' = [at EXCEPT ![c] = IF item[c] \in Archives THEN "clear" ELSE "rename"]
        /\ UNCHANGED <<fileVars, targets, item, handle, pos, served, result, disturbed, contended>>
    BY <1>2 DEF Verify, At
  <2> USE DEF fileVars
  <2>1. Indexed'
    BY <2>0, SMT DEF IInv, Indexed, Places
  <2>2. Targeted'
    BY <2>0, <1>0, Kinds, SMT DEF IInv, Targeted, Indexed, Busy
  <2>3. Apart'
    BY <2>0, SMT DEF IInv, Apart
  <2>4. Handles'
    BY <2>0, SMT DEF IInv, Handles, Indexed, OnTemp, TempOf
  <2>5. Progress'
    <3>1. ASSUME NEW d \in Commands, d # c PROVE ProgressOf(d)'
      <4>1. at'[d] = at[d]
        BY <2>0, <3>1, SMT DEF IInv, Indexed
      <4>2. ProgressOf(d)
        BY DEF IInv, Progress
      <4> QED
        BY <2>0, <4>1, <4>2, Undisturbed
    <3>2. ASSUME item[c] \notin contended PROVE ProgressOf(c)'
      <4>1. temp[TempOf(c)] = Published(item[c]) \/ temp[TempOf(c)] = Spoiled
        BY <2>0, <3>2 DEF IInv, Progress, ProgressOf, Busy
      <4>2. temp[TempOf(c)] = Published(item[c]) \/ KindOf[item[c]] = "plain"
        BY <1>2 DEF Passes, HasIntegrity
      <4>3. item[c] \in Archives => KindOf[item[c]] # "plain"
        BY <1>0, Kinds
      <4>4. at'[c] = IF item[c] \in Archives THEN "clear" ELSE "rename"
        BY <2>0, SMT DEF IInv, Indexed
      <4> QED
        BY <2>0, <4>1, <4>2, <4>3, <4>4, SMT DEF ProgressOf, TempOf
    <3> QED
      BY <2>0, <3>1, <3>2 DEF Progress, ProgressOf
  <2>6. Whole'
    BY <2>0, SMT DEF IInv, Whole, AllNew
  <2>7. Wanting'
    BY <2>0, SMT DEF IInv, Wanting, Indexed, InPlace, ArchiveInstalled
  <2> QED
    BY <2>1, <2>2, <2>3, <2>4, <2>5, <2>6, <2>7 DEF IInv
<1> QED
  BY <1>1, <1>2

LEMMA RenameStep == ASSUME IInv, NEW c \in Commands, Rename(c) PROVE IInv'
<1>0. item[c] \in targets[c] /\ item[c] \in Files /\ TempOf(c) \in Temporaries
  BY Own DEF Rename, IInv, Targeted, Busy, TempOf
<1>1. CASE temp[TempOf(c)] = Absent
  <2>1. End(c, "error") /\ UNCHANGED <<fileVars, item, pos, served, disturbed, contended>>
    BY <1>1, Zenon DEF Rename, fileVars
  <2> QED
    BY <2>1, Ends
<1>2. CASE temp[TempOf(c)] # Absent
  <2>0. /\ at[c] = "rename" /\ at' = [at EXCEPT ![c] = "next"]
        /\ out' = [out EXCEPT ![item[c]] = temp[TempOf(c)]]
        /\ temp' = [temp EXCEPT ![TempOf(c)] = Absent]
        /\ handle' = [d \in Commands |-> IF handle[d] = OnTemp(c) THEN <<"out", item[c]>>
                                          ELSE IF handle[d] = <<"out", item[c]>> THEN NoFile
                                          ELSE handle[d]]
        /\ targets' = [targets EXCEPT ![c] = @ \ {item[c]}]
        /\ UNCHANGED <<unpacked, dir, marker, item, pos, served, result, disturbed, contended>>
    BY <1>2, Zenon DEF Rename, At
  <2>1. Indexed'
    BY <1>0, <2>0, SMT DEF IInv, Indexed, Places
  <2>2. Targeted'
    <3>1. ASSUME NEW d \in Commands
          PROVE  /\ at'[d] = IF d = c THEN "next" ELSE at[d]
                 /\ targets'[d] = IF d = c THEN targets[c] \ {item[c]} ELSE targets[d]
      BY <2>0, SMT DEF IInv, Indexed
    <3> QED
      BY <2>0, <3>1, SMT DEF IInv, Targeted, Busy
  <2>3. Apart'
    BY <2>0, SMT DEF IInv, Apart, Indexed
  <2>4. Handles'
    <3>1. ASSUME NEW d \in Commands, d # c, at[d] = "fetch", TempOf(d) = TempOf(c)
          PROVE  item[c] \in contended /\ item[d] \in contended
      BY <1>0, <2>0, <3>1 DEF IInv, Targeted, Busy, Apart, TempOf
    <3>2. ASSUME NEW d \in Commands PROVE at'[d] = IF d = c THEN "next" ELSE at[d]
      BY <2>0, SMT DEF IInv, Indexed
    <3>3. handle[c] = NoFile
      BY <2>0 DEF IInv, Handles
    <3>4. ASSUME NEW d \in Commands, at[d] # "fetch" PROVE handle'[d] = NoFile
      BY <2>0, <3>4, SMT DEF IInv, Handles, NoFile, OnTemp
    <3>5. ASSUME NEW d \in Commands, d # c, at[d] = "fetch"
          PROVE  \/ handle'[d] = <<"temp", TempOf(d)>>
                 \/ /\ item[d] \in contended
                    /\ handle'[d] = NoFile \/ \E f \in contended : handle'[d] = <<"out", f>>
      <4>1. CASE handle[d] = OnTemp(c)
        <5>1. handle'[d] = <<"out", item[c]>>
          BY <2>0, <4>1
        <5>2. TempOf(d) = TempOf(c)
          BY <3>5, <4>1, SMT DEF IInv, Handles, OnTemp, NoFile
        <5> QED
          BY <3>1, <3>5, <5>1, <5>2
      <4>2. CASE handle[d] # OnTemp(c) /\ handle[d] = <<"out", item[c]>>
        BY <2>0, <3>5, <4>2, SMT DEF IInv, Handles, OnTemp, NoFile
      <4>3. CASE handle[d] # OnTemp(c) /\ handle[d] # <<"out", item[c]>>
        BY <2>0, <3>5, <4>3 DEF IInv, Handles, OnTemp
      <4> QED
        BY <4>1, <4>2, <4>3
    <3> QED
      BY <2>0, <3>2, <3>4, <3>5, SMT DEF Handles, OnTemp, TempOf
  <2>5. Progress'
    <3>1. ASSUME NEW d \in Commands, d # c PROVE ProgressOf(d)'
      <4>1. /\ at'[d] = at[d]
            /\ Busy(d) /\ item[d] \notin contended => temp'[TempOf(d)] = temp[TempOf(d)]
        BY <1>0, <2>0, <3>1, Others, Own, SMT DEF IInv, Indexed, Targeted, Busy, TempOf
      <4>2. ProgressOf(d)
        BY DEF IInv, Progress
      <4> QED
        BY <2>0, <4>1, <4>2, Undisturbed
    <3>2. ~Busy(c)'
      BY <2>0, SMT DEF IInv, Indexed, Busy
    <3> QED
      BY <3>1, <3>2 DEF Progress, ProgressOf
  <2>6. \A f \in Files : out'[f] = IF f = item[c] THEN temp[TempOf(c)] ELSE out[f]
    BY <1>0, <2>0, SMT DEF IInv, Indexed
  <2>7. item[c] \notin contended => \/ temp[TempOf(c)] = Published(item[c])
                                    \/ temp[TempOf(c)] = Spoiled /\ KindOf[item[c]] = "plain"
    BY <2>0 DEF IInv, Progress, ProgressOf, Busy
  <2>8. Whole'
    BY <2>0, <2>6, <2>7, SMT DEF IInv, Whole, AllNew
  <2>9. Wanting'
    <3>1. ASSUME NEW d \in Commands, NEW f \in Wanted[d], f \notin contended, d # c
          PROVE  /\ targets'[d] = targets[d] /\ at'[d] = at[d]
                 /\ f \in targets[d] => f # item[c]
                 /\ f \in Files /\ f = item[c] => out[f] = Absent
      BY <1>0, <2>0, <3>1, Others, SMT DEF IInv, Indexed, Busy, Wanting, Targeted
    <3>2. ASSUME NEW f \in Wanted[c], f \notin contended
          PROVE  targets'[c] = targets[c] \ {item[c]} /\ at'[c] = "next"
      BY <2>0, SMT DEF IInv, Indexed
    <3>3. item[c] \notin contended => InPlace(item[c])'
      BY <1>0, <2>0, <2>6, <2>7, Kinds DEF InPlace, HasIntegrity
    <3>4. ASSUME NEW f \in Assets, f # item[c] PROVE InPlace(f)' = InPlace(f)
      BY <2>0, <2>6, <3>4, Kinds DEF InPlace, ArchiveInstalled
    <3>5. ASSUME NEW d \in Commands, NEW f \in Wanted[d], f \notin contended
          PROVE  /\ (f \in targets[d] /\ f \in Archives => marker[f] # "new")'
                 /\ (f \in targets[d] /\ f \in Files => out[f] = Absent)'
                 /\ (at[d] # "idle" /\ f \notin targets[d] => InPlace(f))'
      <4>0. f \in Assets
        BY Kinds
      <4>1. CASE d = c
        BY <2>0, <2>6, <3>2, <3>3, <3>4, <3>5, <4>0, <4>1 DEF IInv, Wanting
      <4>2. CASE d # c
        BY <2>0, <2>6, <3>1, <3>3, <3>4, <3>5, <4>0, <4>2 DEF IInv, Wanting
      <4> QED
        BY <4>1, <4>2
    <3> QED
      BY <2>0, <3>5 DEF Wanting
  <2> QED
    BY <2>1, <2>2, <2>3, <2>4, <2>5, <2>8, <2>9 DEF IInv
<1> QED
  BY <1>1, <1>2
\* Files in place stay as they are while a command works on an archive.
LEMMA ArchiveStep ==
  ASSUME IInv, NEW c \in Commands, item[c] \in Archives, Busy(c),
         UNCHANGED <<out, targets, item, contended>>,
         \A a \in Archives : a # item[c] => dir'[a] = dir[a] /\ marker'[a] = marker[a],
         item[c] \notin contended => marker'[item[c]] # "new",
         \A d \in Commands : at'[d] = "idle" <=> at[d] = "idle"
  PROVE  Whole' /\ Wanting'
<1>1. item[c] \in targets[c] /\ item[c] \in Assets /\ item[c] \notin Files
  BY Own, Kinds DEF IInv, Targeted
<1>2. Whole'
  BY <1>1, SMT DEF IInv, Whole, AllNew
<1>3. Wanting'
  <2>1. ASSUME NEW d \in Commands, NEW f \in Wanted[d], f \notin contended
        PROVE  /\ (f \in targets[d] /\ f \in Archives => marker[f] # "new")'
               /\ (f \in targets[d] /\ f \in Files => out[f] = Absent)'
               /\ (at[d] # "idle" /\ f \notin targets[d] => InPlace(f))'
    <3>1. /\ f \in targets[d] /\ f \in Archives => marker[f] # "new"
          /\ f \in targets[d] /\ f \in Files => out[f] = Absent
          /\ at[d] # "idle" /\ f \notin targets[d] => InPlace(f)
      BY <2>1 DEF IInv, Wanting
    <3>2. CASE f # item[c]
      BY <3>1, <3>2 DEF InPlace, ArchiveInstalled
    <3>3. CASE f = item[c]
      <4>1. marker[f] # "new"
        BY <1>1, <2>1, <3>3 DEF IInv, Wanting, Targeted
      <4> QED
        BY <1>1, <2>1, <3>1, <3>3, <4>1 DEF InPlace, ArchiveInstalled
    <3> QED
      BY <3>2, <3>3
  <2> QED
    BY <2>1 DEF Wanting
<1> QED
  BY <1>2, <1>3

LEMMA ClearStep == ASSUME IInv, NEW c \in Commands, Clear(c) PROVE IInv'
<1>0. /\ at[c] = "clear" /\ at' = [at EXCEPT ![c] = "unpack"]
      /\ unpacked' = [unpacked EXCEPT ![item[c]] = Nothing] /\ pos' = [pos EXCEPT ![c] = 1]
      /\ UNCHANGED <<temp, out, dir, marker, targets, item, handle, served, result,
                     disturbed, contended>>
      /\ item[c] \in targets[c] /\ item[c] \in Archives
  BY DEF Clear, At, IInv, Targeted, Busy
<1>1. Indexed'
  BY <1>0, SMT DEF IInv, Indexed, Places, Nothing
<1>2. \A d \in Commands : /\ at'[d] = IF d = c THEN "unpack" ELSE at[d]
                          /\ pos'[d] = IF d = c THEN 1 ELSE pos[d]
  BY <1>0, SMT DEF IInv, Indexed
<1>3. Targeted'
  BY <1>0, <1>2, Kinds, SMT DEF IInv, Targeted, Busy
<1>4. Apart' /\ Handles'
  BY <1>0, <1>2, SMT DEF IInv, Apart, Handles, OnTemp, TempOf
<1>5. Progress'
  <2>1. ASSUME NEW d \in Commands, d # c PROVE ProgressOf(d)'
    <3>1. Busy(d) /\ item[d] \notin contended => unpacked'[item[d]] = unpacked[item[d]]
      BY <1>0, <2>1, Others, SMT DEF IInv, Indexed, Targeted, Busy
    <3>2. ProgressOf(d) /\ at'[d] = at[d] /\ pos'[d] = pos[d]
      BY <1>2, <2>1 DEF IInv, Progress
    <3> QED
      BY <1>0, <2>1, <3>1, <3>2, Undisturbed
  <2>2. ProgressOf(c)'
    <3>1. ProgressOf(c)
      BY DEF IInv, Progress
    <3> QED
      BY <1>0, <1>2, <3>1, SMT DEF ProgressOf, Busy, TempOf
  <2> QED
    BY <2>1, <2>2 DEF Progress
<1>6. Whole' /\ Wanting'
  <2>1. item[c] \notin contended => marker[item[c]] # "new"
    BY <1>0 DEF IInv, Targeted, Wanting
  <2>2. \A d \in Commands : at'[d] = "idle" <=> at[d] = "idle"
    BY <1>0, <1>2
  <2> QED
    BY <1>0, <2>1, <2>2, ArchiveStep DEF Busy
<1> QED
  BY <1>1, <1>3, <1>4, <1>5, <1>6 DEF IInv

LEMMA UnpackStep == ASSUME IInv, NEW c \in Commands, Unpack(c) PROVE IInv'
<1>1. CASE temp[TempOf(c)] # Published(item[c])
  <2>1. End(c, "error") /\ UNCHANGED <<fileVars, item, pos, served, disturbed, contended>>
    BY <1>1, Zenon DEF Unpack, fileVars
  <2> QED
    BY <2>1, Ends
<1>2. CASE temp[TempOf(c)] = Published(item[c])
  <2>0. /\ at[c] = "unpack"
        /\ at' = [at EXCEPT ![c] = IF pos[c] = Entries THEN "replace" ELSE "unpack"]
        /\ unpacked' = [unpacked EXCEPT ![item[c]][pos[c]] = "new"]
        /\ pos' = [pos EXCEPT ![c] = @ + 1]
        /\ UNCHANGED <<temp, out, dir, marker, targets, item, handle, served, result,
                       disturbed, contended>>
        /\ item[c] \in targets[c] /\ item[c] \in Archives /\ pos[c] \in 1..Entries
    BY <1>2, Zenon DEF Unpack, At, IInv, Targeted, Busy
  <2>1. Indexed'
    BY <2>0, SMT DEF IInv, Indexed, Places
  <2>2. \A d \in Commands :
          /\ at'[d] = IF d = c THEN IF pos[c] = Entries THEN "replace" ELSE "unpack" ELSE at[d]
          /\ pos'[d] = IF d = c THEN pos[c] + 1 ELSE pos[d]
    BY <2>0, SMT DEF IInv, Indexed
  <2>3. Targeted'
    BY <2>0, <2>2, Kinds, SMT DEF IInv, Targeted, Busy
  <2>4. Apart' /\ Handles'
    BY <2>0, <2>2, SMT DEF IInv, Apart, Handles, OnTemp, TempOf
  <2>5. Progress'
    <3>1. ASSUME NEW d \in Commands, d # c PROVE ProgressOf(d)'
      <4>1. Busy(d) /\ item[d] \notin contended => unpacked'[item[d]] = unpacked[item[d]]
        BY <2>0, <3>1, Others, SMT DEF IInv, Indexed, Targeted, Busy
      <4>2. ProgressOf(d) /\ at'[d] = at[d] /\ pos'[d] = pos[d]
        BY <2>2, <3>1 DEF IInv, Progress
      <4> QED
        BY <2>0, <3>1, <4>1, <4>2, Undisturbed
    <3>2. ASSUME item[c] \notin contended PROVE ProgressOf(c)'
      <4>1. \A e \in 1..Entries : e < pos[c] => unpacked[item[c]][e] = "new"
        BY <2>0, <3>2 DEF IInv, Progress, ProgressOf, Busy
      <4>2. \A e \in 1..Entries : e < pos[c] + 1 => unpacked'[item[c]][e] = "new"
        BY <2>0, <4>1, Kinds, SMT DEF IInv, Indexed
      <4>3. pos[c] = Entries => \A e \in 1..Entries : unpacked'[item[c]][e] = "new"
        BY <4>2, Kinds, SMT
      <4> QED
        BY <1>2, <2>0, <2>2, <4>2, <4>3, SMT DEF ProgressOf, TempOf, AllNew
    <3> QED
      BY <2>0, <3>1, <3>2 DEF Progress, ProgressOf
  <2>6. Whole' /\ Wanting'
    <3>1. item[c] \notin contended => marker[item[c]] # "new"
      BY <2>0 DEF IInv, Targeted, Wanting
    <3>2. \A d \in Commands : at'[d] = "idle" <=> at[d] = "idle"
      BY <2>0, <2>2
    <3> QED
      BY <2>0, <3>1, <3>2, ArchiveStep DEF Busy
  <2> QED
    BY <2>1, <2>3, <2>4, <2>5, <2>6 DEF IInv
<1> QED
  BY <1>1, <1>2

LEMMA RemoveOldStep == ASSUME IInv, NEW c \in Commands, RemoveOld(c) PROVE IInv'
<1>0. /\ at[c] = "replace" /\ item[c] \in targets[c] /\ item[c] \in Archives
      /\ UNCHANGED <<temp, out, unpacked, at, targets, item, handle, pos, served, result, disturbed,
                     contended>>
  BY DEF RemoveOld, taskVars, IInv, Targeted, Busy
<1>1. /\ DOMAIN dir' = Archives /\ DOMAIN marker' = Archives
      /\ \A a \in Archives : /\ DOMAIN dir'[a] = DOMAIN dir[a]
                             /\ a # item[c] => dir'[a] = dir[a] /\ marker'[a] = marker[a]
      /\ marker'[item[c]] # "new" \/ marker'[item[c]] = marker[item[c]]
  <2>1. CASE \E e \in 1..Entries : dir' = [dir EXCEPT ![item[c]][e] = "none"] /\ UNCHANGED marker
    BY <2>1, SMT DEF IInv, Indexed
  <2>2. CASE marker' = [marker EXCEPT ![item[c]] = "none"] /\ UNCHANGED dir
    BY <1>0, <2>2, SMT DEF IInv, Indexed
  <2> QED
    BY <2>1, <2>2 DEF RemoveOld
<1>2. Indexed'
  BY <1>0, <1>1, SMT DEF IInv, Indexed
<1>3. Targeted' /\ Apart' /\ Handles'
  BY <1>0, SMT DEF IInv, Targeted, Apart, Handles, Busy, OnTemp, TempOf
<1>4. Progress'
  <2>1. ASSUME NEW d \in Commands PROVE ProgressOf(d)'
    <3>1. Busy(d) /\ item[d] \notin contended /\ at[d] \in {"cleanup", "mark"} =>
            dir'[item[d]] = dir[item[d]]
      BY <1>0, <1>1, <2>1, Others DEF IInv, Targeted, Busy
    <3>2. ProgressOf(d)
      BY DEF IInv, Progress
    <3> QED
      BY <1>0, <3>1, <3>2, Undisturbed
  <2> QED
    BY <2>1 DEF Progress
<1>5. Whole' /\ Wanting'
  <2>1. item[c] \notin contended => marker'[item[c]] # "new"
    BY <1>0, <1>1 DEF IInv, Targeted, Wanting
  <2> QED
    BY <1>0, <1>1, <2>1, ArchiveStep DEF Busy
<1> QED
  BY <1>2, <1>3, <1>4, <1>5 DEF IInv

LEMMA MoveInPlaceStep == ASSUME IInv, NEW c \in Commands, MoveInPlace(c) PROVE IInv'
<1>1. CASE unpacked[item[c]] = Nothing
  <2>1. End(c, "error") /\ UNCHANGED <<fileVars, item, pos, served, disturbed, contended>>
    BY <1>1, Zenon DEF MoveInPlace, fileVars
  <2> QED
    BY <2>1, Ends
<1>2. CASE unpacked[item[c]] # Nothing
  <2>0. /\ at[c] = "replace" /\ at' = [at EXCEPT ![c] = "cleanup"]
        /\ dir' = [dir EXCEPT ![item[c]] = unpacked[item[c]]]
        /\ unpacked' = [unpacked EXCEPT ![item[c]] = Nothing]
        /\ UNCHANGED <<temp, out, marker, targets, item, handle, pos, served, result,
                       disturbed, contended>>
        /\ item[c] \in targets[c] /\ item[c] \in Archives /\ marker[item[c]] = "none"
    BY <1>2, Zenon DEF MoveInPlace, At, IInv, Targeted, Busy
  <2>1. Indexed'
    BY <2>0, SMT DEF IInv, Indexed, Places, Nothing
  <2>2. /\ \A d \in Commands : at'[d] = IF d = c THEN "cleanup" ELSE at[d]
        /\ \A a \in Archives : /\ a # item[c] => dir'[a] = dir[a] /\ unpacked'[a] = unpacked[a]
                               /\ a = item[c] => dir'[a] = unpacked[a]
    BY <2>0, SMT DEF IInv, Indexed
  <2>3. Targeted'
    BY <2>0, <2>2, SMT DEF IInv, Targeted, Busy
  <2>4. Apart' /\ Handles'
    BY <2>0, <2>2, SMT DEF IInv, Apart, Handles, OnTemp, TempOf
  <2>5. Progress'
    <3>1. ASSUME NEW d \in Commands, d # c PROVE ProgressOf(d)'
      <4>1. Busy(d) /\ item[d] \notin contended =>
              /\ at[d] \in {"unpack", "replace"} => unpacked'[item[d]] = unpacked[item[d]]
              /\ at[d] \in {"cleanup", "mark"} => dir'[item[d]] = dir[item[d]]
        BY <2>0, <2>2, <3>1, Others DEF IInv, Targeted, Busy
      <4>2. ProgressOf(d) /\ at'[d] = at[d]
        BY <2>2, <3>1 DEF IInv, Progress
      <4> QED
        BY <2>0, <3>1, <4>1, <4>2, Undisturbed
    <3>2. ASSUME item[c] \notin contended PROVE ProgressOf(c)'
      <4>1. AllNew(unpacked[item[c]])
        BY <2>0, <3>2 DEF IInv, Progress, ProgressOf, Busy
      <4> QED
        BY <2>0, <2>2, <4>1, SMT DEF ProgressOf, AllNew
    <3> QED
      BY <2>0, <3>1, <3>2 DEF Progress, ProgressOf
  <2>6. Whole' /\ Wanting'
    BY <2>0, <2>2, ArchiveStep, Own DEF Busy
  <2> QED
    BY <2>1, <2>3, <2>4, <2>5, <2>6 DEF IInv
<1> QED
  BY <1>1, <1>2
LEMMA CleanupStep == ASSUME IInv, NEW c \in Commands, Cleanup(c) PROVE IInv'
<1>0. /\ at[c] = "cleanup" /\ at' = [at EXCEPT ![c] = "mark"]
      /\ temp' = [temp EXCEPT ![TempOf(c)] = Absent]
      /\ handle' = [d \in Commands |-> IF handle[d] = OnTemp(c) THEN NoFile ELSE handle[d]]
      /\ unpacked' = [unpacked EXCEPT ![item[c]] = Nothing]
      /\ UNCHANGED <<out, dir, marker, targets, item, pos, served, result, disturbed, contended>>
      /\ item[c] \in targets[c] /\ item[c] \in Archives /\ TempOf(c) \in Temporaries
  BY Kinds DEF Cleanup, At, Follow, TempOf, IInv, Targeted, Busy
<1>1. Indexed'
  BY <1>0, SMT DEF IInv, Indexed, Places, Nothing
<1>2. \A d \in Commands : at'[d] = IF d = c THEN "mark" ELSE at[d]
  BY <1>0, SMT DEF IInv, Indexed
<1>3. Targeted'
  BY <1>0, <1>2, SMT DEF IInv, Targeted, Busy
<1>4. Apart'
  BY <1>0, SMT DEF IInv, Apart
<1>5. Handles'
  <2>1. ASSUME NEW d \in Commands, d # c, at[d] = "fetch", handle[d] = OnTemp(c)
        PROVE  item[d] \in contended
    <3>1. TempOf(d) = TempOf(c)
      BY <2>1, SMT DEF IInv, Handles, OnTemp, NoFile
    <3> QED
      BY <1>0, <2>1, <3>1 DEF IInv, Targeted, Busy, Apart, TempOf
  <2> QED
    BY <1>0, <1>2, <2>1, SMT DEF IInv, Handles, OnTemp, TempOf, NoFile
<1>6. Progress'
  <2>1. ASSUME NEW d \in Commands, d # c PROVE ProgressOf(d)'
    <3>1. Busy(d) /\ item[d] \notin contended =>
            TempOf(d) # TempOf(c) /\ item[d] # item[c] /\ TempOf(d) \in Temporaries
      BY <1>0, <2>1, Others, Own DEF IInv, Targeted, Busy, TempOf
    <3>2. Busy(d) /\ item[d] \notin contended =>
            temp'[TempOf(d)] = temp[TempOf(d)] /\ unpacked'[item[d]] = unpacked[item[d]]
      BY <1>0, <3>1, SMT DEF IInv, Indexed
    <3>3. ProgressOf(d) /\ at'[d] = at[d]
      BY <1>2, <2>1 DEF IInv, Progress
    <3> QED
      BY <1>0, <3>2, <3>3, Undisturbed
  <2>2. ProgressOf(c)'
    <3>1. ProgressOf(c)
      BY DEF IInv, Progress
    <3> QED
      BY <1>0, <1>2, <3>1, SMT DEF ProgressOf, Busy, AllNew
  <2> QED
    BY <2>1, <2>2 DEF Progress
<1>7. Whole' /\ Wanting'
  <2>1. item[c] \notin contended => marker[item[c]] # "new"
    BY <1>0 DEF IInv, Targeted, Wanting
  <2>2. \A d \in Commands : at'[d] = "idle" <=> at[d] = "idle"
    BY <1>0, <1>2
  <2> QED
    BY <1>0, <2>1, <2>2, ArchiveStep DEF Busy
<1> QED
  BY <1>1, <1>3, <1>4, <1>5, <1>6, <1>7 DEF IInv

LEMMA MarkStep == ASSUME IInv, NEW c \in Commands, Mark(c) PROVE IInv'
<1>0. /\ at[c] = "mark" /\ at' = [at EXCEPT ![c] = "next"]
      /\ marker' = [marker EXCEPT ![item[c]] = "new"]
      /\ targets' = [targets EXCEPT ![c] = @ \ {item[c]}]
      /\ UNCHANGED <<temp, out, unpacked, dir, item, handle, pos, served, result,
                     disturbed, contended>>
      /\ item[c] \in targets[c] /\ item[c] \in Archives /\ item[c] \in Assets
  BY Kinds DEF Mark, At, IInv, Targeted, Busy
<1>1. Indexed'
  BY <1>0, SMT DEF IInv, Indexed, Places
<1>2. /\ \A d \in Commands : /\ at'[d] = IF d = c THEN "next" ELSE at[d]
                             /\ targets'[d] = IF d = c THEN targets[c] \ {item[c]} ELSE targets[d]
      /\ \A a \in Archives : marker'[a] = IF a = item[c] THEN "new" ELSE marker[a]
  BY <1>0, SMT DEF IInv, Indexed
<1>3. Targeted'
  BY <1>0, <1>2, SMT DEF IInv, Targeted, Busy
<1>4. Apart' /\ Handles'
  BY <1>0, <1>2, SMT DEF IInv, Apart, Handles, OnTemp, TempOf
<1>5. Progress'
  <2>1. ASSUME NEW d \in Commands, d # c PROVE ProgressOf(d)'
    <3>1. ProgressOf(d) /\ at'[d] = at[d]
      BY <1>2, <2>1 DEF IInv, Progress
    <3> QED
      BY <1>0, <3>1, Undisturbed
  <2>2. ~Busy(c)'
    BY <1>2 DEF Busy
  <2> QED
    BY <2>1, <2>2 DEF Progress, ProgressOf
<1>6. item[c] \notin contended => AllNew(dir[item[c]])
  BY <1>0 DEF IInv, Progress, ProgressOf, Busy
<1>7. Whole'
  BY <1>0, <1>2, <1>6, Kinds, SMT DEF IInv, Whole, AllNew
<1>8. Wanting'
  <2>1. ASSUME NEW d \in Commands, NEW f \in Wanted[d], f \notin contended
        PROVE  /\ (f \in targets[d] /\ f \in Archives => marker[f] # "new")'
               /\ (f \in targets[d] /\ f \in Files => out[f] = Absent)'
               /\ (at[d] # "idle" /\ f \notin targets[d] => InPlace(f))'
    <3>0. f \in Assets
      BY Kinds
    <3>1. /\ f \in targets[d] /\ f \in Archives => marker[f] # "new"
          /\ f \in targets[d] /\ f \in Files => out[f] = Absent
          /\ at[d] # "idle" /\ f \notin targets[d] => InPlace(f)
      BY <2>1 DEF IInv, Wanting
    <3>2. CASE f # item[c]
      <4>1. /\ f \in targets'[d] <=> f \in targets[d]
            /\ at'[d] = "idle" <=> at[d] = "idle"
        BY <1>0, <1>2, <3>2
      <4> QED
        BY <1>0, <1>2, <3>0, <3>1, <3>2, <4>1, Kinds DEF InPlace, ArchiveInstalled
    <3>3. CASE f = item[c]
      <4>1. f \notin targets'[d]
        BY <1>0, <1>2, <2>1, <3>3, Others DEF Busy
      <4>2. InPlace(f)'
        BY <1>0, <1>2, <1>6, <2>1, <3>3, DownloadAssumption, SMT
           DEF InPlace, ArchiveInstalled, AllNew
      <4> QED
        BY <4>1, <4>2
    <3> QED
      BY <3>2, <3>3
  <2> QED
    BY <1>0, <2>1 DEF Wanting
<1> QED
  BY <1>1, <1>3, <1>4, <1>5, <1>7, <1>8 DEF IInv

LEMMA CrashStep == ASSUME IInv, Crash PROVE IInv'
<1>0. /\ at' = [c \in Commands |-> "idle"] /\ targets' = [c \in Commands |-> {}]
      /\ handle' = [c \in Commands |-> NoFile] /\ DOMAIN result' = Commands
      /\ UNCHANGED <<fileVars, item, pos, served, disturbed, contended>>
  BY DEF Crash
<1> USE DEF fileVars
<1>1. Indexed'
  BY <1>0, SMT DEF IInv, Indexed, Places
<1>2. Targeted' /\ Apart' /\ Handles'
  BY <1>0, SMT DEF Targeted, Apart, Handles, Busy
<1>3. Progress'
  BY <1>0, SMT DEF Progress, ProgressOf, Busy
<1>4. Whole'
  BY <1>0, SMT DEF IInv, Whole, AllNew
<1>5. Wanting'
  BY <1>0, SMT DEF Wanting
<1> QED
  BY <1>1, <1>2, <1>3, <1>4, <1>5 DEF IInv
LEMMA StartStep == ASSUME IInv, NEW c \in Commands, Start(c) PROVE IInv'
<1> DEFINE missing == {f \in Wanted[c] : IsMissing(f)}
           removed == {f \in missing : KindOf[f] = "verified"}
<1>0. /\ at[c] = "idle" /\ at' = [at EXCEPT ![c] = "next"]
      /\ targets' = [targets EXCEPT ![c] = missing]
      /\ out' = [f \in Files |-> IF f \in removed THEN Absent ELSE out[f]]
      /\ handle' = [d \in Commands |->
                      IF \E f \in removed : handle[d] = <<"out", f>> THEN NoFile ELSE handle[d]]
      /\ result' = [result EXCEPT ![c] = "none"] /\ disturbed' = [disturbed EXCEPT ![c] = FALSE]
      /\ UNCHANGED <<temp, unpacked, dir, marker, item, pos, served>>
  BY DEF Start, At
<1>1. /\ contended \subseteq contended'
      /\ \A f \in missing, d \in Commands \ {c} : \A g \in targets[d] :
           Temporary[f] = Temporary[g] => f \in contended' /\ g \in contended'
  <2>1. contended' = contended
              \union {f \in missing : \E d \in Commands \ {c} :
                                       \E g \in targets[d] : Temporary[f] = Temporary[g]}
              \union {g \in UNION {targets[d] : d \in Commands \ {c}} :
                        \E f \in missing : Temporary[f] = Temporary[g]}
    BY DEF Start
  <2> HIDE DEF missing
  <2> QED
    BY <2>1
<1>2. missing \subseteq Wanted[c] /\ missing \subseteq Assets
  BY Kinds
<1>3. ASSUME NEW f \in Files
      PROVE  /\ f \in removed => out'[f] = Absent /\ KindOf[f] = "verified" /\ out[f] # Published(f)
             /\ f \notin removed => out'[f] = out[f]
  BY <1>0, Zenon DEF IsMissing, FileIsMissingOrCorrupt
<1>4. ASSUME NEW f \in Wanted[c], f \notin contended
      PROVE  /\ f \in missing /\ f \in Archives => marker[f] # "new"
             /\ f \in missing /\ f \in Files => out'[f] = Absent
             /\ f \notin missing => InPlace(f)'
  <2>0. /\ f \in Assets /\ (f \in Archives <=> KindOf[f] = "archive")
        /\ (f \in Archives \/ f \in Files)
        /\ KindOf[f] \in {"plain", "pinned", "verified", "archive"}
        /\ ~(f \in Archives /\ f \in Files)
    BY Kinds, DownloadAssumption
  <2>1. CASE f \in Archives
    <3>1. IsMissing(f) <=> ~ArchiveInstalled(f)
      BY <2>0, <2>1 DEF IsMissing, ArchiveIsMissing
    <3>2. marker[f] = "new" => AllNew(dir[f])
      BY <1>4, <2>0, <2>1 DEF IInv, Whole
    <3>3. marker[f] = "new" => ArchiveInstalled(f)
      BY <3>2, DownloadAssumption, SMT DEF ArchiveInstalled, AllNew
    <3> QED
      BY <1>0, <2>0, <2>1, <3>1, <3>2, <3>3 DEF InPlace, ArchiveInstalled, AllNew
  <2>2. CASE f \in Files
    <3>1. \/ out[f] = Absent \/ out[f] = Published(f)
          \/ out[f] = Spoiled /\ KindOf[f] \in {"plain", "verified"}
      BY <1>4, <2>0, <2>2 DEF IInv, Whole
    <3>2. CASE KindOf[f] = "verified"
      BY <1>3, <2>0, <2>2, <3>1, <3>2 DEF IsMissing, FileIsMissingOrCorrupt, InPlace
    <3>3. CASE KindOf[f] \in {"plain", "pinned"}
      <4>1. (IsMissing(f) <=> out[f] = Absent) /\ f \notin removed
        BY <3>3 DEF IsMissing, FileIsMissing
      <4> QED
        BY <1>3, <2>0, <2>2, <3>1, <3>3, <4>1 DEF InPlace, HasIntegrity
    <3> QED
      BY <2>0, <2>2, <3>2, <3>3
  <2> QED
    BY <2>0, <2>1, <2>2
<1> HIDE DEF missing, removed
<1>5. \A d \in Commands : /\ at'[d] = IF d = c THEN "next" ELSE at[d]
                          /\ targets'[d] = IF d = c THEN missing ELSE targets[d]
                          /\ d # c => disturbed'[d] = disturbed[d]
  <2>1. DOMAIN at = Commands /\ DOMAIN targets = Commands /\ DOMAIN disturbed = Commands
    BY DEF IInv, Indexed
  <2>2. /\ at' = [at EXCEPT ![c] = "next"] /\ targets' = [targets EXCEPT ![c] = missing]
        /\ disturbed' = [disturbed EXCEPT ![c] = FALSE]
    BY <1>0
  <2> QED
    BY <2>1, <2>2, Zenon
<1>6. Indexed'
  BY <1>0, <1>2, SMT DEF IInv, Indexed, Places
<1>7. Targeted'
  <2>1. ASSUME NEW d \in Commands
        PROVE  /\ d # c => targets'[d] = targets[d] /\ at'[d] = at[d]
               /\ d = c => targets'[d] \subseteq Wanted[d] /\ at'[d] = "next"
    BY <1>2, <1>5
  <2>2. UNCHANGED <<item, pos>>
    BY <1>0
  <2> QED
    BY <2>1, <2>2, SMT DEF IInv, Targeted, Busy
<1>8. Apart'
  <2>1. ASSUME NEW d \in Commands, NEW e \in Commands, d # e,
               NEW f \in targets'[d], NEW g \in targets'[e], Temporary[f] = Temporary[g]
        PROVE  f \in contended' /\ g \in contended'
    <3>1. CASE d = c
      BY <1>1, <1>5, <2>1, <3>1
    <3>2. CASE e = c
      BY <1>1, <1>5, <2>1, <3>2
    <3>3. CASE d # c /\ e # c
      BY <1>1, <1>5, <2>1, <3>3 DEF IInv, Apart
    <3> QED
      BY <3>1, <3>2, <3>3
  <2> QED
    BY <2>1 DEF Apart
<1>9. Handles'
  <2>1. handle[c] = NoFile
    BY <1>0 DEF IInv, Handles
  <2>2. ASSUME NEW d \in Commands, at[d] # "fetch" PROVE handle'[d] = NoFile
    BY <1>0, <2>2 DEF IInv, Handles
  <2>3. ASSUME NEW d \in Commands, d # c, at[d] = "fetch"
        PROVE  \/ handle'[d] = <<"temp", TempOf(d)>>
               \/ /\ item[d] \in contended
                  /\ handle'[d] = NoFile \/ \E f \in contended : handle'[d] = <<"out", f>>
    <3>1. handle[d] = OnTemp(d) => handle'[d] = OnTemp(d)
      BY <1>0, SMT DEF OnTemp
    <3>2. handle'[d] = NoFile \/ handle'[d] = handle[d]
      BY <1>0
    <3> QED
      BY <2>3, <3>1, <3>2 DEF IInv, Handles, OnTemp
  <2> QED
    BY <1>0, <1>1, <1>5, <2>1, <2>2, <2>3, SMT DEF Handles, OnTemp, TempOf
<1>10. Progress'
  <2>1. ASSUME NEW d \in Commands, d # c PROVE ProgressOf(d)'
    <3>1. ProgressOf(d) /\ at'[d] = at[d] /\ disturbed'[d] = disturbed[d]
      BY <1>5, <2>1 DEF IInv, Progress
    <3> QED
      BY <1>0, <1>1, <3>1, Undisturbed
  <2>2. ~Busy(c)'
    BY <1>5 DEF Busy
  <2> QED
    BY <2>1, <2>2 DEF Progress, ProgressOf
<1>11. Whole'
  BY <1>0, <1>1, <1>3, SMT DEF IInv, Whole, AllNew
<1>12. Wanting'
  <2>1. ASSUME NEW d \in Commands, NEW f \in Wanted[d], f \notin contended'
        PROVE  /\ (f \in targets[d] /\ f \in Archives => marker[f] # "new")'
               /\ (f \in targets[d] /\ f \in Files => out[f] = Absent)'
               /\ (at[d] # "idle" /\ f \notin targets[d] => InPlace(f))'
    <3>0. f \notin contended /\ f \in Assets
      BY <1>1, <2>1, Kinds
    <3>1. CASE d = c
      <4>1. targets'[c] = missing
        BY <1>5
      <4> QED
        BY <1>0, <1>4, <3>0, <3>1, <4>1
    <3>2. CASE d # c
      <4>1. /\ f \in targets[d] /\ f \in Archives => marker[f] # "new"
            /\ f \in targets[d] /\ f \in Files => out[f] = Absent
            /\ at[d] # "idle" /\ f \notin targets[d] => InPlace(f)
        BY <2>1, <3>0 DEF IInv, Wanting
      <4>2. InPlace(f) => InPlace(f)'
        BY <1>0, <1>3, <3>0, Kinds DEF InPlace, ArchiveInstalled, HasIntegrity
      <4> QED
        BY <1>0, <1>3, <1>5, <3>2, <4>1, <4>2
    <3> QED
      BY <3>1, <3>2
  <2> QED
    BY <2>1 DEF Wanting
<1> QED
  BY <1>6, <1>7, <1>8, <1>9, <1>10, <1>11, <1>12 DEF IInv

LEMMA Stepwise == IInv /\ [Next]_vars => IInv'
<1> SUFFICES ASSUME IInv, [Next]_vars PROVE IInv'
  OBVIOUS
<1>1. ASSUME NEW c \in Commands, Finish(c) PROVE IInv'
  BY <1>1, Ends DEF Finish
<1>2. ASSUME NEW c \in Commands, Fail(c) PROVE IInv'
  BY <1>2, Ends DEF Fail
<1>3. CASE UNCHANGED vars
  <2> USE <1>3 DEF vars, fileVars, taskVars
  <2>1. Indexed' /\ Targeted' /\ Apart' /\ Handles' /\ Whole'
    BY SMT DEF IInv, Indexed, Targeted, Apart, Handles, Whole, Busy, OnTemp, TempOf, AllNew
  <2>2. ASSUME NEW d \in Commands PROVE ProgressOf(d)'
    <3>1. ProgressOf(d)
      BY DEF IInv, Progress
    <3> QED
      BY <3>1, Undisturbed
  <2>3. Wanting'
    BY DEF IInv, Wanting, InPlace, ArchiveInstalled
  <2> QED
    BY <2>1, <2>2, <2>3 DEF IInv, Progress
<1> QED
  BY <1>1, <1>2, <1>3, StartStep, NextTargetStep, RequestStep, FetchStep, VerifyStep, RenameStep,
     ClearStep, UnpackStep, RemoveOldStep, MoveInPlaceStep, CleanupStep, MarkStep,
     CrashStep DEF Next

LEMMA Invariance == Spec => []IInv
BY Initially, Stepwise, PTL DEF Spec

-----------------------------------------------------------------------------
(* What follows *)

(***************************************************************************)
(* What asr_model_installed_for and the file checks call installed is      *)
(* whole after any failures and crashes.                                   *)
(***************************************************************************)
THEOREM InstalledIsWholeAlways == Spec => []InstalledIsWhole
<1>1. ASSUME IInv, NEW f \in Assets \ contended, Installed(f)
      PROVE  InPlace(f) \/ (KindOf[f] = "verified" /\ out[f] = Spoiled)
  <2>1. CASE f \in Archives
    BY <1>1, <2>1 DEF IInv, Whole, Installed, ArchiveInstalled, InPlace, AllNew
  <2>2. CASE f \in Files
    BY <1>1, <2>2, Kinds DEF IInv, Whole, Installed, InPlace, HasIntegrity
  <2> QED
    BY <2>1, <2>2, Kinds
<1>2. IInv => InstalledIsWhole
  BY <1>1 DEF InstalledIsWhole
<1> QED
  BY <1>2, Invariance, PTL

(***************************************************************************)
(* A command that reports success has everything in place, and one that    *)
(* met no failure reports success, whatever earlier ones left behind.      *)
(***************************************************************************)
THEOREM CommandOutcomeAlways == Spec => CommandOutcome
<1>1. ASSUME IInv, Next, NEW c \in Commands, at[c] # "idle", at'[c] = "idle",
             Wanted[c] \intersect contended = {}
      PROVE  /\ result'[c] = "ok" => \A f \in Wanted[c] : InPlace(f)'
             /\ result'[c] = "error" => disturbed'[c]
  <2>0. DOMAIN at = Commands /\ DOMAIN result = Commands /\ DOMAIN disturbed = Commands
    BY <1>1 DEF IInv, Indexed
  <2>1. Busy(c) => item[c] \in Assets /\ item[c] \notin contended
    BY <1>1, Kinds DEF IInv, Targeted
  <2>2. ASSUME NEW d \in Commands,
               Start(d) \/ NextTarget(d) \/ Request(d) \/ Fetch(d) \/ Clear(d) \/ RemoveOld(d)
                 \/ Cleanup(d) \/ Mark(d)
        PROVE  FALSE
    <3>1. \/ UNCHANGED at
          \/ \E place \in Places \ {"idle"} : at' = [at EXCEPT ![d] = place]
      <4>1. CASE Start(d) \/ Request(d) \/ Clear(d) \/ Cleanup(d) \/ Mark(d)
        BY <4>1 DEF Start, Request, Clear, Cleanup, Mark, At, Places
      <4>2. CASE NextTarget(d)
        BY <4>2 DEF NextTarget, At, Places
      <4>3. CASE Fetch(d) \/ RemoveOld(d)
        BY <4>3 DEF Fetch, RemoveOld, At, Places, taskVars
      <4> QED
        BY <2>2, <4>1, <4>2, <4>3
    <3> QED
      BY <1>1, <2>0, <3>1
  <2>3. ASSUME NEW d \in Commands, NEW how, at' = [at EXCEPT ![d] = how] PROVE d = c
    BY <1>1, <2>0, <2>3
  <2>4. ASSUME NEW d \in Commands, NEW how, End(d, how) PROVE d = c /\ result'[c] = how
    BY <1>1, <2>0, <2>4 DEF End, At
  <2>5. ASSUME NEW d \in Commands, Verify(d)
        PROVE  result'[c] = "error" /\ disturbed'[c]
    <3>1. /\ at[d] = "verify" /\ ~Passes(item[d], temp[TempOf(d)]) /\ End(d, "error")
          /\ UNCHANGED disturbed
      BY <1>1, <2>0, <2>5, SMT DEF Verify, At
    <3>2. d = c /\ result'[c] = "error"
      BY <2>4, <3>1
    <3>3. temp[TempOf(c)] # Published(item[c])
      BY <3>1, <3>2 DEF Passes
    <3> QED
      BY <1>1, <2>1, <3>1, <3>2, <3>3 DEF IInv, Progress, ProgressOf, Busy
  <2>6. ASSUME NEW d \in Commands, Rename(d) PROVE FALSE
    <3>1. at[d] = "rename" /\ temp[TempOf(d)] = Absent /\ End(d, "error")
      BY <1>1, <2>0, <2>6, SMT DEF Rename, At
    <3>2. d = c
      BY <2>4, <3>1
    <3> QED
      BY <1>1, <2>1, <3>1, <3>2, Contents DEF IInv, Progress, ProgressOf, Busy
  <2>7. ASSUME NEW d \in Commands, Unpack(d) PROVE FALSE
    <3>1. at[d] = "unpack" /\ temp[TempOf(d)] # Published(item[d]) /\ End(d, "error")
      BY <1>1, <2>0, <2>7, SMT DEF Unpack, At
    <3>2. d = c
      BY <2>4, <3>1
    <3> QED
      BY <1>1, <2>1, <3>1, <3>2 DEF IInv, Progress, ProgressOf, Busy
  <2>8. ASSUME NEW d \in Commands, MoveInPlace(d) PROVE FALSE
    <3>1. at[d] = "replace" /\ unpacked[item[d]] = Nothing /\ End(d, "error")
      BY <1>1, <2>0, <2>8, SMT DEF MoveInPlace, At
    <3>2. d = c
      BY <2>4, <3>1
    <3>3. AllNew(unpacked[item[c]])
      BY <1>1, <2>1, <3>1, <3>2 DEF IInv, Progress, ProgressOf, Busy
    <3> QED
      BY <3>1, <3>2, <3>3, Kinds, SMT DEF AllNew, Nothing
  <2>9. ASSUME NEW d \in Commands, Finish(d)
        PROVE  result'[c] = "ok" /\ \A f \in Wanted[c] : InPlace(f)'
    <3>1. d = c /\ result'[c] = "ok" /\ targets[c] = {} /\ UNCHANGED fileVars
      BY <2>4, <2>9 DEF Finish
    <3>2. \A f \in Wanted[c] : InPlace(f)
      BY <1>1, <3>1 DEF IInv, Wanting
    <3> QED
      BY <3>1, <3>2 DEF InPlace, ArchiveInstalled, fileVars
  <2>10. ASSUME NEW d \in Commands, Fail(d) PROVE result'[c] = "error" /\ disturbed'[c]
    BY <2>0, <2>4, <2>10 DEF Fail
  <2>11. CASE Crash
    BY <1>1, <2>11 DEF Crash
  <2> QED
    BY <1>1, <2>2, <2>5, <2>6, <2>7, <2>8, <2>9, <2>10, <2>11 DEF Next
<1>2. IInv /\ [Next]_vars =>
        [\A c \in Commands :
           (at[c] # "idle" /\ at'[c] = "idle" /\ Wanted[c] \intersect contended = {}) =>
              /\ result'[c] = "ok" => \A f \in Wanted[c] : InPlace(f)'
              /\ result'[c] = "error" => disturbed'[c]]_vars
  BY <1>1
<1> QED
  BY <1>2, Invariance, PTL DEF Spec, CommandOutcome
(***************************************************************************)
(* A complete archive in a temporary path is not given up before it is     *)
(* unpacked in place.                                                      *)
(***************************************************************************)
THEOREM ArchiveIsKeptAlways == Spec => ArchiveIsKept
<1>1. ASSUME IInv, Next, NEW a \in Archives \ contended,
             temp[Temporary[a]] = Published(a), temp'[Temporary[a]] # Published(a)
      PROVE  \A e \in 1..Entries : dir'[a][e] = "new"
  <2>0. /\ a \in Assets /\ a \notin Files /\ Temporary[a] \in Temporaries
        /\ DOMAIN temp = Temporaries
        /\ \A f \in Assets : Temporary[f] = Temporary[a] => f = a
    BY <1>1, Kinds, DownloadAssumption DEF IInv, Indexed
  <2>1. ASSUME NEW c \in Commands, Busy(c), TempOf(c) = Temporary[a] PROVE item[c] = a
    BY <1>1, <2>0, <2>1, Kinds DEF IInv, Targeted, TempOf
  <2>2. ASSUME UNCHANGED temp PROVE FALSE
    BY <1>1, <2>2
  <2>3. ASSUME NEW c \in Commands, NEW new, temp' = [temp EXCEPT ![TempOf(c)] = new], Busy(c)
        PROVE  item[c] = a
    <3>1. TempOf(c) = Temporary[a]
      BY <1>1, <2>0, <2>3, SMT
    <3> QED
      BY <2>1, <2>3, <3>1
  <2>4. ASSUME NEW c \in Commands, NextTarget(c) PROVE FALSE
    <3>1. PICK f \in targets[c] :
             \/ UNCHANGED temp
             \/ f \in Archives /\ ~Usable(f) /\ temp' = [temp EXCEPT ![Temporary[f]] = Absent]
      BY <2>4 DEF NextTarget
    <3>2. f \in Assets
      BY <1>1, Own
    <3>3. Temporary[f] = Temporary[a]
      BY <1>1, <2>0, <3>1, SMT
    <3> QED
      BY <1>1, <2>0, <2>2, <3>1, <3>2, <3>3 DEF Usable
  <2>5. ASSUME NEW c \in Commands, Request(c) PROVE FALSE
    <3>1. at[c] = "request" /\ item[c] = a
      BY <2>3, <2>5 DEF Request, Busy
    <3>2. temp[Temporary[a]] = Absent
      BY <1>1, <3>1 DEF IInv, Progress, ProgressOf, Busy, TempOf
    <3> QED
      BY <1>1, <2>0, <3>2, Contents
  <2>6. ASSUME NEW c \in Commands, Fetch(c) PROVE FALSE
    <3>1. /\ at[c] = "fetch" /\ handle[c] = <<"temp", Temporary[a]>>
      BY <1>1, <2>0, <2>6 DEF Fetch
    <3>2. TempOf(c) = Temporary[a]
      BY <1>1, <3>1, SMT DEF IInv, Handles, OnTemp, NoFile
    <3>3. item[c] = a
      BY <2>1, <3>1, <3>2 DEF Busy
    <3>4. /\ served[c] = a \/ served[c] = "bad"
          /\ temp[Temporary[a]] = Partial(served[c], pos[c])
          /\ pos[c] \in 1..Chunks
      BY <1>1, <3>1, <3>2, <3>3 DEF IInv, Progress, ProgressOf, Busy, Targeted
    <3> QED
      BY <1>1, <2>0, <3>4, Contents
  <2>7. ASSUME NEW c \in Commands, Rename(c) PROVE FALSE
    <3>1. at[c] = "rename" /\ item[c] \in Files
      BY <1>1, <2>7 DEF Rename, IInv, Targeted
    <3>2. UNCHANGED temp \/ temp' = [temp EXCEPT ![TempOf(c)] = Absent]
      BY <2>7 DEF Rename
    <3> QED
      BY <2>0, <2>2, <2>3, <3>1, <3>2 DEF Busy
  <2>8. ASSUME NEW c \in Commands, Cleanup(c) PROVE \A e \in 1..Entries : dir'[a][e] = "new"
    <3>1. at[c] = "cleanup" /\ item[c] = a /\ UNCHANGED dir
      BY <2>3, <2>8 DEF Cleanup, Busy
    <3> QED
      BY <1>1, <3>1 DEF IInv, Progress, ProgressOf, Busy, AllNew
  <2> QED
    BY <1>1, <2>2, <2>4, <2>5, <2>6, <2>7, <2>8
       DEF Next, Start, Verify, Clear, Unpack, RemoveOld, MoveInPlace, Mark, Finish,
           Fail, Crash, fileVars
<1>2. IInv /\ [Next]_vars =>
        [\A a \in Archives \ contended :
           (temp[Temporary[a]] = Published(a) /\ temp'[Temporary[a]] # Published(a)) =>
              \A e \in 1..Entries : dir'[a][e] = "new"]_vars
  BY <1>1
<1> QED
  BY <1>2, Invariance, PTL DEF Spec, ArchiveIsKept
=============================================================================
