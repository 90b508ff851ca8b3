---------------------- MODULE CheckpointPublicationProofs ----------------------
(***************************************************************************)
(* Proofs about CheckpointPublication, for every number of saves, of       *)
(* faults and of crashes: the safety invariants that its runs check, and   *)
(* that a checkpoint name is the slot of CheckpointSlot.                   *)
(*                                                                         *)
(* The names that a power failure may leave are a set, onDisk, and so the  *)
(* invariant speaks of all of them.  Shows(d) is what a recovery that      *)
(* finds the names d can take for the checkpoint: the canonical package,   *)
(* or every aside when there is none.  Promised and Whether say that       *)
(* whatever is shown is a save that may be the checkpoint, that something  *)
(* is shown once a save has returned Ok, and that it is whole and alone.   *)
(* Laid, Lost and Filled say where the packages of the running save lie in *)
(* the names it reads, in those that may be left, and what is in them.     *)
(*                                                                         *)
(* A step of the ordinary writer either adds names that show what was      *)
(* shown or one whole package (DiskKeeps), or destroys a package that      *)
(* nothing shows (RemovedIsUnshown).  The continuation writer uses only    *)
(* the canonical name; its invariant is ContinuationInv.                   *)
(***************************************************************************)
EXTENDS CheckpointPublication, WellFoundedInduction, TLAPS

Ordinary == \A i \in Saves : kind[i] = "ordinary"
Continued == \A i \in Saves : kind[i] = "continuation"

\* Has a save returned Ok?
Acked == \E i \in Saves : outcome[i] = "ok"
\* When the visible packages are whole.
Safe == faults = 0 \/ Acked
\* A power failure would change no name.
Alone == onDisk = {names}

OldNames == {Old(i) : i \in Saves}
\* The asides in d, and what a recovery that finds d can take for the checkpoint.
Stored(d) == {e \in OldNames : d[e] # 0}
Shows(d) == IF d[Canon] # 0 THEN {d[Canon]} ELSE {d[e] : e \in Stored(d)}

\* Save i may be the checkpoint: it began, it did not fail, and none after it succeeded.
May(i) == /\ i \in Saves /\ pc[i] # "new" /\ outcome[i] # "error"
          /\ \A j \in Saves : outcome[j] = "ok" => j <= i

(***************************************************************************)
(* What holds of both writers.                                             *)
(***************************************************************************)
Entries == names \in onDisk /\ onDisk \subseteq [Names -> 0..MaxSaves]
Packs ==
  /\ content \in [Saves -> Contents] /\ kept \in [Saves -> SUBSET Contents]
  /\ \A i \in Saves : content[i] \in kept[i]
Control ==
  /\ pc = [i \in Saves |-> pc[i]] /\ had = [i \in Saves |-> had[i]]
  /\ outcome = [i \in Saves |-> outcome[i]]
  /\ faults \in Nat /\ lock \in 0..MaxSaves

\* One save runs at a time; the saves begin in order.
Turns ==
  \A i \in Saves :
    /\ Running(i) => lock = i
    /\ pc[i] # "done" => outcome[i] = "none"
    /\ \A j \in Saves : i < j => /\ pc[i] = "new" => pc[j] = "new"
                                 /\ Running(i) => pc[j] = "new" \/ outcome[j] = "error"

\* Whatever a recovery can find is a save that may be the checkpoint, and it finds one once a save has returned Ok.
Promised ==
  /\ \A d \in onDisk : \A v \in Shows(d) : May(v)
  /\ Acked => \A d \in onDisk : Shows(d) # {}
  /\ Safe => \A d \in onDisk : \A v \in Shows(d) : "hollow" \notin kept[v]

(***************************************************************************)
(* The ordinary writer.                                                    *)
(***************************************************************************)
\* The labels of the writer, by what has happened to the package of the save.
Early == {"new", "reconcile", "fence", "sweep", "stage"}
Staging == {"staged", "write", "fenceStage", "aside", "untouched", "restored", "undone", "scrap"}
Moved == {"fenceAside", "restore"}
Visible == {"fenceNew", "fenceReported", "unpublish"}
Labels == Early \cup Staging \cup Moved \cup Visible
            \cup {"publish", "unpublished", "cleanup", "cleaned", "scrapped", "done"}

\* ... by what is durable, and by what has failed.
Sealed == {"aside", "fenceAside", "publish", "fenceNew", "fenceReported", "cleanup", "cleaned"}
Synced == {"write", "fenceStage", "aside", "publish", "scrap", "untouched", "undone", "cleanup"}
Undoing == {"untouched", "restore", "restored", "undone", "unpublish", "unpublished",
            "fenceReported", "scrap", "scrapped"}

\* A package has one name, or two of which one is the canonical name.
Located ==
  /\ \A d \in onDisk : \A e, f \in Names : d[e] = d[f] /\ d[e] # 0 => e = f
  /\ \A c, d \in onDisk : \A e, f \in Names : c[e] = d[f] /\ c[e] # 0 => e = f \/ Canon \in {e, f}

Absent(i) == \A d \in onDisk : \A e \in Names : d[e] # i
Hid(i) == \A d \in onDisk : \A e \in OldNames \cup {Canon} : d[e] # i

\* Where the packages lie in the names that the running save reads.
Laid(i) ==
  /\ pc[i] = "stage" => Hidden = {}
  /\ pc[i] = "sweep" /\ names[Canon] = 0 => Asides = {}
  /\ pc[i] \in Staging => names[Tmp(i)] = i /\ Hidden = {Tmp(i)}
  /\ pc[i] \in {"fence", "aside", "untouched", "restored"} => names[Canon] # 0
  /\ pc[i] \in {"aside"} \cup Moved => had[i]
  /\ pc[i] \in Moved => names[Canon] = 0 /\ names[Tmp(i)] = i /\ Hidden = {Tmp(i), Old(i)}
  /\ pc[i] \in {"publish", "unpublished"} =>
       /\ names[Canon] = 0 /\ names[Tmp(i)] = i
       /\ Hidden = IF had[i] THEN {Tmp(i), Old(i)} ELSE {Tmp(i)}
  /\ pc[i] \in Visible => names[Canon] = i /\ Hidden = IF had[i] THEN {Old(i)} ELSE {}
  /\ pc[i] = "cleanup" => names[Canon] = i /\ Hidden = {Old(i)}

\* ... and in those that a power failure may leave.
Lost(i) ==
  /\ pc[i] \in Early => Absent(i)
  /\ pc[i] \in {"staged", "scrapped"} => Hid(i)
  /\ pc[i] \in Synced => Alone
  /\ pc[i] = "sweep" /\ names[Canon] # 0 => \A d \in onDisk : d[Canon] = names[Canon]
  /\ pc[i] \in {"cleanup", "cleaned"} => \A d \in onDisk : d[Canon] = i
  /\ pc[i] \in Visible \cup {"unpublished"} => \A d \in onDisk : \A e \in OldNames : d[e] = names[e]
  /\ pc[i] \in Visible => \A d \in onDisk : \A e \in Names : d[e] = i => e \in {Tmp(i), Canon}

\* The prior package, under its aside.
Prior(i) == \E p \in Saves : names[Old(i)] = p /\ May(p) /\ (Safe => kept[p] = {"whole"})

\* What is in the package of the save, and in the prior one.
Filled(i) ==
  /\ pc[i] \in Sealed => kept[i] = {"whole"}
  /\ pc[i] = "fenceStage" => content[i] = "whole"
  /\ pc[i] \in Undoing => faults > 0
  /\ pc[i] \in Visible \cup {"publish", "unpublished"} =>
       /\ Acked => had[i]
       /\ had[i] => Prior(i)

\* With every name that may be left: one checkpoint, whole.
Whether ==
  Safe => /\ \A d \in onDisk : \A v \in Shows(d) : kept[v] = {"whole"}
          /\ \A d \in onDisk : d[Canon] = 0 => \A e, f \in Stored(d) : e = f
          /\ Shows(names) = {} => \A d \in onDisk : Shows(d) = {}

Disk == Entries /\ Packs /\ Located /\ Promised /\ Whether

Part(i) == pc[i] \in Labels /\ Laid(i) /\ Lost(i) /\ Filled(i)

OrdinaryInv ==
  /\ Ordinary /\ Control /\ Turns /\ CrashesNeverWedge
  /\ Disk /\ \A i \in Saves : Part(i)

(***************************************************************************)
(* The continuation writer.                                                *)
(***************************************************************************)
Holding == {"mark", "anchor", "payload", "fencePayload", "commit", "fenceManifest", "fenceAgain",
            "unclaim"}
Claimed(i) ==
  /\ pc[i] \in {"new", "claim", "unclaimed", "done"} \cup Holding
  /\ pc[i] \in {"new", "claim"} => \A d \in onDisk : d[Canon] # i
  /\ pc[i] \in Holding => names[Canon] = i /\ ~Acked
  /\ pc[i] = "unclaimed" => names[Canon] = 0 /\ ~Acked
  /\ pc[i] \in {"fenceManifest", "fenceAgain"} => content[i] = "whole"
  /\ pc[i] = "fencePayload" => content[i] = "payload"
  /\ pc[i] \in {"unclaim", "unclaimed", "fenceAgain"} => faults > 0
  /\ faults = 0 => /\ "hollow" \notin kept[i]
                   /\ pc[i] = "commit" => "none" \notin kept[i]
\* A claim that a recovery can find may be the continuation.
Sole == \A d \in onDisk : /\ \A e \in Names : e # Canon => d[e] = 0
                          /\ \A v \in Saves : v = d[Canon] => May(v)
Settled == Acked => /\ names[Canon] # 0 /\ kept[names[Canon]] = {"whole"}
                    /\ \A d \in onDisk : d[Canon] = names[Canon]

ContinuationInv ==
  /\ Continued /\ Control /\ Turns /\ CrashesNeverWedge /\ Entries /\ Packs
  /\ Sole /\ Settled /\ \A i \in Saves : Claimed(i)

(***************************************************************************)
(* Names.                                                                  *)
(***************************************************************************)
LEMMA NamesAre ==
  /\ Canon \in Names /\ OldNames \subseteq Names /\ Canon \notin OldNames
  /\ \A i \in Saves : /\ Tmp(i) \in Names /\ Tmp(i) # Canon /\ Tmp(i) \notin OldNames
                      /\ Old(i) \in OldNames /\ i # 0
                      /\ \A j \in Saves : (Tmp(i) = Tmp(j) => i = j) /\ (Old(i) = Old(j) => i = j)
  /\ \A e \in Names : e = Canon \/ e \in OldNames \/ \E i \in Saves : e = Tmp(i)
<1>1. Canon \in Names /\ OldNames \subseteq Names
  BY DEF Names, OldNames
<1>2. \A i : Canon # Tmp(i) /\ Canon # Old(i)
  BY DEF Canon, Tmp, Old
<1>3. \A i, j : Tmp(i) # Old(j) /\ (Tmp(i) = Tmp(j) => i = j) /\ (Old(i) = Old(j) => i = j)
  BY DEF Tmp, Old
<1>4. \A i \in Saves : Tmp(i) \in Names /\ Old(i) \in OldNames /\ i # 0
  BY DEF Names, OldNames, Saves
<1>5. \A e \in Names : e = Canon \/ e \in OldNames \/ \E i \in Saves : e = Tmp(i)
  BY DEF Names, OldNames
<1> QED BY <1>1, <1>2, <1>3, <1>4, <1>5 DEF OldNames

LEMMA OldIs == \A e \in Names : e[1] = "old" <=> e \in OldNames
<1>1. Canon[1] # "old" /\ \A i : Tmp(i)[1] # "old" /\ Old(i)[1] = "old"
  BY DEF Canon, Tmp, Old
<1> QED BY <1>1, NamesAre DEF Names, OldNames

LEMMA AsidesAre ==
  /\ Hidden = {e \in Names : e # Canon /\ names[e] # 0}
  /\ Asides = Stored(names) /\ Asides \subseteq Hidden
<1>1. \A e \in Names : e[1] = "old" <=> e \in OldNames
  BY OldIs
<1>2. Hidden = {e \in Names : e # Canon /\ names[e] # 0}
  BY DEF Hidden, Exists
<1> QED BY <1>1, <1>2, NamesAre DEF Asides, Stored

LEMMA PutIs ==
  ASSUME NEW d \in [Names -> 0..MaxSaves], NEW a \in Names, NEW b \in Names, NEW v \in 0..MaxSaves
  PROVE  /\ Put(d, a, b, v) \in [Names -> 0..MaxSaves]
         /\ Put(d, a, b, v)[b] = v
         /\ \A e \in Names : e # b => Put(d, a, b, v)[e] = IF e = a THEN 0 ELSE d[e]
  BY PublicationAssumption DEF Put

\* Every name map that an operation may leave was there, or is one with the
\* operation applied.
LEMMA OperatedIs ==
  ASSUME Entries, NEW a \in Names, NEW b \in Names, NEW v \in 0..MaxSaves, Operate(a, b, v)
  PROVE  /\ Entries' /\ names'[b] = v
         /\ \A e \in Names : e # b => names'[e] = IF e = a THEN 0 ELSE names[e]
         /\ \A c \in onDisk' :
              \/ c \in onDisk
              \/ \E d \in onDisk : /\ c[b] = v
                                  /\ \A e \in Names : e # b => c[e] = IF e = a THEN 0 ELSE d[e]
<1>1. names \in [Names -> 0..MaxSaves] /\ onDisk \subseteq [Names -> 0..MaxSaves] /\ names \in onDisk
  BY DEF Entries
<1>2. names' = Put(names, a, b, v) /\ onDisk' = onDisk \cup {Put(d, a, b, v) : d \in onDisk}
  BY DEF Operate
<1>3. \A d \in onDisk : /\ Put(d, a, b, v) \in [Names -> 0..MaxSaves] /\ Put(d, a, b, v)[b] = v
                        /\ \A e \in Names : e # b => Put(d, a, b, v)[e] = IF e = a THEN 0 ELSE d[e]
  BY <1>1, PutIs
<1>4. Entries'
  BY <1>1, <1>2, <1>3 DEF Entries
<1> QED BY <1>1, <1>2, <1>3, <1>4

(***************************************************************************)
(* Packages.                                                               *)
(***************************************************************************)
LEMMA WrittenIs ==
  ASSUME Packs, NEW j \in Saves, NEW c \in Contents, Write(j, c)
  PROVE  Packs' /\ content'[j] = c /\ \A v \in Saves : v # j => kept'[v] = kept[v] /\ content'[v] = content[v]
  BY DEF Packs, Write, Torn, Contents

LEMMA SyncedIs ==
  ASSUME Packs, NEW j \in Saves, SyncPackage(j)
  PROVE  /\ Packs' /\ content' = content /\ kept'[j] = {content[j]}
         /\ \A v \in Saves : kept'[v] = kept[v] \/ kept'[v] = {content[v]}
         /\ \A v \in Saves : kept[v] = {"whole"} => kept'[v] = {"whole"}
  BY DEF Packs, SyncPackage

LEMMA DamagedIs ==
  ASSUME Packs, NEW j \in Saves, Damage(j)
  PROVE  Packs' /\ \A v \in Saves : v # j => kept'[v] = kept[v] /\ content'[v] = content[v]
  BY DEF Packs, Damage, Leftovers, Contents

LEMMA EmptiedIs ==
  ASSUME Packs, NEW j \in Saves, content' = [content EXCEPT ![j] = "none"],
         kept' = [kept EXCEPT ![j] = @ \cup Leftovers(content[j])]
  PROVE  Packs' /\ \A v \in Saves : v # j => kept'[v] = kept[v] /\ content'[v] = content[v]
  BY DEF Packs, Leftovers, Contents

(***************************************************************************)
(* What a recovery finds, step by step.                                    *)
(***************************************************************************)
\* c shows what d shows.
Alike(c, d) == c[Canon] = d[Canon] /\ (d[Canon] = 0 => \A e \in OldNames : c[e] = d[e])
\* c shows one package.
Settles(c) == c[Canon] = 0 => \E e \in Stored(c) : Stored(c) = {e}

LEMMA ShowsIs ==
  ASSUME NEW c
  PROVE  /\ c[Canon] # 0 => Shows(c) = {c[Canon]}
         /\ c[Canon] = 0 => Shows(c) = {c[e] : e \in Stored(c)}
         /\ \A e \in OldNames : c[e] # 0 <=> e \in Stored(c)
         /\ \A e \in Stored(c) : e \in OldNames /\ (c[Canon] = 0 => c[e] \in Shows(c))
         /\ Settles(c) => Shows(c) # {} /\ (c[Canon] = 0 => \A e, f \in Stored(c) : e = f)
         /\ \A d : Alike(c, d) => Shows(c) = Shows(d) /\ (c[Canon] = 0 => Stored(c) = Stored(d))
<1>1. \A e \in OldNames : c[e] # 0 <=> e \in Stored(c)
  BY DEF Stored
<1>2. \A e \in Stored(c) : e \in OldNames /\ (c[Canon] = 0 => c[e] \in Shows(c))
  BY DEF Stored, Shows
<1>3. Settles(c) => Shows(c) # {} /\ (c[Canon] = 0 => \A e, f \in Stored(c) : e = f)
  BY <1>2 DEF Settles, Shows
<1>4. ASSUME NEW d, Alike(c, d)
      PROVE  Shows(c) = Shows(d) /\ (c[Canon] = 0 => Stored(c) = Stored(d))
  <2>1. CASE d[Canon] # 0
    BY <1>4, <2>1 DEF Alike, Shows
  <2>2. CASE d[Canon] = 0
    <3>1. c[Canon] = 0 /\ \A e \in OldNames : c[e] = d[e]
      BY <1>4, <2>2 DEF Alike
    <3>2. Stored(c) = Stored(d)
      BY <3>1 DEF Stored
    <3>3. \A e \in Stored(c) : c[e] = d[e]
      BY <1>2, <3>1
    <3>4. {c[e] : e \in Stored(c)} = {d[e] : e \in Stored(d)}
      BY <3>2, <3>3
    <3> QED BY <2>2, <3>1, <3>2, <3>4 DEF Shows
  <2> QED BY <2>1, <2>2
<1> QED BY <1>1, <1>2, <1>3, <1>4 DEF Shows

\* The step neither returns Ok nor forgets an error, and what may be found stays so.
Steady ==
  /\ \A d \in onDisk : \A v \in Shows(d) : May(v)'
  /\ Acked' => Acked
  /\ Safe' => Safe

\* What may be found stays whole.
Preserves == Safe' => \A d \in onDisk : \A v \in Shows(d) : kept'[v] = {"whole"}

\* c shows what a name map before the step does, or one whole package.
Shown1(c) ==
  \/ \E d \in onDisk : Alike(c, d)
  \/ Settles(c) /\ \A v \in Shows(c) : May(v)' /\ (Safe' => kept'[v] = {"whole"})

LEMMA DiskKeeps ==
  ASSUME Disk, Entries', Packs', Located', Steady, Preserves,
         \A c \in onDisk' : Shown1(c),
         Shows(names') = {} => Shows(names) = {} /\ \A c \in onDisk' : \E d \in onDisk : Alike(c, d)
  PROVE  Disk'
<1>1. ASSUME NEW c \in onDisk'
      PROVE  /\ \A v \in Shows(c) : May(v)' /\ (Safe' => kept'[v] = {"whole"})
             /\ Acked' => Shows(c) # {}
             /\ Safe' => (c[Canon] = 0 => \A e, f \in Stored(c) : e = f)
  <2>1. CASE \E d \in onDisk : Alike(c, d)
    <3>1. PICK d \in onDisk : Alike(c, d)
      BY <2>1
    <3>2. Shows(c) = Shows(d) /\ (c[Canon] = 0 => Stored(c) = Stored(d)) /\ c[Canon] = d[Canon]
      BY <3>1, ShowsIs DEF Alike
    <3>3. \A v \in Shows(c) : May(v)' /\ (Safe' => kept'[v] = {"whole"})
      BY <3>2 DEF Steady, Preserves
    <3>4. Acked' => Shows(c) # {}
      BY <3>2 DEF Steady, Disk, Promised
    <3>5. Safe' => (c[Canon] = 0 => \A e, f \in Stored(c) : e = f)
      BY <3>2 DEF Steady, Disk, Whether
    <3> QED BY <3>3, <3>4, <3>5
  <2>2. CASE ~\E d \in onDisk : Alike(c, d)
    <3>1. Settles(c) /\ \A v \in Shows(c) : May(v)' /\ (Safe' => kept'[v] = {"whole"})
      BY <1>1, <2>2 DEF Shown1
    <3> QED BY <3>1, ShowsIs
  <2> QED BY <2>1, <2>2
<1>2. Promised'
  <2>1. \A v : kept'[v] = {"whole"} => "hollow" \notin kept'[v]
    OBVIOUS
  <2> QED BY <1>1, <2>1 DEF Promised
<1>3. Whether'
  <2>1. ASSUME Safe', Shows(names') = {}, NEW c \in onDisk' PROVE Shows(c) = {}
    <3>1. Safe /\ Shows(names) = {} /\ \E d \in onDisk : Alike(c, d)
      BY <2>1 DEF Steady
    <3>2. PICK d \in onDisk : Alike(c, d)
      BY <3>1
    <3> QED BY <3>1, <3>2, ShowsIs DEF Disk, Whether
  <2> QED BY <1>1, <2>1 DEF Whether
<1> QED BY <1>2, <1>3 DEF Disk

LEMMA QuietKeepsDisk ==
  ASSUME Disk, UNCHANGED entries \/ SyncParent, Packs', Steady, Preserves
  PROVE  Disk' /\ \A j : (Absent(j) => Absent(j)') /\ (Hid(j) => Hid(j)')
<1>1. names' = names /\ onDisk' \subseteq onDisk /\ names \in onDisk' /\ names \in onDisk
  BY DEF Disk, Entries, SyncParent, entries
<1>2. Entries' /\ Located' /\ \A j : (Absent(j) => Absent(j)') /\ (Hid(j) => Hid(j)')
  BY <1>1 DEF Disk, Entries, Located, Absent, Hid
<1>3. \A c : Alike(c, c)
  BY DEF Alike
<1>4. \A c \in onDisk' : Shown1(c) /\ \E d \in onDisk : Alike(c, d)
  BY <1>1, <1>3 DEF Shown1
<1>5. Disk'
  BY <1>1, <1>2, <1>4, DiskKeeps
<1> QED BY <1>2, <1>5

LEMMA RemovalKeepsDisk ==
  ASSUME Disk, NEW e \in Names, e # Canon, Operate(e, e, 0), Packs', Steady, Preserves,
         e \in OldNames => \A d \in onDisk : d[Canon] # 0
  PROVE  /\ Disk' /\ \A j \in Saves : (Absent(j) => Absent(j)') /\ (Hid(j) => Hid(j)')
         /\ names'[e] = 0 /\ \A f \in Names : f # e => names'[f] = names[f]
         /\ \A c \in onDisk' : \E d \in onDisk : \A f \in Names : c[f] = d[f] \/ (f = e /\ c[f] = 0)
<1>0. 0 \in 0..MaxSaves
  BY PublicationAssumption
<1>1. /\ Entries' /\ names'[e] = 0 /\ \A f \in Names : f # e => names'[f] = names[f]
      /\ \A c \in onDisk' : \/ c \in onDisk
           \/ \E d \in onDisk : c[e] = 0 /\ \A f \in Names : f # e => c[f] = IF f = e THEN 0 ELSE d[f]
  BY <1>0, OperatedIs DEF Disk
<1>2. \A c \in onDisk' : \E d \in onDisk : \A f \in Names : c[f] = d[f] \/ (f = e /\ c[f] = 0)
  BY <1>1
<1>3. Located'
  <2>1. ASSUME NEW c \in onDisk', NEW f \in Names, NEW g \in Names, c[f] = c[g], c[f] # 0 PROVE f = g
    <3>1. PICK d \in onDisk : \A h \in Names : c[h] = d[h] \/ (h = e /\ c[h] = 0)
      BY <1>2
    <3>2. d[f] = d[g] /\ d[f] # 0
      BY <2>1, <3>1
    <3> QED BY <3>2 DEF Disk, Located
  <2>2. ASSUME NEW c \in onDisk', NEW d \in onDisk', NEW f \in Names, NEW g \in Names,
               c[f] = d[g], c[f] # 0
        PROVE  f = g \/ Canon \in {f, g}
    <3>1. PICK k \in onDisk : \A h \in Names : c[h] = k[h] \/ (h = e /\ c[h] = 0)
      BY <1>2
    <3>2. PICK l \in onDisk : \A h \in Names : d[h] = l[h] \/ (h = e /\ d[h] = 0)
      BY <1>2
    <3>3. k[f] = l[g] /\ k[f] # 0
      BY <2>2, <3>1, <3>2
    <3> QED BY <3>3 DEF Disk, Located
  <2> QED BY <2>1, <2>2 DEF Located
<1>4. \A j \in Saves : (Absent(j) => Absent(j)') /\ (Hid(j) => Hid(j)')
  <2> SUFFICES ASSUME NEW j \in Saves PROVE (Absent(j) => Absent(j)') /\ (Hid(j) => Hid(j)')
    OBVIOUS
  <2>1. j # 0
    BY NamesAre
  <2>2. Absent(j) => Absent(j)'
    BY <1>2, <2>1 DEF Absent
  <2>3. Hid(j) => Hid(j)'
    BY <1>2, <2>1, NamesAre DEF Hid
  <2> QED BY <2>2, <2>3
<1>5. ASSUME NEW c \in onDisk', NEW d \in onDisk,
             c = d \/ \A f \in Names : f # e => c[f] = d[f]
      PROVE  Alike(c, d)
  BY <1>5, NamesAre DEF Alike
<1>6. \A c \in onDisk' : \E d \in onDisk : Alike(c, d)
  BY <1>1, <1>5
<1>7. Alike(names', names)
  BY <1>1, NamesAre DEF Alike, Disk, Entries
<1>8. Disk'
  BY <1>1, <1>3, <1>6, <1>7, ShowsIs, DiskKeeps DEF Shown1
<1> QED BY <1>1, <1>2, <1>4, <1>8

LEMMA MakingKeepsDisk ==
  ASSUME Disk, NEW i \in Saves, MakeDir(Tmp(i), i), Absent(i), Packs', Steady, Preserves
  PROVE  /\ Disk' /\ \A j \in Saves : j # i /\ Absent(j) => Absent(j)'
         /\ names'[Tmp(i)] = i /\ \A f \in Names : f # Tmp(i) => names'[f] = names[f]
         /\ Hid(i)'
<1> DEFINE e == Tmp(i)
<1>0. i \in 0..MaxSaves /\ e \in Names /\ e # Canon /\ e \notin OldNames
  BY NamesAre DEF Saves
<1>1. /\ Entries' /\ names'[e] = i /\ \A f \in Names : f # e => names'[f] = names[f]
      /\ \A c \in onDisk' : \/ c \in onDisk
           \/ \E d \in onDisk : c[e] = i /\ \A f \in Names : f # e => c[f] = IF f = e THEN 0 ELSE d[f]
  BY <1>0, OperatedIs DEF Disk, MakeDir
<1> HIDE DEF e
<1>2. \A c \in onDisk' : \E d \in onDisk : \A f \in Names : c[f] = d[f] \/ (f = e /\ c[f] = i)
  BY <1>1
<1>3. \A d \in onDisk : \A f \in Names : d[f] # i
  BY DEF Absent
<1>4. Located'
  <2>1. ASSUME NEW c \in onDisk', NEW d \in onDisk', NEW f \in Names, NEW g \in Names,
               c[f] = d[g], c[f] # 0, f # g
        PROVE  \E k, l \in onDisk : k[f] = l[g] /\ k[f] # 0 /\ (c = d => k = l)
    <3>1. PICK k \in onDisk : \A h \in Names : c[h] = k[h] \/ (h = e /\ c[h] = i)
      BY <1>2
    <3>2. PICK l \in onDisk : (c = d => l = k) /\ \A h \in Names : d[h] = l[h] \/ (h = e /\ d[h] = i)
      BY <1>2, <3>1
    <3>3. c[f] = k[f] /\ d[g] = l[g]
      BY <1>3, <2>1, <3>1, <3>2
    <3> QED BY <2>1, <3>2, <3>3
  <2>2. ASSUME NEW c \in onDisk', NEW f \in Names, NEW g \in Names, c[f] = c[g], c[f] # 0 PROVE f = g
    <3> SUFFICES ASSUME f # g PROVE FALSE
      OBVIOUS
    <3>1. \E k, l \in onDisk : k[f] = l[g] /\ k[f] # 0 /\ k = l
      BY <2>1, <2>2
    <3> QED BY <3>1 DEF Disk, Located
  <2>3. ASSUME NEW c \in onDisk', NEW d \in onDisk', NEW f \in Names, NEW g \in Names,
               c[f] = d[g], c[f] # 0
        PROVE  f = g \/ Canon \in {f, g}
    <3> SUFFICES ASSUME f # g PROVE Canon \in {f, g}
      OBVIOUS
    <3>1. \E k, l \in onDisk : k[f] = l[g] /\ k[f] # 0
      BY <2>1, <2>3
    <3> QED BY <3>1 DEF Disk, Located
  <2> QED BY <2>2, <2>3 DEF Located
<1>5. \A j \in Saves : j # i /\ Absent(j) => Absent(j)'
  BY <1>2 DEF Absent
<1>6. Hid(i)'
  BY <1>0, <1>2, <1>3, NamesAre DEF Hid
<1>7. \A c \in onDisk' : \E d \in onDisk : Alike(c, d)
  <2>1. ASSUME NEW c, NEW d, \A f \in Names : c[f] = d[f] \/ (f = e /\ c[f] = i) PROVE Alike(c, d)
    BY <1>0, <2>1, NamesAre DEF Alike
  <2> QED BY <1>2, <2>1
<1>8. Alike(names', names)
  BY <1>0, <1>1, NamesAre DEF Alike
<1>9. Disk'
  BY <1>1, <1>4, <1>7, <1>8, ShowsIs, DiskKeeps DEF Shown1
<1> QED BY <1>1, <1>5, <1>6, <1>9 DEF e

\* A package moves to the canonical name.
LEMMA ShowingKeepsDisk ==
  ASSUME Disk, NEW a \in Names, a # Canon, NEW v, v = names[a], v # 0, Rename(a, Canon),
         Packs', Steady, Preserves, May(v)', Safe' => kept'[v] = {"whole"}
  PROVE  /\ Disk' /\ \A j \in Saves : Absent(j) => Absent(j)'
         /\ names'[Canon] = v /\ names'[a] = 0
         /\ \A f \in Names : f # a /\ f # Canon => names'[f] = names[f]
         /\ \A c \in onDisk' : \E d \in onDisk :
              \/ c = d
              \/ c[Canon] = v /\ c[a] = 0 /\ \A f \in Names : f # a /\ f # Canon => c[f] = d[f]
<1>0. names \in onDisk /\ v \in 0..MaxSaves /\ v # 0 /\ Canon \in Names
  BY NamesAre DEF Disk, Entries
<1>1. /\ Entries' /\ names'[Canon] = v
      /\ \A f \in Names : f # Canon => names'[f] = IF f = a THEN 0 ELSE names[f]
      /\ \A c \in onDisk' : \/ c \in onDisk
           \/ \E d \in onDisk : c[Canon] = v /\ \A f \in Names : f # Canon => c[f] = IF f = a THEN 0 ELSE d[f]
  BY <1>0, OperatedIs DEF Disk, Rename
<1>2. \A c \in onDisk' : \E d \in onDisk :
        \/ c = d
        \/ c[Canon] = v /\ c[a] = 0 /\ \A f \in Names : f # a /\ f # Canon => c[f] = d[f]
  BY <1>1
<1>3. \A d \in onDisk : \A f \in Names : d[f] = v => f = a \/ f = Canon
  BY <1>0 DEF Disk, Located
<1>4. \A c \in onDisk' : \E d \in onDisk : \A f \in Names : f # Canon /\ c[f] # 0 => c[f] = d[f]
  BY <1>2
<1>5. Located'
  <2>1. ASSUME NEW c \in onDisk', NEW f \in Names, NEW g \in Names, c[f] = c[g], c[f] # 0 PROVE f = g
    <3>1. PICK d \in onDisk :
            \/ c = d
            \/ c[Canon] = v /\ c[a] = 0 /\ \A h \in Names : h # a /\ h # Canon => c[h] = d[h]
      BY <1>2
    <3>2. CASE c = d
      BY <2>1, <3>2 DEF Disk, Located
    <3>3. CASE c[Canon] = v /\ c[a] = 0 /\ \A h \in Names : h # a /\ h # Canon => c[h] = d[h]
      <4>1. CASE f # Canon /\ g # Canon
        BY <2>1, <3>3, <4>1 DEF Disk, Located
      <4>2. CASE f = Canon /\ g # Canon
        BY <1>3, <2>1, <3>3, <4>2
      <4>3. CASE g = Canon /\ f # Canon
        BY <1>3, <2>1, <3>3, <4>3
      <4> QED BY <4>1, <4>2, <4>3
    <3> QED BY <3>1, <3>2, <3>3
  <2>2. ASSUME NEW c \in onDisk', NEW d \in onDisk', NEW f \in Names, NEW g \in Names,
               c[f] = d[g], c[f] # 0, Canon \notin {f, g}
        PROVE  f = g
    <3>1. PICK k \in onDisk : \A h \in Names : h # Canon /\ c[h] # 0 => c[h] = k[h]
      BY <1>4
    <3>2. PICK l \in onDisk : \A h \in Names : h # Canon /\ d[h] # 0 => d[h] = l[h]
      BY <1>4
    <3>3. k[f] = l[g] /\ k[f] # 0
      BY <2>2, <3>1, <3>2
    <3> QED BY <2>2, <3>3 DEF Disk, Located
  <2> QED BY <2>1, <2>2 DEF Located
<1>6. \A j \in Saves : Absent(j) => Absent(j)'
  <2> SUFFICES ASSUME NEW j \in Saves, Absent(j) PROVE Absent(j)'
    OBVIOUS
  <2>1. j # 0 /\ j # v
    BY <1>0, NamesAre DEF Absent
  <2> QED BY <1>0, <1>2, <2>1 DEF Absent
<1>7. \A c : c[Canon] = v => Settles(c) /\ Shows(c) = {v}
  BY <1>0 DEF Settles, Shows
<1>8. \A c : Alike(c, c)
  BY DEF Alike
<1>9. \A c \in onDisk' : Shown1(c)
  <2> SUFFICES ASSUME NEW c \in onDisk' PROVE Shown1(c)
    OBVIOUS
  <2>1. CASE c \in onDisk
    BY <1>8, <2>1 DEF Shown1
  <2>2. CASE c[Canon] = v
    BY <1>7, <2>2 DEF Shown1
  <2> QED BY <1>2, <2>1, <2>2
<1>10. Shows(names') # {}
  BY <1>1, <1>7
<1>11. Disk'
  BY <1>1, <1>5, <1>9, <1>10, DiskKeeps
<1> QED BY <1>1, <1>2, <1>6, <1>11

\* The canonical package moves aside.
LEMMA AsideKeepsDisk ==
  ASSUME Disk, NEW i \in Saves, Alone, names[Canon] # 0, Asides = {}, Rename(Canon, Old(i)),
         Packs', Steady, Preserves
  PROVE  /\ Disk' /\ \A j \in Saves : Absent(j) => Absent(j)'
         /\ names'[Canon] = 0 /\ names'[Old(i)] = names[Canon]
         /\ \A f \in Names : f # Old(i) /\ f # Canon => names'[f] = names[f]
<1> DEFINE b == Old(i)
<1>a. PICK v : v = names[Canon]
  OBVIOUS
<1>0. /\ onDisk = {names} /\ v \in 0..MaxSaves /\ v # 0 /\ Canon \in Names
      /\ b \in Names /\ b # Canon /\ b \in OldNames /\ v = names[Canon]
  BY <1>a, NamesAre DEF Disk, Entries, Alone
<1>1. /\ Entries' /\ names'[b] = v
      /\ \A f \in Names : f # b => names'[f] = IF f = Canon THEN 0 ELSE names[f]
      /\ \A c \in onDisk' : \/ c \in onDisk
           \/ \E d \in onDisk : c[b] = v /\ \A f \in Names : f # b => c[f] = IF f = Canon THEN 0 ELSE d[f]
  BY <1>0, OperatedIs DEF Disk, Rename
<1>2. \A c \in onDisk' :
        \/ c = names
        \/ c[b] = v /\ c[Canon] = 0 /\ \A f \in Names : f # b /\ f # Canon => c[f] = names[f]
  BY <1>0, <1>1
<1>3. /\ \A f \in Names : names[f] = v => f = Canon
      /\ \A f, g \in Names : names[f] = names[g] /\ names[f] # 0 => f = g
  BY <1>0 DEF Disk, Located
<1>4. \A e \in OldNames : names[e] = 0
  BY AsidesAre DEF Stored
<1> HIDE DEF b
<1>5. Located'
  <2>1. ASSUME NEW c \in onDisk', NEW d \in onDisk', NEW f \in Names, NEW g \in Names,
               c[f] = d[g], c[f] # 0, f # g
        PROVE  c # d /\ Canon \in {f, g}
    <3>1. CASE c = names /\ d = names
      BY <1>3, <2>1, <3>1
    <3>2. CASE c = names /\ d[b] = v /\ d[Canon] = 0 /\ \A h \in Names : h # b /\ h # Canon => d[h] = names[h]
      BY <1>0, <1>3, <2>1, <3>2
    <3>3. CASE d = names /\ c[b] = v /\ c[Canon] = 0 /\ \A h \in Names : h # b /\ h # Canon => c[h] = names[h]
      BY <1>0, <1>3, <2>1, <3>3
    <3>4. CASE /\ c[b] = v /\ c[Canon] = 0 /\ \A h \in Names : h # b /\ h # Canon => c[h] = names[h]
               /\ d[b] = v /\ d[Canon] = 0 /\ \A h \in Names : h # b /\ h # Canon => d[h] = names[h]
      BY <1>0, <1>3, <2>1, <3>4
    <3> QED BY <1>2, <3>1, <3>2, <3>3, <3>4
  <2> QED BY <2>1 DEF Located
<1>6. \A j \in Saves : Absent(j) => Absent(j)'
  <2> SUFFICES ASSUME NEW j \in Saves, Absent(j) PROVE Absent(j)'
    OBVIOUS
  <2>1. j # 0 /\ j # v /\ \A f \in Names : names[f] # j
    BY <1>0, NamesAre DEF Absent
  <2> QED BY <1>0, <1>2, <2>1 DEF Absent
<1>7. ASSUME NEW c, c[b] = v, c[Canon] = 0, \A f \in Names : f # b /\ f # Canon => c[f] = names[f]
      PROVE  Settles(c) /\ Shows(c) = {v}
  <2>1. Stored(c) = {b}
    BY <1>0, <1>4, <1>7, NamesAre DEF Stored
  <2> QED BY <1>7, <2>1 DEF Settles, Shows
<1>8. Shows(names) = {v}
  BY <1>0 DEF Shows
<1>9. \A c : Alike(c, c)
  BY DEF Alike
<1>10. \A c \in onDisk' : Shown1(c)
  <2> SUFFICES ASSUME NEW c \in onDisk' PROVE Shown1(c)
    OBVIOUS
  <2>1. CASE c = names
    BY <1>0, <1>9, <2>1 DEF Shown1
  <2>2. CASE c # names
    <3>1. Settles(c) /\ Shows(c) = {v}
      BY <1>2, <1>7, <2>2
    <3>2. May(v)' /\ (Safe' => kept'[v] = {"whole"})
      BY <1>0, <1>8 DEF Steady, Preserves
    <3> QED BY <3>1, <3>2 DEF Shown1
  <2> QED BY <2>1, <2>2
<1>11. Shows(names') # {}
  <2>1. names'[b] = v /\ names'[Canon] = 0 /\ \A f \in Names : f # b /\ f # Canon => names'[f] = names[f]
    BY <1>0, <1>1
  <2> QED BY <1>7, <2>1
<1>12. Disk'
  BY <1>1, <1>5, <1>10, <1>11, DiskKeeps
<1> QED BY <1>0, <1>1, <1>6, <1>12 DEF b

\* The new package moves back to its stage; the prior one is what it replaced.
LEMMA UnpublishingKeepsDisk ==
  ASSUME Disk, NEW i \in Saves, names[Canon] = i, Rename(Canon, Tmp(i)), Packs', Steady, Preserves,
         \A d \in onDisk : \A e \in OldNames : d[e] = names[e],
         \A d \in onDisk : \A e \in Names : d[e] = i => e \in {Tmp(i), Canon},
         Asides = {Old(i)} \/ (Asides = {} /\ ~Safe),
         \A p : p = names[Old(i)] /\ Asides # {} => May(p)' /\ (Safe' => kept'[p] = {"whole"})
  PROVE  /\ Disk' /\ \A j \in Saves : Absent(j) => Absent(j)'
         /\ names'[Canon] = 0 /\ names'[Tmp(i)] = i
         /\ \A f \in Names : f # Tmp(i) /\ f # Canon => names'[f] = names[f]
         /\ \A d \in onDisk' : \A e \in OldNames : d[e] = names'[e]
<1> DEFINE b == Tmp(i)
<1>0. /\ i \in 0..MaxSaves /\ i # 0 /\ Canon \in Names /\ names \in onDisk
      /\ b \in Names /\ b # Canon /\ b \notin OldNames
  BY NamesAre DEF Disk, Entries, Saves
<1>1. /\ Entries' /\ names'[b] = i
      /\ \A f \in Names : f # b => names'[f] = IF f = Canon THEN 0 ELSE names[f]
      /\ \A c \in onDisk' : \/ c \in onDisk
           \/ \E d \in onDisk : c[b] = i /\ \A f \in Names : f # b => c[f] = IF f = Canon THEN 0 ELSE d[f]
  BY <1>0, OperatedIs DEF Disk, Rename
<1>2. \A c \in onDisk' : \E d \in onDisk :
        \/ c = d
        \/ c[b] = i /\ c[Canon] = 0 /\ \A f \in Names : f # b /\ f # Canon => c[f] = d[f]
  BY <1>0, <1>1
<1>3. \A d \in onDisk : \A f \in Names : d[f] = i => f = b \/ f = Canon
  OBVIOUS
<1>4. \A d \in onDisk : \A e \in OldNames : d[e] = names[e]
  OBVIOUS
<1> HIDE DEF b
<1>5. Located'
  <2>1. ASSUME NEW c \in onDisk', NEW d \in onDisk', NEW f \in Names, NEW g \in Names,
               c[f] = d[g], c[f] # 0, f # g
        PROVE  Canon \in {f, g} /\ c # d
    <3>1. PICK k \in onDisk :
            \/ c = k
            \/ c[b] = i /\ c[Canon] = 0 /\ \A h \in Names : h # b /\ h # Canon => c[h] = k[h]
      BY <1>2
    <3>2. PICK l \in onDisk :
            \/ d = l
            \/ d[b] = i /\ d[Canon] = 0 /\ \A h \in Names : h # b /\ h # Canon => d[h] = l[h]
      BY <1>2
    <3>3. CASE f # b /\ g # b
      <4>1. k[f] = c[f] /\ l[g] = d[g]
        BY <2>1, <3>1, <3>2, <3>3
      <4>2. Canon \in {f, g}
        BY <2>1, <4>1 DEF Disk, Located
      <4>3. CASE c = d
        <5>1. k[f] = c[f] /\ k[g] = c[g]
          BY <2>1, <3>1, <3>3, <4>3
        <5> QED BY <2>1, <4>3, <5>1 DEF Disk, Located
      <4> QED BY <4>2, <4>3
    <3>4. CASE f = b \/ g = b
      <4>1. CASE c \in onDisk /\ d \in onDisk
        BY <1>0, <2>1, <4>1 DEF Disk, Located
      <4>2. CASE c \notin onDisk \/ d \notin onDisk
        <5>1. (c \in onDisk \/ c[b] = i) /\ (d \in onDisk \/ d[b] = i)
          BY <3>1, <3>2
        <5>2. \A h \in Names : (c[h] = i => h = b \/ h = Canon) /\ (d[h] = i => h = b \/ h = Canon)
          BY <1>0, <1>3, <3>1, <3>2
        <5>3. CASE c[f] = i
          <6>1. Canon \in {f, g}
            BY <2>1, <5>2, <5>3
          <6>2. /\ c \in onDisk \/ (c[b] = i /\ c[Canon] = 0)
                /\ d \in onDisk \/ (d[b] = i /\ d[Canon] = 0)
            BY <3>1, <3>2
          <6> QED BY <1>0, <2>1, <4>2, <5>2, <5>3, <6>1, <6>2
        <5>4. CASE c[f] # i
          <6>1. CASE f = b
            <7>1. c = k
              BY <3>1, <5>4, <6>1
            <7>2. d[g] = l[g]
              BY <1>0, <2>1, <3>2, <6>1
            <7>3. Canon \in {f, g}
              BY <2>1, <7>1, <7>2 DEF Disk, Located
            <7>4. CASE c = d
              BY <1>0, <2>1, <4>2, <7>1, <7>4
            <7> QED BY <7>3, <7>4
          <6>2. CASE g = b
            <7>1. d = l
              BY <2>1, <3>2, <5>4, <6>2
            <7>2. c[f] = k[f]
              BY <1>0, <2>1, <3>1, <6>2
            <7>3. Canon \in {f, g}
              BY <2>1, <7>1, <7>2 DEF Disk, Located
            <7>4. CASE c = d
              BY <1>0, <2>1, <4>2, <7>1, <7>4
            <7> QED BY <7>3, <7>4
          <6> QED BY <3>4, <6>1, <6>2
        <5> QED BY <5>3, <5>4
      <4> QED BY <4>1, <4>2
    <3> QED BY <3>3, <3>4
  <2> QED BY <2>1 DEF Located
<1>6. \A j \in Saves : Absent(j) => Absent(j)'
  <2> SUFFICES ASSUME NEW j \in Saves, Absent(j) PROVE Absent(j)'
    OBVIOUS
  <2>1. j # 0 /\ j # i
    BY <1>0, NamesAre DEF Absent
  <2> QED BY <1>0, <1>2, <2>1 DEF Absent
<1>7. \A c \in onDisk' : \A e \in OldNames : c[e] = names'[e]
  <2>1. \A e \in OldNames : e \in Names /\ e # b /\ e # Canon
    BY <1>0, NamesAre
  <2> QED BY <1>1, <1>2, <1>4, <2>1
<1>8. \A c \in onDisk' : c \in onDisk \/ c[Canon] = 0
  BY <1>2
<1>9. \A c \in onDisk' : \A e \in OldNames : c[e] = names[e]
  <2>1. \A e \in OldNames : e \in Names /\ e # b /\ e # Canon
    BY <1>0, NamesAre
  <2> QED BY <1>2, <1>4, <2>1
<1>10. \A c \in onDisk' : Stored(c) = Asides
  BY <1>9, AsidesAre DEF Stored
<1>11. names' \in onDisk' /\ names'[Canon] = 0
  BY <1>0, <1>1 DEF Entries
<1>12. \A c : Alike(c, c)
  BY DEF Alike
<1>13. CASE Asides = {Old(i)}
  <2>1. ASSUME NEW c \in onDisk', c[Canon] = 0 PROVE Settles(c) /\ Shows(c) = {names[Old(i)]}
    <3>1. Stored(c) = {Old(i)} /\ c[Old(i)] = names[Old(i)]
      BY <1>9, <1>10, <1>13, NamesAre
    <3> QED BY <2>1, <3>1 DEF Settles, Shows
  <2>2. ASSUME NEW c \in onDisk' PROVE Shown1(c)
    <3>1. CASE c \in onDisk
      BY <1>12, <3>1 DEF Shown1
    <3>2. CASE c[Canon] = 0
      <4>1. Settles(c) /\ Shows(c) = {names[Old(i)]}
        BY <2>1, <3>2
      <4>2. \A p \in Shows(c) : May(p)' /\ (Safe' => kept'[p] = {"whole"})
        BY <1>13, <4>1
      <4> QED BY <4>1, <4>2 DEF Shown1
    <3> QED BY <1>8, <3>1, <3>2
  <2>3. Shows(names') # {}
    BY <1>11, <2>1
  <2>4. Disk'
    BY <1>1, <1>5, <2>2, <2>3, DiskKeeps
  <2> QED BY <1>0, <1>1, <1>6, <1>7, <2>4 DEF b
<1>14. CASE Asides = {} /\ ~Safe
  <2>1. ~Safe' /\ ~Acked'
    BY <1>14 DEF Steady, Safe
  <2>2. \A c \in onDisk' : c[Canon] = 0 => Shows(c) = {}
    BY <1>10, <1>14 DEF Shows
  <2>3. Promised' /\ Whether'
    BY <1>8, <2>1, <2>2 DEF Promised, Whether, Steady
  <2> QED BY <1>0, <1>1, <1>5, <1>6, <1>7, <2>3 DEF b, Disk
<1> QED BY <1>13, <1>14

(***************************************************************************)
(* The control of a save.                                                  *)
(***************************************************************************)
LEMMA RunsAlone ==
  ASSUME Turns, NEW i \in Saves, Running(i)
  PROVE  /\ \A j \in Saves : j # i => pc[j] \in {"new", "done"}
         /\ pc[i] # "new" /\ pc[i] # "done" /\ May(i) /\ i # 0
<1>1. \A j \in Saves : j # i => pc[j] \in {"new", "done"}
  BY DEF Turns, Running
<1>2. \A j \in Saves : outcome[j] = "ok" => j <= i
  BY DEF Turns, Running, Saves
<1> QED BY <1>1, <1>2, NamesAre DEF May, Running, Turns

LEMMA ControlGoes ==
  ASSUME Turns, Control, NEW i \in Saves, Running(i), NEW l, l \notin {"new", "done"},
         Goto(i, l), Works \/ Fails
  PROVE  /\ pc'[i] = l /\ (\A j \in Saves : j # i => pc'[j] = pc[j])
         /\ outcome' = outcome /\ pc' = [j \in Saves |-> pc'[j]] /\ lock' \in 0..MaxSaves
         /\ Turns' /\ (\A v : May(v) => May(v)') /\ (Acked' <=> Acked) /\ (Safe' => Safe)
         /\ faults' \in Nat /\ (faults > 0 => faults' > 0) /\ (Fails => faults' > 0)
<1>1. /\ pc'[i] = l /\ (\A j \in Saves : j # i => pc'[j] = pc[j])
      /\ outcome' = outcome /\ lock' = lock
  BY DEF Goto, Control
<1>2. pc[i] # "new" /\ pc[i] # "done"
  BY DEF Running
<1>3. Turns'
  BY <1>1, <1>2 DEF Turns, Running
<1>4. (\A v : May(v) => May(v)') /\ (Acked' <=> Acked)
  BY <1>1, <1>2 DEF May, Acked
<1>5. faults' \in Nat /\ (faults > 0 => faults' > 0) /\ (Fails => faults' > 0) /\ (faults' = 0 => faults = 0)
  BY DEF Works, Fails, Control
<1>6. Safe' => Safe
  BY <1>4, <1>5 DEF Safe
<1>7. pc' = [j \in Saves |-> pc'[j]]
  BY DEF Goto, Control
<1>8. lock' \in 0..MaxSaves
  BY <1>1 DEF Control
<1> QED BY <1>1, <1>3, <1>4, <1>5, <1>6, <1>7, <1>8

LEMMA GoingOn ==
  ASSUME Turns, Control, Disk, NEW i \in Saves, Running(i), NEW l, l \notin {"new", "done"},
         Goto(i, l), Works \/ Fails
  PROVE  /\ pc'[i] = l /\ (\A j \in Saves : j # i => pc'[j] = pc[j])
         /\ Turns' /\ Steady /\ (\A v : May(v) => May(v)') /\ (Acked' <=> Acked) /\ (Safe' => Safe)
         /\ faults' \in Nat /\ (faults > 0 => faults' > 0) /\ (Fails => faults' > 0)
<1>1. /\ pc'[i] = l /\ (\A j \in Saves : j # i => pc'[j] = pc[j])
      /\ Turns' /\ (\A v : May(v) => May(v)') /\ (Acked' <=> Acked) /\ (Safe' => Safe)
      /\ faults' \in Nat /\ (faults > 0 => faults' > 0) /\ (Fails => faults' > 0)
  BY ControlGoes
<1> QED BY <1>1 DEF Steady, Disk, Promised

LEMMA ControlLeaves ==
  ASSUME Turns, Control, NEW i \in Saves, Running(i), NEW o, Return(i, o), Works \/ Fails
  PROVE  /\ pc'[i] = "done" /\ (\A j \in Saves : j # i => pc'[j] = pc[j])
         /\ outcome'[i] = o /\ (\A j \in Saves : j # i => outcome'[j] = outcome[j])
         /\ pc' = [j \in Saves |-> pc'[j]] /\ outcome' = [j \in Saves |-> outcome'[j]]
         /\ lock' \in 0..MaxSaves /\ Turns'
         /\ faults' \in Nat /\ (faults > 0 => faults' > 0) /\ (Fails => faults' > 0)
         /\ o # "ok" => (Acked' <=> Acked) /\ (Safe' => Safe)
         /\ o # "ok" => \A v : May(v) /\ (v = i => o # "error") => May(v)'
<1>0. pc' = [pc EXCEPT ![i] = "done"] /\ outcome' = [outcome EXCEPT ![i] = o]
      /\ lock' = IF lock = i THEN 0 ELSE lock
  BY DEF Return
<1>a. pc'[i] = "done" /\ (\A j \in Saves : j # i => pc'[j] = pc[j]) /\ pc' = [j \in Saves |-> pc'[j]]
  BY <1>0 DEF Control
<1>b. /\ outcome'[i] = o /\ (\A j \in Saves : j # i => outcome'[j] = outcome[j])
      /\ outcome' = [j \in Saves |-> outcome'[j]]
  BY <1>0 DEF Control
<1>c. lock' \in 0..MaxSaves
  BY <1>0, PublicationAssumption DEF Control
<1>1. /\ pc'[i] = "done" /\ (\A j \in Saves : j # i => pc'[j] = pc[j])
      /\ outcome'[i] = o /\ (\A j \in Saves : j # i => outcome'[j] = outcome[j])
      /\ lock' = IF lock = i THEN 0 ELSE lock
  BY <1>0, <1>a, <1>b
<1>2. pc[i] # "new" /\ pc[i] # "done" /\ outcome[i] = "none"
  BY DEF Running, Turns
<1>3. Turns'
  BY <1>1, <1>2 DEF Turns, Running
<1>4. o # "ok" => (Acked' <=> Acked)
  BY <1>1, <1>2 DEF Acked
<1>5. faults' \in Nat /\ (faults > 0 => faults' > 0) /\ (Fails => faults' > 0) /\ (faults' = 0 => faults = 0)
  BY DEF Works, Fails, Control
<1>6. o # "ok" => \A v : May(v) /\ (v = i => o # "error") => May(v)'
  <2> SUFFICES ASSUME o # "ok", NEW v, May(v), v = i => o # "error" PROVE May(v)'
    OBVIOUS
  <2>1. pc'[v] # "new" /\ outcome'[v] # "error"
    BY <1>1, <1>2 DEF May
  <2>2. \A j \in Saves : outcome'[j] = "ok" => j <= v
    BY <1>1, <1>2 DEF May
  <2> QED BY <2>1, <2>2 DEF May
<1>7. o # "ok" => (Safe' => Safe)
  BY <1>4, <1>5 DEF Safe
<1> QED BY <1>1, <1>3, <1>4, <1>5, <1>6, <1>7, <1>a, <1>b, <1>c

LEMMA Leaving ==
  ASSUME Turns, Control, Disk, NEW i \in Saves, Running(i), NEW o, Return(i, o), Works \/ Fails
  PROVE  /\ pc'[i] = "done" /\ (\A j \in Saves : j # i => pc'[j] = pc[j])
         /\ outcome'[i] = o /\ (\A j \in Saves : j # i => outcome'[j] = outcome[j])
         /\ Turns'
         /\ faults' \in Nat /\ (faults > 0 => faults' > 0) /\ (Fails => faults' > 0)
         /\ o # "ok" => (Acked' <=> Acked) /\ (Safe' => Safe)
         /\ o \notin {"ok", "error"} => \A v : May(v) => May(v)'
         /\ o # "ok" /\ (o = "error" => \A d \in onDisk : i \notin Shows(d)) => Steady
<1>1. /\ pc'[i] = "done" /\ (\A j \in Saves : j # i => pc'[j] = pc[j])
      /\ outcome'[i] = o /\ (\A j \in Saves : j # i => outcome'[j] = outcome[j])
      /\ Turns'
      /\ faults' \in Nat /\ (faults > 0 => faults' > 0) /\ (Fails => faults' > 0)
      /\ o # "ok" => (Acked' <=> Acked) /\ (Safe' => Safe)
      /\ o # "ok" => \A v : May(v) /\ (v = i => o # "error") => May(v)'
  BY ControlLeaves
<1>2. ASSUME o # "ok", o = "error" => \A d \in onDisk : i \notin Shows(d) PROVE Steady
  BY <1>1, <1>2 DEF Steady, Disk, Promised
<1> QED BY <1>1, <1>2

LEMMA OthersStay ==
  ASSUME OrdinaryInv, NEW i \in Saves, Running(i), \A j \in Saves : j # i => pc'[j] = pc[j],
         \A j \in Saves : j # i /\ Absent(j) => Absent(j)'
  PROVE  \A j \in Saves : j # i => Part(j)'
<1> SUFFICES ASSUME NEW j \in Saves, j # i PROVE Part(j)'
  OBVIOUS
<1>1. pc'[j] = pc[j] /\ pc[j] \in {"new", "done"}
  BY RunsAlone DEF OrdinaryInv
<1>2. pc[j] = "new" => Absent(j)'
  BY DEF OrdinaryInv, Part, Lost, Early
<1>3. pc'[j] \in Labels /\ Laid(j)'
  BY <1>1 DEF Labels, Early, Laid, Staging, Moved, Visible
<1>4. Lost(j)'
  BY <1>1, <1>2 DEF Lost, Early, Synced, Visible
<1>5. Filled(j)'
  BY <1>1 DEF Filled, Sealed, Undoing, Visible
<1> QED BY <1>3, <1>4, <1>5 DEF Part

LEMMA DoneIsPart ==
  ASSUME NEW i \in Saves, pc'[i] = "done" PROVE Part(i)'
<1>1. pc'[i] \in Labels /\ Laid(i)'
  BY DEF Labels, Laid, Staging, Moved, Visible
<1>2. Lost(i)'
  BY DEF Lost, Early, Synced, Visible
<1>3. Filled(i)'
  BY DEF Filled, Sealed, Undoing, Visible
<1> QED BY <1>1, <1>2, <1>3 DEF Part

\* What every step of a save leaves alone.
Rest(i) == kind' = kind /\ had' = [j \in Saves |-> had'[j]]

LEMMA GoesOn ==
  ASSUME OrdinaryInv, NEW i \in Saves, Running(i), NEW l \in Labels, l \notin {"new", "done"},
         Goto(i, l), Works \/ Fails, Rest(i), Disk',
         \A j \in Saves : j # i /\ Absent(j) => Absent(j)',
         Laid(i)' /\ Lost(i)' /\ Filled(i)'
  PROVE  OrdinaryInv'
<1>1. /\ pc'[i] = l /\ (\A j \in Saves : j # i => pc'[j] = pc[j])
      /\ Turns' /\ faults' \in Nat /\ (faults > 0 => faults' > 0)
  BY GoingOn DEF OrdinaryInv
<1>2. pc' = [j \in Saves |-> pc'[j]] /\ outcome' = outcome /\ lock' = lock
  BY DEF Goto, OrdinaryInv, Control
<1>3. \A j \in Saves : Part(j)'
  BY <1>1, OthersStay DEF Part
<1>4. Control'
  BY <1>1, <1>2 DEF OrdinaryInv, Control, Rest
<1>5. Ordinary' /\ CrashesNeverWedge'
  BY <1>1, <1>2 DEF OrdinaryInv, Ordinary, CrashesNeverWedge, Rest
<1> QED BY <1>1, <1>3, <1>4, <1>5 DEF OrdinaryInv

LEMMA Leaves ==
  ASSUME OrdinaryInv, NEW i \in Saves, Running(i), NEW o, Return(i, o), Works \/ Fails,
         o = "ambiguous" => faults' > 0, Rest(i), Disk',
         \A j \in Saves : j # i /\ Absent(j) => Absent(j)'
  PROVE  OrdinaryInv'
<1>1. /\ pc'[i] = "done" /\ (\A j \in Saves : j # i => pc'[j] = pc[j])
      /\ outcome'[i] = o /\ (\A j \in Saves : j # i => outcome'[j] = outcome[j])
      /\ Turns' /\ faults' \in Nat /\ (faults > 0 => faults' > 0)
  BY Leaving DEF OrdinaryInv
<1>2. /\ pc' = [j \in Saves |-> pc'[j]] /\ outcome' = [j \in Saves |-> outcome'[j]]
      /\ lock' \in 0..MaxSaves
  <2>1. pc' = [j \in Saves |-> pc'[j]]
    BY DEF Return, OrdinaryInv, Control
  <2>2. outcome' = [j \in Saves |-> outcome'[j]]
    BY DEF Return, OrdinaryInv, Control
  <2>3. lock' = 0 \/ lock' = lock
    BY DEF Return
  <2>4. lock' \in 0..MaxSaves
    BY <2>3, PublicationAssumption DEF OrdinaryInv, Control
  <2> QED BY <2>1, <2>2, <2>4
<1>3. \A j \in Saves : Part(j)'
  BY <1>1, OthersStay, DoneIsPart
<1>4. Control'
  BY <1>1, <1>2 DEF Control, Rest
<1>5. Ordinary' /\ CrashesNeverWedge'
  BY <1>1 DEF OrdinaryInv, Ordinary, CrashesNeverWedge, Rest
<1> QED BY <1>1, <1>3, <1>4, <1>5 DEF OrdinaryInv

(***************************************************************************)
(* Whether what may be found stays whole.                                  *)
(***************************************************************************)
LEMMA SamePacks ==
  ASSUME Disk, Steady, UNCHANGED packages PROVE Packs' /\ Preserves
<1>1. content' = content /\ kept' = kept
  BY DEF packages
<1> QED BY <1>1 DEF Disk, Packs, Preserves, Whether, Steady

LEMMA SyncedPacks ==
  ASSUME Disk, Steady, NEW j \in Saves, SyncPackage(j) PROVE Packs' /\ Preserves
<1>1. Packs' /\ \A v \in Saves : kept[v] = {"whole"} => kept'[v] = {"whole"}
  BY SyncedIs DEF Disk
<1>2. \A d \in onDisk : \A v \in Shows(d) : v \in Saves
  BY DEF Disk, Promised, May
<1> QED BY <1>1, <1>2 DEF Disk, Preserves, Whether, Steady

LEMMA OtherPacks ==
  ASSUME Disk, Steady, Packs', NEW j, \A v \in Saves : v # j => kept'[v] = kept[v],
         Safe => \A d \in onDisk : j \notin Shows(d)
  PROVE  Preserves
<1>1. \A d \in onDisk : \A v \in Shows(d) : v \in Saves
  BY DEF Disk, Promised, May
<1> QED BY <1>1 DEF Disk, Preserves, Whether, Steady

(***************************************************************************)
(* Steps that move no package: they read, or they sync.                    *)
(***************************************************************************)
Calm == /\ UNCHANGED entries \/ SyncParent
        /\ UNCHANGED packages \/ \E j \in Saves : SyncPackage(j)

LEMMA Opened ==
  ASSUME OrdinaryInv, NEW i \in Saves
  PROVE  /\ Turns /\ Control /\ Disk /\ Entries /\ Packs /\ Located /\ Promised /\ Whether
         /\ pc[i] \in Labels /\ Laid(i) /\ Lost(i) /\ Filled(i)
         /\ names \in onDisk /\ \A e \in Names : names[e] \in 0..MaxSaves
         /\ \A e \in Names : names[e] # 0 => names[e] \in Saves
<1>1. /\ Turns /\ Control /\ Disk /\ Entries /\ Packs /\ Located /\ Promised /\ Whether
      /\ pc[i] \in Labels /\ Laid(i) /\ Lost(i) /\ Filled(i)
  BY DEF OrdinaryInv, Disk, Part
<1>2. names \in onDisk /\ \A e \in Names : names[e] \in 0..MaxSaves
  BY <1>1 DEF Entries
<1> QED BY <1>1, <1>2, PublicationAssumption DEF Saves

LEMMA CalmIs ==
  ASSUME OrdinaryInv, Calm, Steady
  PROVE  /\ Disk' /\ names' = names /\ Hidden' = Hidden /\ Asides' = Asides
         /\ names' \in onDisk' /\ onDisk' \subseteq onDisk
         /\ (Alone => Alone') /\ (SyncParent => Alone')
         /\ content' = content /\ \A v \in Saves : kept[v] = {"whole"} => kept'[v] = {"whole"}
         /\ \A j : (Absent(j) => Absent(j)') /\ (Hid(j) => Hid(j)')
<1>1. Disk
  BY DEF OrdinaryInv
<1>2. Packs' /\ Preserves /\ content' = content /\ \A v \in Saves : kept[v] = {"whole"} => kept'[v] = {"whole"}
  <2>1. CASE UNCHANGED packages
    BY <1>1, <2>1, SamePacks DEF packages
  <2>2. CASE \E j \in Saves : SyncPackage(j)
    <3>1. PICK j \in Saves : SyncPackage(j)
      BY <2>2
    <3> QED BY <1>1, <3>1, SyncedPacks, SyncedIs DEF Disk
  <2> QED BY <2>1, <2>2 DEF Calm
<1>3. names' = names /\ names' \in onDisk' /\ onDisk' \subseteq onDisk /\ (Alone => Alone') /\ (SyncParent => Alone')
  BY <1>1 DEF Calm, SyncParent, entries, Alone, Disk, Entries
<1>4. Hidden' = Hidden /\ Asides' = Asides
  BY <1>3 DEF Hidden, Asides, Exists
<1>5. Disk' /\ \A j : (Absent(j) => Absent(j)') /\ (Hid(j) => Hid(j)')
  BY <1>1, <1>2, QuietKeepsDisk DEF Calm
<1> QED BY <1>2, <1>3, <1>4, <1>5

LEMMA CalmGoes ==
  ASSUME OrdinaryInv, NEW i \in Saves, Running(i), NEW l \in Labels, l \notin {"new", "done"},
         Goto(i, l), Works \/ Fails, Rest(i), Calm
  PROVE  /\ pc'[i] = l /\ names' = names /\ Hidden' = Hidden /\ Asides' = Asides
         /\ names' \in onDisk' /\ onDisk' \subseteq onDisk /\ (Alone => Alone') /\ (SyncParent => Alone')
         /\ content' = content /\ \A v \in Saves : kept[v] = {"whole"} => kept'[v] = {"whole"}
         /\ \A j : (Absent(j) => Absent(j)') /\ (Hid(j) => Hid(j)')
         /\ (\A v : May(v) => May(v)') /\ (Acked' <=> Acked) /\ (Safe' => Safe)
         /\ (faults > 0 => faults' > 0) /\ (Fails => faults' > 0)
         /\ Laid(i)' /\ Lost(i)' /\ Filled(i)' => OrdinaryInv'
<1>1. Turns /\ Control /\ Disk
  BY Opened
<1>2. /\ pc'[i] = l /\ Steady /\ (\A v : May(v) => May(v)') /\ (Acked' <=> Acked) /\ (Safe' => Safe)
      /\ (faults > 0 => faults' > 0) /\ (Fails => faults' > 0)
  BY <1>1, GoingOn
<1>3. /\ Disk' /\ names' = names /\ Hidden' = Hidden /\ Asides' = Asides
      /\ names' \in onDisk' /\ onDisk' \subseteq onDisk
      /\ (Alone => Alone') /\ (SyncParent => Alone')
      /\ content' = content /\ \A v \in Saves : kept[v] = {"whole"} => kept'[v] = {"whole"}
      /\ \A j : (Absent(j) => Absent(j)') /\ (Hid(j) => Hid(j)')
  BY <1>2, CalmIs
<1>4. Laid(i)' /\ Lost(i)' /\ Filled(i)' => OrdinaryInv'
  BY <1>3, GoesOn
<1> QED BY <1>2, <1>3, <1>4

LEMMA CalmLeaves ==
  ASSUME OrdinaryInv, NEW i \in Saves, Running(i), NEW o, Return(i, o), o # "ok",
         Works \/ Fails, o = "ambiguous" => faults > 0 \/ Fails,
         o = "error" => \A d \in onDisk : i \notin Shows(d), Rest(i), Calm
  PROVE  OrdinaryInv'
<1>1. Turns /\ Control /\ Disk
  BY Opened
<1>2. Steady /\ (faults > 0 => faults' > 0) /\ (Fails => faults' > 0)
  BY <1>1, Leaving
<1>3. Disk' /\ \A j : Absent(j) => Absent(j)'
  BY <1>2, CalmIs
<1> QED BY <1>2, <1>3, Leaves

LEMMA UnshownIs ==
  ASSUME NEW i, Hid(i) \/ Absent(i), Entries
  PROVE  \A d \in onDisk : i \notin Shows(d)
  BY NamesAre DEF Hid, Absent, Shows, Stored

LEMMA RestIs ==
  ASSUME OrdinaryInv, kind' = kind, had' = had, NEW i
  PROVE  Rest(i)
  BY DEF Rest, OrdinaryInv, Control

LEMMA LabelsAre ==
  {"reconcile", "fence", "sweep", "stage", "staged", "write", "fenceStage", "aside", "untouched",
   "restored", "undone", "scrap", "fenceAside", "restore", "fenceNew", "fenceReported", "unpublish",
   "publish", "unpublished", "cleanup", "cleaned", "scrapped"} \subseteq Labels \ {"new", "done"}
  BY DEF Labels, Early, Staging, Moved, Visible

LEMMA AtIs ==
  ASSUME NEW i, NEW l \in Labels \ {"new", "done"}, At(i, l)
  PROVE  Running(i) /\ pc[i] = l
  BY DEF At, Running

LEMMA PriorKeeps ==
  ASSUME NEW i, Prior(i), names'[Old(i)] = names[Old(i)],
         \A v \in Saves : kept[v] = {"whole"} => kept'[v] = {"whole"},
         (\A v : May(v) => May(v)'), (Safe' => Safe)
  PROVE  Prior(i)'
<1>1. PICK p \in Saves : names[Old(i)] = p /\ May(p) /\ (Safe => kept[p] = {"whole"})
  BY DEF Prior
<1>2. names'[Old(i)] = p /\ May(p)' /\ (Safe' => kept'[p] = {"whole"})
  BY <1>1
<1> QED BY <1>2 DEF Prior

LEMMA ReconcileKeeps ==
  ASSUME OrdinaryInv, NEW i \in Saves, Reconcile(i), kind' = kind
  PROVE  OrdinaryInv'
<1>1. /\ pc[i] = "reconcile" /\ Running(i) /\ Rest(i) /\ Calm
      /\ names[Canon] # 0 \/ Asides = {}
  BY LabelsAre, AtIs, RestIs DEF Reconcile, Calm, Exists
<1>2. Absent(i) /\ Disk
  BY <1>1, Opened DEF Lost, Early
<1>3. ASSUME NEW l \in {"stage", "sweep", "fence"}, Goto(i, l), Works,
             l = "stage" => Hidden = {}, l = "sweep" => names[Canon] = 0, l = "fence" => names[Canon] # 0
      PROVE  OrdinaryInv'
  <2>0. l \in Labels /\ l \notin {"new", "done"}
    BY LabelsAre
  <2>1. /\ pc'[i] = l /\ names' = names /\ Hidden' = Hidden /\ Asides' = Asides /\ Absent(i)'
        /\ Laid(i)' /\ Lost(i)' /\ Filled(i)' => OrdinaryInv'
    BY <1>1, <1>2, <1>3, <2>0, CalmGoes
  <2>2. Laid(i)'
    BY <1>1, <1>3, <2>1 DEF Laid, Staging, Moved, Visible
  <2>3. Lost(i)'
    BY <1>1, <1>3, <2>1 DEF Lost, Early, Synced, Visible
  <2>4. Filled(i)'
    BY <1>3, <2>1 DEF Filled, Sealed, Undoing, Visible
  <2> QED BY <2>1, <2>2, <2>3, <2>4
<1>4. ASSUME Return(i, "ambiguous"), Works, names[Canon] # 0, ~Whole(Canon) PROVE OrdinaryInv'
  <2>1. faults > 0
    <3>1. names[Canon] \in Saves /\ names \in onDisk /\ Packs /\ faults \in Nat
      BY <1>4, Opened, NamesAre DEF Control
    <3>2. kept[names[Canon]] # {"whole"}
      BY <1>4, <3>1 DEF Packs, Whole
    <3>3. ~Safe
      BY <1>2, <1>4, <3>1, <3>2 DEF Disk, Whether, Shows
    <3> QED BY <3>1, <3>3 DEF Safe
  <2> QED BY <1>1, <1>4, <2>1, CalmLeaves
<1> QED BY <1>3, <1>4 DEF Reconcile, Exists

LEMMA FenceCanonicalKeeps ==
  ASSUME OrdinaryInv, NEW i \in Saves, FenceCanonical(i), kind' = kind
  PROVE  OrdinaryInv'
<1>1. pc[i] = "fence" /\ Running(i) /\ Rest(i)
  BY LabelsAre, AtIs, RestIs DEF FenceCanonical
<1>2. Absent(i) /\ Disk /\ names[Canon] # 0 /\ names[Canon] \in Saves
  BY <1>1, Opened, NamesAre DEF Lost, Early, Laid
<1>3. ASSUME NEW l \in {"stage", "sweep"}, Fenced(i, Canon, l), l = "stage" => Hidden = {}
      PROVE  OrdinaryInv'
  <2>0. l \in Labels /\ l \notin {"new", "done"} /\ Calm /\ SyncParent /\ Goto(i, l) /\ Works
    BY <1>2, <1>3, LabelsAre DEF Fenced, Calm
  <2>1. /\ pc'[i] = l /\ names' = names /\ Hidden' = Hidden /\ Asides' = Asides /\ Absent(i)'
        /\ Alone'
        /\ Laid(i)' /\ Lost(i)' /\ Filled(i)' => OrdinaryInv'
    BY <1>1, <1>2, <1>3, <2>0, CalmGoes
  <2>2. Laid(i)'
    BY <1>2, <1>3, <2>1 DEF Laid, Staging, Moved, Visible
  <2>3. Lost(i)'
    BY <1>1, <1>3, <2>1 DEF Lost, Early, Synced, Visible, Alone
  <2>4. Filled(i)'
    BY <1>3, <2>1 DEF Filled, Sealed, Undoing, Visible
  <2> QED BY <2>1, <2>2, <2>3, <2>4
<1>4. ASSUME Unfenced(Canon), Return(i, "ambiguous") PROVE OrdinaryInv'
  <2>1. Calm /\ Fails
    BY <1>2, <1>4 DEF Unfenced, Calm
  <2> QED BY <1>1, <1>4, <2>1, CalmLeaves
<1> QED BY <1>3, <1>4 DEF FenceCanonical

LEMMA EndSweepKeeps ==
  ASSUME OrdinaryInv, NEW i \in Saves, EndSweep(i), kind' = kind
  PROVE  OrdinaryInv'
<1>1. /\ pc[i] = "sweep" /\ Running(i) /\ Rest(i) /\ Calm /\ Hidden = {}
  BY LabelsAre, AtIs, RestIs DEF EndSweep, Calm
<1>2. Absent(i) /\ Disk
  BY <1>1, Opened DEF Lost, Early
<1>3. ASSUME Goto(i, "stage"), Works, SyncParent PROVE OrdinaryInv'
  <2>0. "stage" \in Labels
    BY LabelsAre
  <2>1. /\ pc'[i] = "stage" /\ names' = names /\ Hidden' = Hidden /\ Absent(i)'
        /\ Laid(i)' /\ Lost(i)' /\ Filled(i)' => OrdinaryInv'
    BY <1>1, <1>2, <1>3, <2>0, CalmGoes
  <2>2. Laid(i)'
    BY <1>1, <2>1 DEF Laid, Staging, Moved, Visible
  <2>3. Lost(i)'
    BY <2>1 DEF Lost, Early, Synced, Visible
  <2>4. Filled(i)'
    BY <2>1 DEF Filled, Sealed, Undoing, Visible
  <2> QED BY <2>1, <2>2, <2>3, <2>4
<1>4. ASSUME Fails, Return(i, "ambiguous") PROVE OrdinaryInv'
  BY <1>1, <1>4, CalmLeaves
<1> QED BY <1>3, <1>4 DEF EndSweep

LEMMA FenceUntouchedKeeps ==
  ASSUME OrdinaryInv, NEW i \in Saves, FenceUntouched(i), kind' = kind
  PROVE  OrdinaryInv'
<1>1. pc[i] = "untouched" /\ Running(i) /\ Rest(i)
  BY LabelsAre, AtIs, RestIs DEF FenceUntouched
<1>2. /\ names[Canon] # 0 /\ names[Canon] \in Saves
      /\ names[Tmp(i)] = i /\ Hidden = {Tmp(i)} /\ Alone /\ faults > 0
  BY <1>1, Opened, NamesAre DEF Lost, Synced, Laid, Staging, Filled, Undoing
<1>3. ASSUME Fenced(i, Canon, "scrap") PROVE OrdinaryInv'
  <2>0. "scrap" \in Labels /\ Calm /\ Goto(i, "scrap") /\ Works
    BY <1>2, <1>3, LabelsAre DEF Fenced, Calm
  <2>1. /\ pc'[i] = "scrap" /\ names' = names /\ Hidden' = Hidden
        /\ Alone' /\ faults' > 0
        /\ Laid(i)' /\ Lost(i)' /\ Filled(i)' => OrdinaryInv'
    BY <1>1, <1>2, <2>0, CalmGoes
  <2>2. Laid(i)'
    BY <1>2, <2>1 DEF Laid, Staging, Moved, Visible
  <2>3. Lost(i)'
    BY <2>1 DEF Lost, Early, Synced, Visible
  <2>4. Filled(i)'
    BY <2>1 DEF Filled, Sealed, Undoing, Visible
  <2> QED BY <2>1, <2>2, <2>3, <2>4
<1>4. ASSUME Unfenced(Canon), Return(i, "ambiguous") PROVE OrdinaryInv'
  <2>1. Calm /\ Fails
    BY <1>2, <1>4 DEF Unfenced, Calm
  <2> QED BY <1>1, <1>4, <2>1, CalmLeaves
<1> QED BY <1>3, <1>4 DEF FenceUntouched

LEMMA FenceReportedKeeps ==
  ASSUME OrdinaryInv, NEW i \in Saves, FenceReported(i), kind' = kind
  PROVE  OrdinaryInv'
<1>1. pc[i] = "fenceReported" /\ Running(i) /\ Rest(i)
  BY LabelsAre, AtIs, RestIs DEF FenceReported
<1>2. /\ names[Canon] = i /\ Hidden = (IF had[i] THEN {Old(i)} ELSE {})
      /\ \A d \in onDisk : \A e \in OldNames : d[e] = names[e]
      /\ \A d \in onDisk : \A e \in Names : d[e] = i => e \in {Tmp(i), Canon}
      /\ kept[i] = {"whole"} /\ faults > 0 /\ (Acked => had[i])
      /\ had[i] => Prior(i)
  BY <1>1, Opened DEF Lost, Laid, Visible, Filled, Undoing, Sealed
<1>3. ASSUME Fenced(i, Canon, "fenceNew") PROVE OrdinaryInv'
  <2>0. "fenceNew" \in Labels /\ Calm /\ Goto(i, "fenceNew") /\ Works /\ had' = had
    BY <1>2, <1>3, LabelsAre DEF Fenced, Calm, FenceReported
  <2>1. /\ pc'[i] = "fenceNew" /\ names' = names /\ Hidden' = Hidden /\ onDisk' \subseteq onDisk
        /\ \A v \in Saves : kept[v] = {"whole"} => kept'[v] = {"whole"}
        /\ (\A v : May(v) => May(v)') /\ (Acked' <=> Acked) /\ (Safe' => Safe)
        /\ Laid(i)' /\ Lost(i)' /\ Filled(i)' => OrdinaryInv'
    BY <1>1, <1>2, <2>0, CalmGoes
  <2>2. Laid(i)'
    BY <1>2, <2>0, <2>1 DEF Laid, Staging, Moved, Visible
  <2>3. Lost(i)'
    BY <1>2, <2>1 DEF Lost, Early, Synced, Visible
  <2>4. Filled(i)'
    <3>1. kept'[i] = {"whole"} /\ (Acked' => had'[i])
      BY <1>2, <2>0, <2>1
    <3>2. had'[i] => Prior(i)'
      BY <1>2, <2>0, <2>1, PriorKeeps
    <3> QED BY <2>1, <3>1, <3>2 DEF Filled, Sealed, Undoing, Visible
  <2> QED BY <2>1, <2>2, <2>3, <2>4
<1>4. ASSUME Unfenced(Canon), Return(i, "ambiguous") PROVE OrdinaryInv'
  <2>1. Calm /\ Fails
    BY <1>2, <1>4 DEF Unfenced, Calm
  <2> QED BY <1>1, <1>4, <2>1, CalmLeaves
<1> QED BY <1>3, <1>4 DEF FenceReported

(***************************************************************************)
(* Steps that rename a package.                                            *)
(***************************************************************************)
LEMMA GoingSame ==
  ASSUME OrdinaryInv, NEW i \in Saves, Running(i), NEW l \in Labels, l \notin {"new", "done"},
         Goto(i, l), Works \/ Fails, UNCHANGED packages
  PROVE  /\ pc'[i] = l /\ Steady /\ Packs' /\ Preserves /\ kept' = kept /\ content' = content
         /\ (\A v : May(v) => May(v)') /\ (Acked' <=> Acked) /\ (Safe' => Safe)
         /\ (faults > 0 => faults' > 0) /\ (Fails => faults' > 0)
         /\ May(i) /\ May(i)'
<1>1. Turns /\ Control /\ Disk /\ May(i)
  BY Opened, RunsAlone
<1>2. /\ pc'[i] = l /\ Steady
      /\ (\A v : May(v) => May(v)') /\ (Acked' <=> Acked) /\ (Safe' => Safe)
      /\ (faults > 0 => faults' > 0) /\ (Fails => faults' > 0)
  BY <1>1, GoingOn
<1>3. Packs' /\ Preserves /\ kept' = kept /\ content' = content
  BY <1>1, <1>2, SamePacks DEF packages
<1> QED BY <1>1, <1>2, <1>3

LEMMA LeavingSame ==
  ASSUME OrdinaryInv, NEW i \in Saves, Running(i), Return(i, "ambiguous"), Works \/ Fails,
         UNCHANGED packages
  PROVE  /\ pc'[i] = "done" /\ Steady /\ Packs' /\ Preserves /\ kept' = kept /\ content' = content
         /\ (\A v : May(v) => May(v)') /\ (Acked' <=> Acked) /\ (Safe' => Safe)
         /\ (faults > 0 => faults' > 0) /\ (Fails => faults' > 0)
         /\ May(i) /\ May(i)'
<1>1. Turns /\ Control /\ Disk /\ May(i)
  BY Opened, RunsAlone
<1>2. /\ pc'[i] = "done" /\ Steady
      /\ (\A v : May(v) => May(v)') /\ (Acked' <=> Acked) /\ (Safe' => Safe)
      /\ (faults > 0 => faults' > 0) /\ (Fails => faults' > 0)
  BY <1>1, Leaving
<1>3. Packs' /\ Preserves /\ kept' = kept /\ content' = content
  BY <1>1, <1>2, SamePacks DEF packages
<1> QED BY <1>1, <1>2, <1>3

LEMMA HiddenNext ==
  /\ Hidden' = {e \in Names : e # Canon /\ names'[e] # 0}
  /\ Asides' = {e \in OldNames : names'[e] # 0}
<1>1. Hidden' = {e \in Names : e # Canon /\ names'[e] # 0}
  BY DEF Hidden, Exists
<1> QED BY <1>1, OldIs, NamesAre DEF Asides

LEMMA FenceStageKeeps ==
  ASSUME OrdinaryInv, NEW i \in Saves, FenceStage(i), kind' = kind
  PROVE  OrdinaryInv'
<1>1. pc[i] = "fenceStage" /\ Running(i)
  BY LabelsAre, AtIs DEF FenceStage
<1>2. Rest(i) /\ (had'[i] <=> names[Canon] # 0)
  BY <1>1, Opened DEF FenceStage, Rest, Control, Exists
<1>3. /\ names[Tmp(i)] = i /\ Hidden = {Tmp(i)} /\ Alone /\ content[i] = "whole" /\ Disk
  BY <1>1, Opened DEF Lost, Synced, Laid, Staging, Filled
<1>4. ASSUME NEW l \in {"aside", "publish"}, Fenced(i, Tmp(i), l),
             l = "aside" <=> names[Canon] # 0
      PROVE  OrdinaryInv'
  <2>0. l \in Labels /\ l \notin {"new", "done"} /\ Calm /\ Goto(i, l) /\ Works /\ SyncParent /\ SyncPackage(i)
    BY <1>3, <1>4, LabelsAre DEF Fenced, Calm
  <2>1. /\ pc'[i] = l /\ names' = names /\ Hidden' = Hidden /\ Alone' /\ (Acked' <=> Acked)
        /\ Laid(i)' /\ Lost(i)' /\ Filled(i)' => OrdinaryInv'
    BY <1>1, <1>2, <2>0, CalmGoes
  <2>2. kept'[i] = {"whole"}
    BY <1>3, <2>0, SyncedIs DEF Disk
  <2>3. names[Canon] = 0 => ~Acked
    <3>1. Asides = {}
      BY <1>3, AsidesAre, NamesAre DEF Stored
    <3>2. names[Canon] = 0 => Shows(names) = {}
      BY <3>1, AsidesAre DEF Shows
    <3> QED BY <1>3, <3>2 DEF Disk, Promised, Entries
  <2>4. Laid(i)'
    <3>1. l = "aside" => names'[Canon] # 0 /\ had'[i]
      BY <1>2, <1>4, <2>1
    <3>2. l = "publish" => names'[Canon] = 0 /\ ~had'[i]
      BY <1>2, <1>4, <2>1
    <3> QED BY <1>3, <1>4, <2>1, <3>1, <3>2 DEF Laid, Staging, Moved, Visible
  <2>5. Lost(i)'
    BY <1>4, <2>1 DEF Lost, Early, Synced, Visible
  <2>6. Filled(i)'
    BY <1>2, <1>4, <2>1, <2>2, <2>3 DEF Filled, Sealed, Undoing, Visible
  <2> QED BY <2>1, <2>4, <2>5, <2>6
<1>5. ASSUME Unfenced(Tmp(i)), Goto(i, "undone") PROVE OrdinaryInv'
  <2>0. "undone" \in Labels /\ Calm /\ Fails
    BY <1>3, <1>5, LabelsAre DEF Unfenced, Calm
  <2>1. /\ pc'[i] = "undone" /\ names' = names /\ Hidden' = Hidden /\ Alone' /\ faults' > 0
        /\ Laid(i)' /\ Lost(i)' /\ Filled(i)' => OrdinaryInv'
    BY <1>1, <1>2, <1>3, <1>5, <2>0, CalmGoes
  <2>2. Laid(i)'
    BY <1>3, <2>1 DEF Laid, Staging, Moved, Visible
  <2>3. Lost(i)'
    BY <2>1 DEF Lost, Early, Synced, Visible
  <2>4. Filled(i)'
    BY <2>1 DEF Filled, Sealed, Undoing, Visible
  <2> QED BY <2>1, <2>2, <2>3, <2>4
<1> QED BY <1>4, <1>5 DEF FenceStage, Exists

LEMMA MoveAsideKeeps ==
  ASSUME OrdinaryInv, NEW i \in Saves, MoveAside(i), kind' = kind
  PROVE  OrdinaryInv'
<1>1. pc[i] = "aside" /\ Running(i) /\ UNCHANGED packages /\ had' = had /\ Rest(i)
  BY LabelsAre, AtIs, RestIs DEF MoveAside
<1>2. /\ names[Tmp(i)] = i /\ Hidden = {Tmp(i)} /\ Alone /\ names[Canon] # 0 /\ had[i]
      /\ kept[i] = {"whole"} /\ Disk
  BY <1>1, Opened DEF Lost, Synced, Laid, Staging, Filled, Sealed
<1>3. Asides = {} /\ i # 0 /\ Tmp(i) # Canon /\ Tmp(i) # Old(i) /\ Old(i) \in Names /\ Old(i) # Canon
  BY <1>2, AsidesAre, NamesAre DEF Stored
<1>4. ASSUME NEW l \in {"fenceAside", "restore"}, Rename(Canon, Old(i)), Goto(i, l), Works \/ Fails,
             l = "restore" => Fails
      PROVE  OrdinaryInv'
  <2>0. l \in Labels /\ l \notin {"new", "done"}
    BY <1>4, LabelsAre
  <2>1. /\ pc'[i] = l /\ Steady /\ Packs' /\ Preserves /\ kept' = kept /\ (Fails => faults' > 0)
    BY <1>1, <1>4, <2>0, GoingSame
  <2>2. /\ Disk' /\ (\A j \in Saves : Absent(j) => Absent(j)')
        /\ names'[Canon] = 0 /\ names'[Old(i)] = names[Canon]
        /\ \A f \in Names : f # Old(i) /\ f # Canon => names'[f] = names[f]
    BY <1>2, <1>3, <1>4, <2>1, AsideKeepsDisk
  <2>3. names'[Tmp(i)] = i /\ Hidden' = {Tmp(i), Old(i)}
    <3>1. \A e \in Names : e # Canon /\ names[e] # 0 <=> e = Tmp(i)
      BY <1>2, AsidesAre
    <3>2. names'[Tmp(i)] = i
      BY <1>2, <1>3, <2>2, NamesAre
    <3> QED BY <1>2, <1>3, <2>2, <3>1, <3>2, NamesAre, HiddenNext
  <2>4. Laid(i)'
    BY <1>1, <1>2, <1>4, <2>1, <2>2, <2>3 DEF Laid, Staging, Moved, Visible
  <2>5. Lost(i)'
    BY <1>4, <2>1 DEF Lost, Early, Synced, Visible
  <2>6. Filled(i)'
    BY <1>2, <1>4, <2>1 DEF Filled, Sealed, Undoing, Visible
  <2> QED BY <1>1, <1>4, <2>0, <2>2, <2>4, <2>5, <2>6, GoesOn
<1>5. ASSUME Rename(Canon, Old(i)), Return(i, "ambiguous"), Fails PROVE OrdinaryInv'
  <2>1. /\ Steady /\ Packs' /\ Preserves /\ faults' > 0
    BY <1>1, <1>5, LeavingSame
  <2>2. Disk' /\ (\A j \in Saves : Absent(j) => Absent(j)')
    BY <1>2, <1>3, <1>5, <2>1, AsideKeepsDisk
  <2> QED BY <1>1, <1>5, <2>1, <2>2, Leaves
<1>6. ASSUME UNCHANGED entries, Goto(i, "untouched"), Fails PROVE OrdinaryInv'
  <2>0. "untouched" \in Labels /\ Calm
    BY <1>1, <1>6, LabelsAre DEF Calm
  <2>1. /\ pc'[i] = "untouched" /\ names' = names /\ Hidden' = Hidden /\ Alone' /\ faults' > 0
        /\ Laid(i)' /\ Lost(i)' /\ Filled(i)' => OrdinaryInv'
    BY <1>1, <1>2, <1>6, <2>0, CalmGoes
  <2>2. Laid(i)'
    BY <1>2, <2>1 DEF Laid, Staging, Moved, Visible
  <2>3. Lost(i)'
    BY <2>1 DEF Lost, Early, Synced, Visible
  <2>4. Filled(i)'
    BY <2>1 DEF Filled, Sealed, Undoing, Visible
  <2> QED BY <2>1, <2>2, <2>3, <2>4
<1>7. ASSUME UNCHANGED entries, Return(i, "ambiguous"), Fails PROVE OrdinaryInv'
  <2>1. Calm
    BY <1>1, <1>7 DEF Calm
  <2> QED BY <1>1, <1>7, <2>1, CalmLeaves
<1> QED BY <1>4, <1>5, <1>6, <1>7 DEF MoveAside

LEMMA FenceAsideKeeps ==
  ASSUME OrdinaryInv, NEW i \in Saves, FenceAside(i), kind' = kind
  PROVE  OrdinaryInv'
<1>1. /\ pc[i] = "fenceAside" /\ Running(i) /\ Calm /\ UNCHANGED packages /\ had' = had /\ Rest(i)
  BY LabelsAre, AtIs, RestIs DEF FenceAside, Calm
<1>2. /\ names[Canon] = 0 /\ names[Tmp(i)] = i /\ Hidden = {Tmp(i), Old(i)} /\ had[i]
      /\ kept[i] = {"whole"} /\ Disk
  BY <1>1, Opened DEF Laid, Moved, Filled, Sealed
<1>3. Prior(i)
  <2>1. Old(i) \in Stored(names)
    BY <1>2, AsidesAre, NamesAre DEF Stored
  <2>2. PICK p : p = names[Old(i)]
    OBVIOUS
  <2>3. p \in Shows(names) /\ names \in onDisk
    BY <1>2, <2>1, <2>2 DEF Shows, Disk, Entries
  <2>4. p \in Saves /\ May(p) /\ (Safe => kept[p] = {"whole"})
    BY <1>2, <2>3 DEF Disk, Promised, Whether, May
  <2> QED BY <2>2, <2>4 DEF Prior
<1>4. ASSUME Works, SyncParent, Goto(i, "publish") PROVE OrdinaryInv'
  <2>0. "publish" \in Labels
    BY LabelsAre
  <2>1. /\ pc'[i] = "publish" /\ names' = names /\ Hidden' = Hidden /\ Alone'
        /\ \A v \in Saves : kept[v] = {"whole"} => kept'[v] = {"whole"}
        /\ (\A v : May(v) => May(v)') /\ (Acked' <=> Acked) /\ (Safe' => Safe)
        /\ Laid(i)' /\ Lost(i)' /\ Filled(i)' => OrdinaryInv'
    BY <1>1, <1>4, <2>0, CalmGoes
  <2>2. Laid(i)'
    BY <1>1, <1>2, <2>1 DEF Laid, Staging, Moved, Visible
  <2>3. Lost(i)'
    BY <2>1 DEF Lost, Early, Synced, Visible
  <2>4. Prior(i)'
    BY <1>3, <2>1, PriorKeeps
  <2>5. Filled(i)'
    BY <1>1, <1>2, <2>1, <2>4 DEF Filled, Sealed, Undoing, Visible
  <2> QED BY <2>1, <2>2, <2>3, <2>5
<1>5. ASSUME Fails, Goto(i, "restore") PROVE OrdinaryInv'
  <2>0. "restore" \in Labels
    BY LabelsAre
  <2>1. /\ pc'[i] = "restore" /\ names' = names /\ Hidden' = Hidden /\ faults' > 0
        /\ Laid(i)' /\ Lost(i)' /\ Filled(i)' => OrdinaryInv'
    BY <1>1, <1>5, <2>0, CalmGoes
  <2>2. Laid(i)'
    BY <1>1, <1>2, <2>1 DEF Laid, Staging, Moved, Visible
  <2>3. Lost(i)'
    BY <2>1 DEF Lost, Early, Synced, Visible
  <2>4. Filled(i)'
    BY <2>1 DEF Filled, Sealed, Undoing, Visible
  <2> QED BY <2>1, <2>2, <2>3, <2>4
<1> QED BY <1>4, <1>5 DEF FenceAside

LEMMA PublishKeeps ==
  ASSUME OrdinaryInv, NEW i \in Saves, Publish(i), kind' = kind
  PROVE  OrdinaryInv'
<1>1. pc[i] = "publish" /\ Running(i) /\ UNCHANGED packages /\ had' = had /\ Rest(i)
  BY LabelsAre, AtIs, RestIs DEF Publish
<1>2. /\ names[Canon] = 0 /\ names[Tmp(i)] = i /\ Hidden = (IF had[i] THEN {Tmp(i), Old(i)} ELSE {Tmp(i)})
      /\ Alone /\ kept[i] = {"whole"} /\ (Acked => had[i]) /\ (had[i] => Prior(i)) /\ Disk
  BY <1>1, Opened DEF Lost, Synced, Laid, Filled, Sealed
<1>3. /\ i # 0 /\ Tmp(i) # Canon /\ Tmp(i) # Old(i) /\ Old(i) \in Names /\ Old(i) # Canon
      /\ Tmp(i) \in Names /\ Tmp(i) \notin OldNames
  BY NamesAre
<1>4. ASSUME NEW l \in {"fenceNew", "fenceReported"}, Rename(Tmp(i), Canon), Goto(i, l),
             Works \/ Fails, l = "fenceReported" => Fails
      PROVE  OrdinaryInv'
  <2>0. l \in Labels /\ l \notin {"new", "done"}
    BY <1>4, LabelsAre
  <2>1. /\ pc'[i] = l /\ Steady /\ Packs' /\ Preserves /\ kept' = kept /\ (Fails => faults' > 0)
        /\ (\A v : May(v) => May(v)') /\ (Acked' <=> Acked) /\ (Safe' => Safe) /\ May(i)'
    BY <1>1, <1>4, <2>0, GoingSame
  <2>2. /\ Disk' /\ (\A j \in Saves : Absent(j) => Absent(j)')
        /\ names'[Canon] = i /\ names'[Tmp(i)] = 0
        /\ \A f \in Names : f # Tmp(i) /\ f # Canon => names'[f] = names[f]
        /\ \A c \in onDisk' : \E d \in onDisk :
             \/ c = d
             \/ c[Canon] = i /\ c[Tmp(i)] = 0 /\ \A f \in Names : f # Tmp(i) /\ f # Canon => c[f] = d[f]
    BY <1>2, <1>3, <1>4, <2>1, ShowingKeepsDisk
  <2>3. Hidden' = IF had[i] THEN {Old(i)} ELSE {}
    <3>1. \A e \in Names : e # Canon /\ names[e] # 0 <=> e = Tmp(i) \/ (had[i] /\ e = Old(i))
      BY <1>2, AsidesAre
    <3>2. \A e \in Names : e # Canon /\ names'[e] # 0 <=> had[i] /\ e = Old(i)
      BY <1>3, <2>2, <3>1
    <3> QED BY <1>3, <3>2, HiddenNext
  <2>4. \A d \in onDisk' : \A e \in OldNames : d[e] = names'[e]
    BY <1>2, <1>3, <2>2, NamesAre DEF Alone
  <2>5. \A d \in onDisk' : \A e \in Names : d[e] = i => e \in {Tmp(i), Canon}
    <3>1. \A e \in Names : names[e] = i => e = Tmp(i)
      BY <1>2, <1>3 DEF Disk, Located, Entries
    <3> QED BY <1>2, <2>2, <3>1 DEF Alone
  <2>6. Laid(i)'
    BY <1>1, <1>4, <2>1, <2>2, <2>3 DEF Laid, Staging, Moved, Visible
  <2>7. Lost(i)'
    BY <1>4, <2>1, <2>4, <2>5 DEF Lost, Early, Synced, Visible
  <2>8. Filled(i)'
    <3>1. had'[i] => Prior(i)'
      BY <1>1, <1>2, <1>3, <2>1, <2>2, PriorKeeps
    <3> QED BY <1>1, <1>2, <1>4, <2>1, <3>1 DEF Filled, Sealed, Undoing, Visible
  <2> QED BY <1>1, <1>4, <2>0, <2>2, <2>6, <2>7, <2>8, GoesOn
<1>5. ASSUME UNCHANGED entries, Return(i, "ambiguous"), Fails PROVE OrdinaryInv'
  <2>1. Calm
    BY <1>1, <1>5 DEF Calm
  <2> QED BY <1>1, <1>5, <2>1, CalmLeaves
<1> QED BY <1>4, <1>5 DEF Publish

\* A save returns Ok after the names and its package have been synced.
LEMMA OkKeeps ==
  ASSUME OrdinaryInv, NEW i \in Saves, Running(i), Return(i, "ok"), Works, Rest(i), SyncParent,
         UNCHANGED packages \/ SyncPackage(i), names[Canon] = i, kept[i] = {"whole"}
  PROVE  OrdinaryInv'
<1>1. Turns /\ Control /\ Disk /\ Entries /\ Packs /\ Located /\ May(i) /\ i # 0 /\ names \in onDisk
  BY Opened, RunsAlone
<1>2. /\ pc'[i] = "done" /\ outcome'[i] = "ok" /\ \A j \in Saves : j # i => outcome'[j] = outcome[j]
  BY <1>1, Leaving
<1>3. Packs' /\ kept'[i] = {"whole"}
  BY <1>1, SyncedIs DEF packages, Packs
<1>4. names' = names /\ onDisk' = {names}
  BY DEF SyncParent
<1>5. May(i)'
  BY <1>1, <1>2 DEF May, Saves
<1>6. Entries' /\ Located' /\ \A j : Absent(j) => Absent(j)'
  BY <1>1, <1>4 DEF Entries, Located, Absent
<1>7. Shows(names') = {i}
  BY <1>1, <1>4 DEF Shows
<1>8. Promised'
  <2>1. \A d \in onDisk' : \A v \in Shows(d) : v = i
    BY <1>4, <1>7
  <2>2. \A d \in onDisk' : Shows(d) # {}
    BY <1>4, <1>7
  <2>3. "hollow" \notin kept'[i]
    BY <1>3
  <2> QED BY <1>5, <2>1, <2>2, <2>3 DEF Promised
<1>9. Whether'
  <2>1. \A d \in onDisk' : \A v \in Shows(d) : kept'[v] = {"whole"}
    BY <1>3, <1>4, <1>7
  <2>2. \A d \in onDisk' : d[Canon] # 0
    BY <1>1, <1>4
  <2> QED BY <1>7, <2>1, <2>2 DEF Whether
<1> QED BY <1>3, <1>6, <1>8, <1>9, Leaves DEF Disk

LEMMA FenceNewKeeps ==
  ASSUME OrdinaryInv, NEW i \in Saves, FenceNew(i), kind' = kind
  PROVE  OrdinaryInv'
<1>1. pc[i] = "fenceNew" /\ Running(i) /\ had' = had /\ Rest(i)
  BY LabelsAre, AtIs, RestIs DEF FenceNew
<1>2. /\ names[Canon] = i /\ Hidden = (IF had[i] THEN {Old(i)} ELSE {})
      /\ \A d \in onDisk : \A e \in OldNames : d[e] = names[e]
      /\ \A d \in onDisk : \A e \in Names : d[e] = i => e \in {Tmp(i), Canon}
      /\ kept[i] = {"whole"} /\ (Acked => had[i]) /\ (had[i] => Prior(i))
  BY <1>1, Opened DEF Lost, Laid, Visible, Filled, Sealed
<1>3. ASSUME SyncParent, SyncPackage(i), Works, had[i], Goto(i, "cleanup") PROVE OrdinaryInv'
  <2>0. "cleanup" \in Labels /\ Calm
    BY <1>3, LabelsAre DEF Calm
  <2>1. /\ pc'[i] = "cleanup" /\ names' = names /\ Hidden' = Hidden /\ Alone'
        /\ \A v \in Saves : kept[v] = {"whole"} => kept'[v] = {"whole"}
        /\ Laid(i)' /\ Lost(i)' /\ Filled(i)' => OrdinaryInv'
    BY <1>1, <1>3, <2>0, CalmGoes
  <2>2. Laid(i)'
    BY <1>2, <1>3, <2>1 DEF Laid, Staging, Moved, Visible
  <2>3. Lost(i)'
    BY <1>2, <2>1 DEF Lost, Early, Synced, Visible, Alone
  <2>4. Filled(i)'
    BY <1>2, <2>1 DEF Filled, Sealed, Undoing, Visible
  <2> QED BY <2>1, <2>2, <2>3, <2>4
<1>4. ASSUME SyncParent, SyncPackage(i), Works, Return(i, "ok") PROVE OrdinaryInv'
  BY <1>1, <1>2, <1>4, OkKeeps
<1>5. ASSUME Unfenced(Canon), Goto(i, "unpublish") PROVE OrdinaryInv'
  <2>0. "unpublish" \in Labels /\ Calm /\ Fails
    BY <1>2, <1>5, LabelsAre DEF Unfenced, Calm
  <2>1. /\ pc'[i] = "unpublish" /\ names' = names /\ Hidden' = Hidden /\ onDisk' \subseteq onDisk
        /\ \A v \in Saves : kept[v] = {"whole"} => kept'[v] = {"whole"}
        /\ (\A v : May(v) => May(v)') /\ (Acked' <=> Acked) /\ (Safe' => Safe) /\ faults' > 0
        /\ Laid(i)' /\ Lost(i)' /\ Filled(i)' => OrdinaryInv'
    BY <1>1, <1>5, <2>0, CalmGoes
  <2>2. Laid(i)'
    BY <1>1, <1>2, <2>1 DEF Laid, Staging, Moved, Visible
  <2>3. Lost(i)'
    BY <1>2, <2>1 DEF Lost, Early, Synced, Visible
  <2>4. Filled(i)'
    <3>1. had'[i] => Prior(i)'
      BY <1>1, <1>2, <2>1, PriorKeeps
    <3> QED BY <1>1, <1>2, <2>1, <3>1 DEF Filled, Sealed, Undoing, Visible
  <2> QED BY <2>1, <2>2, <2>3, <2>4
<1> QED BY <1>3, <1>4, <1>5 DEF FenceNew

LEMMA AsideIsPrior ==
  ASSUME Disk, NEW i \in Saves, names[Canon] = 0, Old(i) \in Hidden
  PROVE  Prior(i)
<1>1. Old(i) \in Stored(names)
  BY AsidesAre, NamesAre DEF Stored
<1>2. PICK p : p = names[Old(i)]
  OBVIOUS
<1>3. p \in Shows(names) /\ names \in onDisk
  BY <1>1, <1>2 DEF Shows, Disk, Entries
<1>4. p \in Saves /\ May(p) /\ (Safe => kept[p] = {"whole"})
  BY <1>3 DEF Disk, Promised, Whether, May
<1> QED BY <1>2, <1>4 DEF Prior

LEMMA RestorePriorKeeps ==
  ASSUME OrdinaryInv, NEW i \in Saves, RestorePrior(i), kind' = kind
  PROVE  OrdinaryInv'
<1>1. pc[i] = "restore" /\ Running(i) /\ UNCHANGED packages /\ had' = had /\ Rest(i)
  BY LabelsAre, AtIs, RestIs DEF RestorePrior
<1>2. /\ names[Canon] = 0 /\ names[Tmp(i)] = i /\ Hidden = {Tmp(i), Old(i)} /\ faults > 0 /\ Disk
  BY <1>1, Opened DEF Laid, Moved, Filled, Undoing
<1>3. /\ i # 0 /\ Tmp(i) # Canon /\ Tmp(i) # Old(i) /\ Old(i) \in Names /\ Old(i) # Canon /\ Tmp(i) \in Names
  BY NamesAre
<1>4. PICK p \in Saves : names[Old(i)] = p /\ May(p) /\ (Safe => kept[p] = {"whole"})
  BY <1>2, AsideIsPrior DEF Prior
<1>5. p # 0
  BY NamesAre
<1>6. ASSUME Rename(Old(i), Canon), Goto(i, "restored"), Works PROVE OrdinaryInv'
  <2>0. "restored" \in Labels
    BY LabelsAre
  <2>1. /\ pc'[i] = "restored" /\ Steady /\ Packs' /\ Preserves /\ kept' = kept /\ (faults > 0 => faults' > 0)
        /\ (\A v : May(v) => May(v)') /\ (Safe' => Safe)
    BY <1>1, <1>6, <2>0, GoingSame
  <2>2. May(p)' /\ (Safe' => kept'[p] = {"whole"})
    BY <1>4, <2>1
  <2>3. /\ Disk' /\ (\A j \in Saves : Absent(j) => Absent(j)')
        /\ names'[Canon] = p /\ names'[Old(i)] = 0
        /\ \A f \in Names : f # Old(i) /\ f # Canon => names'[f] = names[f]
    BY <1>2, <1>3, <1>4, <1>5, <1>6, <2>1, <2>2, ShowingKeepsDisk
  <2>4. names'[Tmp(i)] = i /\ Hidden' = {Tmp(i)}
    <3>1. \A e \in Names : e # Canon /\ names[e] # 0 <=> e = Tmp(i) \/ e = Old(i)
      BY <1>2, AsidesAre
    <3>2. \A e \in Names : e # Canon /\ names'[e] # 0 <=> e = Tmp(i)
      BY <1>3, <2>3, <3>1
    <3> QED BY <1>2, <1>3, <2>3, <3>2, HiddenNext
  <2>5. Laid(i)'
    BY <1>5, <2>1, <2>3, <2>4 DEF Laid, Staging, Moved, Visible
  <2>6. Lost(i)'
    BY <2>1 DEF Lost, Early, Synced, Visible
  <2>7. Filled(i)'
    BY <1>2, <2>1 DEF Filled, Sealed, Undoing, Visible
  <2> QED BY <1>1, <1>6, <2>0, <2>3, <2>5, <2>6, <2>7, GoesOn
<1>7. ASSUME Rename(Old(i), Canon), Return(i, "ambiguous"), Fails PROVE OrdinaryInv'
  <2>1. Steady /\ Packs' /\ Preserves /\ kept' = kept /\ faults' > 0 /\ (\A v : May(v) => May(v)') /\ (Safe' => Safe)
    BY <1>1, <1>7, LeavingSame
  <2>2. May(p)' /\ (Safe' => kept'[p] = {"whole"})
    BY <1>4, <2>1
  <2>3. Disk' /\ (\A j \in Saves : Absent(j) => Absent(j)')
    BY <1>2, <1>3, <1>4, <1>5, <1>7, <2>1, <2>2, ShowingKeepsDisk
  <2> QED BY <1>1, <1>7, <2>1, <2>3, Leaves
<1>8. ASSUME UNCHANGED entries, Return(i, "ambiguous"), Fails PROVE OrdinaryInv'
  <2>1. Calm
    BY <1>1, <1>8 DEF Calm
  <2> QED BY <1>1, <1>8, <2>1, CalmLeaves
<1> QED BY <1>6, <1>7, <1>8 DEF RestorePrior

LEMMA UnpublishKeeps ==
  ASSUME OrdinaryInv, NEW i \in Saves, Unpublish(i), kind' = kind
  PROVE  OrdinaryInv'
<1>1. UNCHANGED packages /\ had' = had /\ Rest(i)
  BY RestIs DEF Unpublish
<1>2. /\ i # 0 /\ Tmp(i) # Canon /\ Tmp(i) # Old(i) /\ Old(i) \in Names /\ Old(i) # Canon
      /\ Tmp(i) \in Names /\ Tmp(i) \notin OldNames /\ Old(i) \in OldNames
  BY NamesAre
<1>3. Disk
  BY Opened
<1>4. CASE At(i, "unpublish")
  <2>1. /\ pc[i] = "unpublish" /\ Running(i) /\ names[Canon] = i /\ faults > 0
        /\ Hidden = (IF had[i] THEN {Old(i)} ELSE {})
        /\ \A d \in onDisk : \A e \in OldNames : d[e] = names[e]
        /\ \A d \in onDisk : \A e \in Names : d[e] = i => e \in {Tmp(i), Canon}
        /\ (Acked => had[i]) /\ (had[i] => Prior(i))
    BY <1>4, LabelsAre, AtIs, Opened DEF Lost, Laid, Visible, Filled, Undoing
  <2>2. Asides = (IF had[i] THEN {Old(i)} ELSE {}) /\ (~had[i] => ~Safe)
    <3>1. ~had[i] => ~Safe
      BY <2>1, Opened DEF Safe, Control
    <3>2. \A e \in Asides : e \in Hidden /\ e \in OldNames
      BY AsidesAre DEF Stored
    <3>3. had[i] => Old(i) \in Asides
      BY <1>2, <2>1, AsidesAre DEF Stored
    <3> QED BY <2>1, <3>1, <3>2, <3>3
  <2>3. ASSUME \A v : May(v) => May(v)', Safe' => Safe, kept' = kept,
               NEW p, p = names[Old(i)], Asides # {}
        PROVE  May(p)' /\ (Safe' => kept'[p] = {"whole"})
    <3>1. PICK q \in Saves : names[Old(i)] = q /\ May(q) /\ (Safe => kept[q] = {"whole"})
      BY <2>1, <2>2, <2>3 DEF Prior
    <3> QED BY <2>3, <3>1
  <2>4. ASSUME Rename(Canon, Tmp(i)), Goto(i, "unpublished"), Works PROVE OrdinaryInv'
    <3>0. "unpublished" \in Labels
      BY LabelsAre
    <3>1. /\ pc'[i] = "unpublished" /\ Steady /\ Packs' /\ Preserves /\ kept' = kept
          /\ (\A v : May(v) => May(v)') /\ (Acked' <=> Acked) /\ (Safe' => Safe) /\ (faults > 0 => faults' > 0)
      BY <1>1, <2>1, <2>4, <3>0, GoingSame
    <3>2. \A p : p = names[Old(i)] /\ Asides # {} => May(p)' /\ (Safe' => kept'[p] = {"whole"})
      BY <2>3, <3>1
    <3>3. /\ Disk' /\ (\A j \in Saves : Absent(j) => Absent(j)')
          /\ names'[Canon] = 0 /\ names'[Tmp(i)] = i
          /\ \A f \in Names : f # Tmp(i) /\ f # Canon => names'[f] = names[f]
          /\ \A d \in onDisk' : \A e \in OldNames : d[e] = names'[e]
      BY <1>3, <2>1, <2>2, <2>4, <3>1, <3>2, UnpublishingKeepsDisk
    <3>4. Hidden' = IF had[i] THEN {Tmp(i), Old(i)} ELSE {Tmp(i)}
      <4>1. \A e \in Names : e # Canon /\ names[e] # 0 <=> had[i] /\ e = Old(i)
        BY <2>1, AsidesAre
      <4>2. \A e \in Names : e # Canon /\ names'[e] # 0 <=> e = Tmp(i) \/ (had[i] /\ e = Old(i))
        BY <1>2, <3>3, <4>1
      <4> QED BY <1>2, <4>2, HiddenNext
    <3>5. Laid(i)'
      BY <1>1, <3>1, <3>3, <3>4 DEF Laid, Staging, Moved, Visible
    <3>6. Lost(i)'
      BY <3>1, <3>3 DEF Lost, Early, Synced, Visible
    <3>7. Filled(i)'
      <4>1. had'[i] => Prior(i)'
        BY <1>1, <1>2, <2>1, <3>1, <3>3, PriorKeeps
      <4> QED BY <1>1, <2>1, <3>1, <4>1 DEF Filled, Sealed, Undoing, Visible
    <3> QED BY <1>1, <2>1, <2>4, <3>0, <3>3, <3>5, <3>6, <3>7, GoesOn
  <2>5. ASSUME Rename(Canon, Tmp(i)), Return(i, "ambiguous"), Fails PROVE OrdinaryInv'
    <3>1. Steady /\ Packs' /\ Preserves /\ kept' = kept /\ faults' > 0 /\ (\A v : May(v) => May(v)') /\ (Safe' => Safe)
      BY <1>1, <2>1, <2>5, LeavingSame
    <3>2. \A p : p = names[Old(i)] /\ Asides # {} => May(p)' /\ (Safe' => kept'[p] = {"whole"})
      BY <2>3, <3>1
    <3>3. Disk' /\ (\A j \in Saves : Absent(j) => Absent(j)')
      BY <1>3, <2>1, <2>2, <2>5, <3>1, <3>2, UnpublishingKeepsDisk
    <3> QED BY <1>1, <2>1, <2>5, <3>1, <3>3, Leaves
  <2>6. ASSUME UNCHANGED entries, Return(i, "ambiguous"), Fails PROVE OrdinaryInv'
    <3>1. Calm
      BY <1>1, <2>6 DEF Calm
    <3> QED BY <1>1, <2>1, <2>6, <3>1, CalmLeaves
  <2>7. pc[i] # "unpublished"
    BY <2>1
  <2> QED BY <2>4, <2>5, <2>6, <2>7 DEF Unpublish, At
<1>5. CASE At(i, "unpublished")
  <2>1. /\ pc[i] = "unpublished" /\ Running(i) /\ names[Canon] = 0 /\ names[Tmp(i)] = i /\ faults > 0
        /\ Hidden = (IF had[i] THEN {Tmp(i), Old(i)} ELSE {Tmp(i)})
    BY <1>5, LabelsAre, AtIs, Opened DEF Laid, Filled, Undoing
  <2>2. ASSUME NEW l \in {"restore", "undone"}, SyncParent, Goto(i, l), Works,
               l = "restore" <=> had[i]
        PROVE OrdinaryInv'
    <3>0. l \in Labels /\ l \notin {"new", "done"} /\ Calm
      BY <1>1, <2>2, LabelsAre DEF Calm
    <3>1. /\ pc'[i] = l /\ names' = names /\ Hidden' = Hidden /\ Alone' /\ (faults > 0 => faults' > 0)
          /\ Laid(i)' /\ Lost(i)' /\ Filled(i)' => OrdinaryInv'
      BY <1>1, <2>1, <2>2, <3>0, CalmGoes
    <3>2. Laid(i)'
      BY <1>1, <2>1, <2>2, <3>1 DEF Laid, Staging, Moved, Visible
    <3>3. Lost(i)'
      BY <2>2, <3>1 DEF Lost, Early, Synced, Visible
    <3>4. Filled(i)'
      BY <2>1, <2>2, <3>1 DEF Filled, Sealed, Undoing, Visible
    <3> QED BY <3>1, <3>2, <3>3, <3>4
  <2>3. ASSUME UNCHANGED entries, Return(i, "ambiguous"), Fails PROVE OrdinaryInv'
    <3>1. Calm
      BY <1>1, <2>3 DEF Calm
    <3> QED BY <1>1, <2>1, <2>3, <3>1, CalmLeaves
  <2>4. pc[i] # "unpublish"
    BY <2>1
  <2> QED BY <2>2, <2>3, <2>4 DEF Unpublish, At
<1> QED BY <1>4, <1>5 DEF Unpublish

LEMMA FenceRestoredKeeps ==
  ASSUME OrdinaryInv, NEW i \in Saves, FenceRestored(i), kind' = kind
  PROVE  OrdinaryInv'
<1>1. had' = had /\ Rest(i)
  BY RestIs DEF FenceRestored
<1>2. /\ pc[i] \in {"restored", "undone"} /\ Running(i) /\ names[Tmp(i)] = i /\ Hidden = {Tmp(i)} /\ faults > 0
      /\ pc[i] = "restored" => names[Canon] \in Saves
  BY LabelsAre, AtIs, Opened, NamesAre DEF FenceRestored, At, Laid, Staging, Filled, Undoing
<1>3. ASSUME Calm, SyncParent, Goto(i, "scrap"), Works PROVE OrdinaryInv'
  <2>0. "scrap" \in Labels
    BY LabelsAre
  <2>1. /\ pc'[i] = "scrap" /\ names' = names /\ Hidden' = Hidden /\ Alone' /\ faults' > 0
        /\ Laid(i)' /\ Lost(i)' /\ Filled(i)' => OrdinaryInv'
    BY <1>1, <1>2, <1>3, <2>0, CalmGoes
  <2>2. Laid(i)'
    BY <1>2, <2>1 DEF Laid, Staging, Moved, Visible
  <2>3. Lost(i)'
    BY <2>1 DEF Lost, Early, Synced, Visible
  <2>4. Filled(i)'
    BY <2>1 DEF Filled, Sealed, Undoing, Visible
  <2> QED BY <2>1, <2>2, <2>3, <2>4
<1>4. ASSUME Calm, Return(i, "ambiguous"), Fails PROVE OrdinaryInv'
  BY <1>1, <1>2, <1>4, CalmLeaves
<1>5. CASE At(i, "restored") /\ Fenced(i, Canon, "scrap")
  <2>1. Calm /\ SyncParent /\ Goto(i, "scrap") /\ Works
    BY <1>2, <1>5 DEF Fenced, Calm, At
  <2> QED BY <1>3, <2>1
<1>6. CASE At(i, "restored") /\ Unfenced(Canon) /\ Return(i, "ambiguous")
  <2>1. Calm /\ Fails
    BY <1>2, <1>6 DEF Unfenced, Calm, At
  <2> QED BY <1>4, <1>6, <2>1
<1>7. CASE Works /\ SyncParent /\ Goto(i, "scrap") /\ UNCHANGED packages
  BY <1>3, <1>7 DEF Calm
<1>8. CASE Fails /\ Return(i, "ambiguous") /\ UNCHANGED <<entries, packages>>
  BY <1>4, <1>8 DEF Calm
<1> QED BY <1>5, <1>6, <1>7, <1>8 DEF FenceRestored

(***************************************************************************)
(* Steps that write or remove a package.                                   *)
(***************************************************************************)
LEMMA StageIsUnshown ==
  ASSUME Disk, NEW i \in Saves, Alone, names[Tmp(i)] = i, Hidden = {Tmp(i)}
  PROVE  Hid(i) /\ \A d \in onDisk : i \notin Shows(d)
<1>1. \A e \in OldNames \cup {Canon} : names[e] # i
  BY NamesAre DEF Disk, Located, Entries
<1>2. Hid(i)
  BY <1>1 DEF Hid, Alone
<1> QED BY <1>2, UnshownIs DEF Disk

\* What a save removes, no recovery can find.
LEMMA RemovedIsUnshown ==
  ASSUME OrdinaryInv, NEW i \in Saves, NEW j \in Removing(i)
  PROVE  j \in Saves /\ (Safe => \A d \in onDisk : j \notin Shows(d))
<1>1. Disk /\ Located /\ pc[i] \in Labels /\ names \in onDisk /\ \A e \in Names : names[e] # 0 => names[e] \in Saves
  BY Opened
<1>2. CASE pc[i] = "cleanup"
  <2>1. /\ names[Canon] = i /\ Hidden = {Old(i)} /\ \A d \in onDisk : d[Canon] = i
    BY <1>2, Opened DEF Laid, Lost
  <2>2. j = names[Old(i)] /\ Old(i) \in Names /\ Old(i) # Canon /\ i # 0
    BY <1>2, NamesAre DEF Removing
  <2>3. j # 0 /\ j # i
    <3>1. j # 0
      BY <2>1, <2>2, AsidesAre
    <3> QED BY <1>1, <2>1, <2>2, <3>1, NamesAre DEF Located
  <2>4. \A d \in onDisk : Shows(d) = {i}
    BY <2>1, <2>2 DEF Shows
  <2> QED BY <1>1, <2>2, <2>3, <2>4
<1>3. CASE pc[i] = "scrap"
  <2>1. names[Tmp(i)] = i /\ Hidden = {Tmp(i)} /\ Alone
    BY <1>3, Opened DEF Laid, Lost, Staging, Synced
  <2>2. j = i
    BY <1>3 DEF Removing
  <2> QED BY <1>1, <2>1, <2>2, StageIsUnshown
<1>4. CASE pc[i] = "sweep"
  <2>1. PICK e \in Hidden : j = names[e]
    BY <1>4 DEF Removing
  <2>2. e \in Names /\ e # Canon /\ names[e] # 0
    BY AsidesAre
  <2>3. CASE names[Canon] # 0
    <3>1. \A d \in onDisk : d[Canon] = names[Canon]
      BY <1>4, <2>3, Opened DEF Lost
    <3>2. \A d \in onDisk : Shows(d) = {names[Canon]}
      BY <2>3, <3>1 DEF Shows
    <3>3. j # names[Canon]
      BY <1>1, <2>1, <2>2, <2>3, NamesAre DEF Located
    <3> QED BY <1>1, <2>1, <2>2, <3>2, <3>3
  <2>4. CASE names[Canon] = 0
    <3>1. Asides = {}
      BY <1>4, <2>4, Opened DEF Laid
    <3>2. Shows(names) = {}
      BY <2>4, <3>1, AsidesAre DEF Shows
    <3>3. Safe => \A d \in onDisk : Shows(d) = {}
      BY <1>1, <3>2 DEF Disk, Whether
    <3> QED BY <1>1, <2>1, <2>2, <3>3
  <2> QED BY <2>3, <2>4
<1>5. CASE pc[i] \notin {"cleanup", "scrap", "sweep"}
  <2>1. pc[i] # "unclaim"
    BY <1>1 DEF Labels, Early, Staging, Moved, Visible
  <2>2. Removing(i) = {}
    BY <1>5, <2>1 DEF Removing
  <2> QED BY <2>2
<1> QED BY <1>2, <1>3, <1>4, <1>5

\* A removal that fails, or that its process does not survive.
LEMMA DamageKeeps ==
  ASSUME OrdinaryInv, NEW i \in Saves, Running(i), NEW o \in {"ambiguous", "killed"}, Return(i, o),
         o = "ambiguous" => Fails, Works \/ Fails,
         UNCHANGED packages \/ \E j \in Removing(i) : Damage(j), UNCHANGED entries, Rest(i)
  PROVE  OrdinaryInv'
<1>1. Turns /\ Control /\ Disk
  BY Opened
<1>2. Steady /\ (Fails => faults' > 0)
  BY <1>1, Leaving
<1>3. Packs' /\ Preserves
  <2>1. CASE UNCHANGED packages
    BY <1>1, <1>2, <2>1, SamePacks
  <2>2. CASE \E j \in Removing(i) : Damage(j)
    <3>1. PICK j \in Removing(i) : Damage(j)
      BY <2>2
    <3>2. j \in Saves /\ (Safe => \A d \in onDisk : j \notin Shows(d))
      BY RemovedIsUnshown
    <3>3. Packs' /\ \A v \in Saves : v # j => kept'[v] = kept[v]
      BY <1>1, <3>1, <3>2, DamagedIs DEF Disk
    <3> QED BY <1>1, <1>2, <3>2, <3>3, OtherPacks
  <2> QED BY <2>1, <2>2
<1>4. Disk' /\ \A j : Absent(j) => Absent(j)'
  BY <1>1, <1>2, <1>3, QuietKeepsDisk
<1> QED BY <1>2, <1>4, Leaves

LEMMA RemoveKeepsDisk ==
  ASSUME OrdinaryInv, NEW i \in Saves, NEW e \in Hidden, NEW w \in Removing(i), w = names[e],
         Remove(e), Steady, e \in OldNames => \A d \in onDisk : d[Canon] # 0
  PROVE  /\ Disk' /\ \A j \in Saves : (Absent(j) => Absent(j)') /\ (Hid(j) => Hid(j)')
         /\ names'[e] = 0 /\ \A f \in Names : f # e => names'[f] = names[f]
         /\ \A c \in onDisk' : \E d \in onDisk : \A f \in Names : c[f] = d[f] \/ (f = e /\ c[f] = 0)
         /\ \A v \in Saves : v # w => kept'[v] = kept[v]
<1>1. Disk /\ e \in Names /\ e # Canon
  BY Opened, AsidesAre
<1>2. w \in Saves /\ (Safe => \A d \in onDisk : w \notin Shows(d))
  BY RemovedIsUnshown
<1>3. Packs' /\ \A v \in Saves : v # w => kept'[v] = kept[v]
  <2>1. content' = [content EXCEPT ![w] = "none"] /\ kept' = [kept EXCEPT ![w] = @ \cup Leftovers(content[w])]
    BY DEF Remove
  <2> QED BY <1>1, <1>2, <2>1, EmptiedIs DEF Disk
<1>4. Preserves
  BY <1>1, <1>2, <1>3, OtherPacks
<1>5. Operate(e, e, 0)
  BY DEF Remove
<1> QED BY <1>1, <1>3, <1>4, <1>5, RemovalKeepsDisk

LEMMA SweepKeeps ==
  ASSUME OrdinaryInv, NEW i \in Saves, Sweep(i), kind' = kind
  PROVE  OrdinaryInv'
<1>1. pc[i] = "sweep" /\ Running(i) /\ had' = had /\ Rest(i)
  BY LabelsAre, AtIs, RestIs DEF Sweep
<1>2. /\ Disk /\ Turns /\ Control /\ Absent(i)
      /\ (names[Canon] = 0 => Asides = {})
      /\ (names[Canon] # 0 => \A d \in onDisk : d[Canon] = names[Canon])
  BY <1>1, Opened DEF Lost, Laid, Early
<1>3. ASSUME NEW e \in Hidden, Remove(e), Works, Goto(i, "sweep") PROVE OrdinaryInv'
  <2>0. "sweep" \in Labels
    BY LabelsAre
  <2>1. pc'[i] = "sweep" /\ Steady
    BY <1>1, <1>2, <1>3, <2>0, GoingOn
  <2>2. PICK w \in Removing(i) : w = names[e]
    BY <1>1 DEF Removing
  <2>3. e \in OldNames => \A d \in onDisk : d[Canon] # 0
    <3>1. e \in Names /\ e # Canon /\ names[e] # 0
      BY AsidesAre
    <3>2. e \in OldNames => e \in Asides
      BY <3>1, AsidesAre DEF Stored
    <3> QED BY <1>2, <3>2
  <2>4. /\ Disk' /\ \A j \in Saves : (Absent(j) => Absent(j)')
        /\ names'[e] = 0 /\ \A f \in Names : f # e => names'[f] = names[f]
        /\ \A c \in onDisk' : \E d \in onDisk : \A f \in Names : c[f] = d[f] \/ (f = e /\ c[f] = 0)
    BY <1>3, <2>1, <2>2, <2>3, RemoveKeepsDisk
  <2>5. e # Canon /\ names'[Canon] = names[Canon] /\ e \in Names
    BY <2>4, NamesAre, AsidesAre
  <2>6. names'[Canon] = 0 => Asides' = {}
    <3>1. names'[Canon] = 0 => \A f \in OldNames : names[f] = 0
      BY <1>2, <2>5, AsidesAre DEF Stored
    <3> QED BY <2>4, <3>1, NamesAre, HiddenNext
  <2>7. names'[Canon] # 0 => \A d \in onDisk' : d[Canon] = names'[Canon]
    BY <1>2, <2>4, <2>5, NamesAre
  <2>8. Laid(i)'
    BY <2>1, <2>6 DEF Laid, Staging, Moved, Visible
  <2>9. Lost(i)'
    BY <1>2, <2>1, <2>4, <2>7 DEF Lost, Early, Synced, Visible
  <2>10. Filled(i)'
    BY <2>1 DEF Filled, Sealed, Undoing, Visible
  <2> QED BY <1>1, <1>3, <2>0, <2>4, <2>8, <2>9, <2>10, GoesOn
<1>4. ASSUME NEW e \in Hidden, Fails, Damage(names[e]), Return(i, "ambiguous"), UNCHANGED entries
      PROVE  OrdinaryInv'
  <2>1. names[e] \in Removing(i)
    BY <1>1 DEF Removing
  <2> QED BY <1>1, <1>4, <2>1, DamageKeeps
<1> QED BY <1>3, <1>4 DEF Sweep

LEMMA MakeStageKeeps ==
  ASSUME OrdinaryInv, NEW i \in Saves, MakeStage(i), kind' = kind
  PROVE  OrdinaryInv'
<1>1. UNCHANGED packages /\ had' = had /\ Rest(i) /\ Disk
  BY RestIs, Opened DEF MakeStage
<1>2. ASSUME At(i, "stage"), Works, MakeDir(Tmp(i), i), Goto(i, "staged") PROVE OrdinaryInv'
  <2>0. pc[i] = "stage" /\ Running(i) /\ "staged" \in Labels /\ Hidden = {} /\ Absent(i)
    BY <1>2, LabelsAre, AtIs, Opened DEF Laid, Lost, Early
  <2>1. pc'[i] = "staged" /\ Steady /\ Packs' /\ Preserves
    BY <1>1, <1>2, <2>0, GoingSame
  <2>2. /\ Disk' /\ (\A j \in Saves : j # i /\ Absent(j) => Absent(j)')
        /\ names'[Tmp(i)] = i /\ (\A f \in Names : f # Tmp(i) => names'[f] = names[f])
        /\ Hid(i)'
    BY <1>1, <1>2, <2>0, <2>1, MakingKeepsDisk
  <2>3. Hidden' = {Tmp(i)}
    <3>1. \A e \in Names : e # Canon => names[e] = 0
      BY <2>0, AsidesAre
    <3> QED BY <2>2, <3>1, NamesAre, HiddenNext
  <2>4. Laid(i)'
    BY <2>1, <2>2, <2>3 DEF Laid, Staging, Moved, Visible
  <2>5. Lost(i)'
    BY <2>1, <2>2 DEF Lost, Early, Synced, Visible
  <2>6. Filled(i)'
    BY <2>1 DEF Filled, Sealed, Undoing, Visible
  <2> QED BY <1>1, <1>2, <2>0, <2>2, <2>4, <2>5, <2>6, GoesOn
<1>3. ASSUME At(i, "staged"), Works, SyncParent, Goto(i, "write") PROVE OrdinaryInv'
  <2>0. /\ pc[i] = "staged" /\ Running(i) /\ "write" \in Labels /\ Calm
        /\ names[Tmp(i)] = i /\ Hidden = {Tmp(i)}
    BY <1>1, <1>3, LabelsAre, AtIs, Opened DEF Laid, Staging, Calm
  <2>1. /\ pc'[i] = "write" /\ names' = names /\ Hidden' = Hidden /\ Alone'
        /\ Laid(i)' /\ Lost(i)' /\ Filled(i)' => OrdinaryInv'
    BY <1>1, <1>3, <2>0, CalmGoes
  <2>2. Laid(i)'
    BY <2>0, <2>1 DEF Laid, Staging, Moved, Visible
  <2>3. Lost(i)'
    BY <2>1 DEF Lost, Early, Synced, Visible
  <2>4. Filled(i)'
    BY <2>1 DEF Filled, Sealed, Undoing, Visible
  <2> QED BY <2>1, <2>2, <2>3, <2>4
<1>4. ASSUME At(i, "stage") \/ At(i, "staged"), Fails, UNCHANGED entries, Return(i, "error")
      PROVE  OrdinaryInv'
  <2>1. Running(i) /\ pc[i] \in {"stage", "staged"} /\ Calm
    BY <1>1, <1>4 DEF At, Running, Calm
  <2>2. Hid(i) \/ Absent(i)
    BY <2>1, Opened DEF Lost, Early
  <2>3. \A d \in onDisk : i \notin Shows(d)
    BY <2>2, Opened, UnshownIs
  <2> QED BY <1>1, <1>4, <2>1, <2>3, CalmLeaves
<1> QED BY <1>2, <1>3, <1>4 DEF MakeStage

LEMMA WriteStageKeeps ==
  ASSUME OrdinaryInv, NEW i \in Saves, WriteStage(i), kind' = kind
  PROVE  OrdinaryInv'
<1>1. pc[i] = "write" /\ Running(i) /\ had' = had /\ Rest(i) /\ UNCHANGED entries
  BY LabelsAre, AtIs, RestIs DEF WriteStage
<1>2. Disk /\ Turns /\ Control /\ names[Tmp(i)] = i /\ Hidden = {Tmp(i)} /\ Alone
  BY <1>1, Opened DEF Laid, Lost, Staging, Synced
<1>3. ASSUME NEW l \in {"fenceStage", "scrap"}, NEW c \in Contents, Write(i, c), Goto(i, l), Works \/ Fails,
             l = "fenceStage" => c = "whole", l = "scrap" => Fails
      PROVE  OrdinaryInv'
  <2>0. l \in Labels /\ l \notin {"new", "done"}
    BY LabelsAre
  <2>1. pc'[i] = l /\ Steady /\ (Fails => faults' > 0)
    BY <1>1, <1>2, <1>3, <2>0, GoingOn
  <2>2. Packs' /\ content'[i] = c /\ \A v \in Saves : v # i => kept'[v] = kept[v]
    BY <1>2, <1>3, WrittenIs DEF Disk
  <2>3. \A d \in onDisk : i \notin Shows(d)
    BY <1>2, StageIsUnshown
  <2>4. Preserves
    BY <1>2, <2>1, <2>2, <2>3, OtherPacks
  <2>5. Disk' /\ (\A j : Absent(j) => Absent(j)')
    BY <1>1, <1>2, <2>1, <2>2, <2>4, QuietKeepsDisk
  <2>6. names' = names /\ Hidden' = Hidden /\ Alone'
    BY <1>1, <1>2, HiddenNext, AsidesAre DEF entries, Alone
  <2>7. Laid(i)'
    BY <1>2, <1>3, <2>1, <2>6 DEF Laid, Staging, Moved, Visible
  <2>8. Lost(i)'
    BY <1>3, <2>1, <2>6 DEF Lost, Early, Synced, Visible
  <2>9. Filled(i)'
    BY <1>3, <2>1, <2>2 DEF Filled, Sealed, Undoing, Visible
  <2> QED BY <1>1, <1>3, <2>0, <2>5, <2>7, <2>8, <2>9, GoesOn
<1> QED BY <1>3 DEF WriteStage, Contents

LEMMA ScrapKeeps ==
  ASSUME OrdinaryInv, NEW i \in Saves, Scrap(i), kind' = kind
  PROVE  OrdinaryInv'
<1>1. had' = had /\ Rest(i) /\ Turns /\ Control /\ Disk
  BY RestIs, Opened DEF Scrap
<1>2. CASE At(i, "scrap")
  <2>1. /\ pc[i] = "scrap" /\ Running(i) /\ names[Tmp(i)] = i /\ Hidden = {Tmp(i)} /\ Alone /\ faults > 0
        /\ i \in Removing(i)
    BY <1>2, LabelsAre, AtIs, Opened DEF Laid, Lost, Staging, Synced, Filled, Undoing, Removing
  <2>2. ASSUME Works, Remove(Tmp(i)), Goto(i, "scrapped") PROVE OrdinaryInv'
    <3>0. "scrapped" \in Labels
      BY LabelsAre
    <3>1. pc'[i] = "scrapped" /\ Steady /\ faults' > 0
      BY <1>1, <2>1, <2>2, <3>0, GoingOn
    <3>2. Tmp(i) \in Hidden /\ Tmp(i) \notin OldNames /\ Hid(i)
      BY <1>1, <2>1, StageIsUnshown, NamesAre
    <3>3. Disk' /\ \A j \in Saves : (Absent(j) => Absent(j)') /\ (Hid(j) => Hid(j)')
      BY <2>1, <2>2, <3>1, <3>2, RemoveKeepsDisk
    <3>4. Laid(i)'
      BY <3>1 DEF Laid, Staging, Moved, Visible
    <3>5. Lost(i)'
      BY <3>1, <3>2, <3>3 DEF Lost, Early, Synced, Visible
    <3>6. Filled(i)'
      BY <3>1 DEF Filled, Sealed, Undoing, Visible
    <3> QED BY <1>1, <2>1, <2>2, <3>0, <3>3, <3>4, <3>5, <3>6, GoesOn
  <2>3. ASSUME Fails, Damage(i), Return(i, "ambiguous"), UNCHANGED entries PROVE OrdinaryInv'
    BY <1>1, <2>1, <2>3, DamageKeeps
  <2>4. ~At(i, "scrapped")
    BY <2>1 DEF At
  <2> QED BY <2>2, <2>3, <2>4 DEF Scrap
<1>3. CASE At(i, "scrapped")
  <2>1. pc[i] = "scrapped" /\ Running(i) /\ Hid(i)
    BY <1>3, LabelsAre, AtIs, Opened DEF Lost
  <2>2. ASSUME Works, SyncParent, Return(i, "error"), UNCHANGED packages PROVE OrdinaryInv'
    <3>1. Calm /\ \A d \in onDisk : i \notin Shows(d)
      BY <1>1, <2>1, <2>2, UnshownIs DEF Calm, Disk
    <3> QED BY <1>1, <2>1, <2>2, <3>1, CalmLeaves
  <2>3. ASSUME Fails, Return(i, "ambiguous"), UNCHANGED <<entries, packages>> PROVE OrdinaryInv'
    <3>1. Calm
      BY <2>3 DEF Calm
    <3> QED BY <1>1, <2>1, <2>3, <3>1, CalmLeaves
  <2>4. ~At(i, "scrap")
    BY <2>1 DEF At
  <2> QED BY <2>2, <2>3, <2>4 DEF Scrap
<1> QED BY <1>2, <1>3 DEF Scrap

LEMMA CleanUpAsideKeeps ==
  ASSUME OrdinaryInv, NEW i \in Saves, CleanUpAside(i), kind' = kind
  PROVE  OrdinaryInv'
<1>1. had' = had /\ Rest(i) /\ Turns /\ Control /\ Disk /\ Located
  BY RestIs, Opened DEF CleanUpAside
<1>2. Old(i) \in OldNames /\ Old(i) \in Names /\ Old(i) # Canon /\ i # 0
  BY NamesAre
<1>3. CASE At(i, "cleanup")
  <2>1. /\ pc[i] = "cleanup" /\ Running(i) /\ names[Canon] = i /\ Hidden = {Old(i)}
        /\ kept[i] = {"whole"} /\ \A d \in onDisk : d[Canon] = i
    BY <1>3, LabelsAre, AtIs, Opened DEF Laid, Lost, Filled, Sealed
  <2>2. PICK w \in Removing(i) : w = names[Old(i)]
    BY <2>1 DEF Removing
  <2>3. w # i
    BY <1>1, <1>2, <2>1, <2>2, NamesAre, Opened DEF Located
  <2>4. ASSUME Works, Remove(Old(i)), Goto(i, "cleaned") PROVE OrdinaryInv'
    <3>0. "cleaned" \in Labels
      BY LabelsAre
    <3>1. pc'[i] = "cleaned" /\ Steady
      BY <1>1, <2>1, <2>4, <3>0, GoingOn
    <3>2. /\ Disk' /\ \A j \in Saves : (Absent(j) => Absent(j)')
          /\ \A c \in onDisk' : \E d \in onDisk : \A f \in Names : c[f] = d[f] \/ (f = Old(i) /\ c[f] = 0)
          /\ \A v \in Saves : v # w => kept'[v] = kept[v]
      BY <1>2, <2>1, <2>2, <2>4, <3>1, RemoveKeepsDisk
    <3>3. \A d \in onDisk' : d[Canon] = i
      BY <1>2, <2>1, <3>2, NamesAre
    <3>4. Laid(i)'
      BY <3>1 DEF Laid, Staging, Moved, Visible
    <3>5. Lost(i)'
      BY <3>1, <3>3 DEF Lost, Early, Synced, Visible
    <3>6. Filled(i)'
      BY <2>1, <2>3, <3>1, <3>2 DEF Filled, Sealed, Undoing, Visible
    <3> QED BY <1>1, <2>1, <2>4, <3>0, <3>2, <3>4, <3>5, <3>6, GoesOn
  <2>5. ASSUME Fails, Damage(names[Old(i)]), Return(i, "ambiguous"), UNCHANGED entries PROVE OrdinaryInv'
    BY <1>1, <2>1, <2>2, <2>5, DamageKeeps
  <2>6. ~At(i, "cleaned")
    BY <2>1 DEF At
  <2> QED BY <2>4, <2>5, <2>6 DEF CleanUpAside
<1>4. CASE At(i, "cleaned")
  <2>1. pc[i] = "cleaned" /\ Running(i) /\ kept[i] = {"whole"} /\ names[Canon] = i
    BY <1>4, LabelsAre, AtIs, Opened DEF Lost, Filled, Sealed
  <2>2. ASSUME Works, SyncParent, Return(i, "ok"), UNCHANGED packages PROVE OrdinaryInv'
    BY <1>1, <2>1, <2>2, OkKeeps
  <2>3. ASSUME Fails, Return(i, "ambiguous"), UNCHANGED <<entries, packages>> PROVE OrdinaryInv'
    <3>1. Calm
      BY <2>3 DEF Calm
    <3> QED BY <1>1, <2>1, <2>3, <3>1, CalmLeaves
  <2>4. ~At(i, "cleanup")
    BY <2>1 DEF At
  <2> QED BY <2>2, <2>3, <2>4 DEF CleanUpAside
<1> QED BY <1>3, <1>4 DEF CleanUpAside

LEMMA RestoreAsideKeeps ==
  ASSUME OrdinaryInv, NEW i \in Saves, RestoreAside(i), kind' = kind
  PROVE  OrdinaryInv'
<1>1. /\ pc[i] = "reconcile" /\ Running(i) /\ UNCHANGED packages /\ had' = had /\ Rest(i)
      /\ names[Canon] = 0 /\ Asides # {}
  BY LabelsAre, AtIs, RestIs DEF RestoreAside, Exists
<1>2. Disk /\ Absent(i) /\ Packs /\ names \in onDisk /\ \A e \in Names : names[e] # 0 => names[e] \in Saves
  BY <1>1, Opened DEF Lost, Early
<1>3. ASSUME NEW e \in Asides
      PROVE  /\ e \in Names /\ e # Canon /\ names[e] # 0 /\ names[e] \in Shows(names)
             /\ \A p : p = names[e] => May(p) /\ (Safe => kept[p] = {"whole"})
  <2>1. e \in Names /\ e # Canon /\ names[e] # 0
    BY AsidesAre
  <2>2. names[e] \in Shows(names)
    BY <1>1, AsidesAre DEF Shows
  <2> QED BY <1>2, <2>1, <2>2 DEF Disk, Promised, Whether
<1>4. ASSUME NEW e \in Asides, Rename(e, Canon), Works, Goto(i, "fence") PROVE OrdinaryInv'
  <2>0. "fence" \in Labels
    BY LabelsAre
  <2>1. /\ pc'[i] = "fence" /\ Steady /\ Packs' /\ Preserves /\ kept' = kept
        /\ (\A v : May(v) => May(v)') /\ (Safe' => Safe)
    BY <1>1, <1>4, <2>0, GoingSame
  <2>2. PICK p : p = names[e]
    OBVIOUS
  <2>3. p # 0 /\ May(p)' /\ (Safe' => kept'[p] = {"whole"})
    BY <1>3, <2>1, <2>2
  <2>4. /\ Disk' /\ (\A j \in Saves : Absent(j) => Absent(j)') /\ names'[Canon] = p
    BY <1>2, <1>3, <1>4, <2>1, <2>2, <2>3, ShowingKeepsDisk
  <2>5. Laid(i)'
    BY <2>1, <2>3, <2>4 DEF Laid, Staging, Moved, Visible
  <2>6. Lost(i)'
    BY <1>2, <2>1, <2>4 DEF Lost, Early, Synced, Visible
  <2>7. Filled(i)'
    BY <2>1 DEF Filled, Sealed, Undoing, Visible
  <2> QED BY <1>1, <1>4, <2>0, <2>4, <2>5, <2>6, <2>7, GoesOn
<1>5. ASSUME NEW e \in Asides, Rename(e, Canon), Fails, Return(i, "ambiguous") PROVE OrdinaryInv'
  <2>1. /\ Steady /\ Packs' /\ Preserves /\ kept' = kept /\ faults' > 0
        /\ (\A v : May(v) => May(v)') /\ (Safe' => Safe)
    BY <1>1, <1>5, LeavingSame
  <2>2. PICK p : p = names[e]
    OBVIOUS
  <2>3. p # 0 /\ May(p)' /\ (Safe' => kept'[p] = {"whole"})
    BY <1>3, <2>1, <2>2
  <2>4. Disk' /\ (\A j \in Saves : Absent(j) => Absent(j)')
    BY <1>2, <1>3, <1>5, <2>1, <2>2, <2>3, ShowingKeepsDisk
  <2> QED BY <1>1, <1>5, <2>1, <2>4, Leaves
<1>6. ASSUME Fails \/ (Works /\ ~(\E e \in Asides : Asides = {e} /\ Whole(e))),
             Return(i, "ambiguous"), UNCHANGED entries
      PROVE  OrdinaryInv'
  <2>1. faults > 0 \/ Fails
    <3> SUFFICES ASSUME ~Fails PROVE faults > 0
      OBVIOUS
    <3>1. PICK e \in Asides : TRUE
      BY <1>1
    <3>2. ~Safe
      <4> SUFFICES ASSUME Safe PROVE FALSE
        OBVIOUS
      <4>1. \A f \in Asides : f = e
        BY <1>1, <1>2, <3>1, AsidesAre DEF Disk, Whether
      <4>2. Asides = {e}
        BY <3>1, <4>1
      <4>3. names[e] \in Saves /\ kept[names[e]] = {"whole"}
        BY <1>2, <1>3, <3>1
      <4>4. Whole(e)
        BY <1>2, <4>3 DEF Packs, Whole
      <4> QED BY <1>6, <3>1, <4>2, <4>4
    <3> QED BY <3>2, Opened DEF Safe, Control
  <2>2. Calm /\ (Works \/ Fails)
    BY <1>1, <1>6 DEF Calm
  <2> QED BY <1>1, <1>6, <2>1, <2>2, CalmLeaves
<1>7. ASSUME NEW e \in Asides, Rename(e, Canon),
             (Works /\ Goto(i, "fence")) \/ (Fails /\ Return(i, "ambiguous"))
      PROVE  OrdinaryInv'
  BY <1>4, <1>5, <1>7
<1> QED BY <1>6, <1>7 DEF RestoreAside

LEMMA BeginIs ==
  ASSUME Turns, Control, NEW i \in Saves, Begin(i)
  PROVE  /\ pc[i] = "new" /\ outcome[i] = "none" /\ faults' = faults /\ had' = had
         /\ names' = names /\ onDisk' = onDisk /\ content' = content /\ kept' = kept
         /\ \/ pc'[i] = "done" /\ outcome'[i] = "error"
            \/ /\ pc'[i] = IF kind[i] = "ordinary" THEN "reconcile" ELSE "claim"
               /\ outcome'[i] = "none"
         /\ (\A j \in Saves : j # i => pc'[j] = pc[j] /\ outcome'[j] = outcome[j])
         /\ Turns' /\ Control'
         /\ (\A v : May(v) => May(v)') /\ (Acked' <=> Acked) /\ (Safe' <=> Safe)
<1> DEFINE l == IF kind[i] = "ordinary" THEN "reconcile" ELSE "claim"
<1>1. /\ pc[i] = "new" /\ (\A j \in Saves : j < i => pc[j] # "new") /\ faults' = faults
      /\ names' = names /\ onDisk' = onDisk /\ content' = content /\ kept' = kept /\ had' = had
      /\ l \notin {"new", "done"}
  BY DEF Begin, At, Works, entries, packages
<1>2. Turns /\ Control
  OBVIOUS
<1>3. outcome[i] = "none"
  BY <1>1, <1>2 DEF Turns
<1>4. ASSUME Return(i, "error")
      PROVE  /\ pc'[i] = "done" /\ (\A j \in Saves : j # i => pc'[j] = pc[j])
             /\ outcome'[i] = "error" /\ (\A j \in Saves : j # i => outcome'[j] = outcome[j])
             /\ pc' = [j \in Saves |-> pc'[j]] /\ outcome' = [j \in Saves |-> outcome'[j]]
             /\ lock' = IF lock = i THEN 0 ELSE lock
  <2>1. pc'[i] = "done" /\ (\A j \in Saves : j # i => pc'[j] = pc[j]) /\ pc' = [j \in Saves |-> pc'[j]]
    BY <1>2, <1>4 DEF Return, Control
  <2>2. outcome'[i] = "error" /\ (\A j \in Saves : j # i => outcome'[j] = outcome[j]) /\ outcome' = [j \in Saves |-> outcome'[j]]
    BY <1>2, <1>4 DEF Return, Control
  <2> QED BY <1>4, <2>1, <2>2 DEF Return
<1>5. ASSUME lock = 0, pc' = [pc EXCEPT ![i] = l], lock' = i, outcome' = outcome
      PROVE  pc'[i] = l /\ (\A j \in Saves : j # i => pc'[j] = pc[j]) /\ pc' = [j \in Saves |-> pc'[j]]
  BY <1>2, <1>5 DEF Control
<1>6. \/ /\ pc'[i] = "done" /\ outcome'[i] = "error" /\ lock' = IF lock = i THEN 0 ELSE lock
      \/ /\ pc'[i] = l /\ outcome'[i] = "none" /\ lock = 0 /\ lock' = i
  BY <1>1, <1>3, <1>4, <1>5 DEF Begin
<1>7. /\ (\A j \in Saves : j # i => pc'[j] = pc[j] /\ outcome'[j] = outcome[j])
      /\ pc' = [j \in Saves |-> pc'[j]] /\ outcome' = [j \in Saves |-> outcome'[j]]
  BY <1>1, <1>2, <1>4, <1>5 DEF Begin, Control
<1> HIDE DEF l
<1>8. Turns'
  <2>1. \A j \in Saves : j # i => (Running(j)' <=> Running(j))
    BY <1>7 DEF Running
  <2>2. \A j \in Saves : Running(j)' => lock' = j
    <3> SUFFICES ASSUME NEW j \in Saves, Running(j)' PROVE lock' = j
      OBVIOUS
    <3>1. CASE j = i
      BY <1>6, <3>1 DEF Running
    <3>2. CASE j # i
      <4>1. lock = j /\ j # 0
        BY <1>2, <2>1, <3>2, NamesAre DEF Turns
      <4> QED BY <1>6, <3>2, <4>1
    <3> QED BY <3>1, <3>2
  <2>3. \A j \in Saves : pc'[j] # "done" => outcome'[j] = "none"
    BY <1>2, <1>6, <1>7 DEF Turns
  <2>4. \A j, k \in Saves : j < k /\ pc'[j] = "new" => pc'[k] = "new"
    BY <1>1, <1>2, <1>6, <1>7 DEF Turns
  <2>5. \A j, k \in Saves : j < k /\ Running(j)' => pc'[k] = "new" \/ outcome'[k] = "error"
    <3> SUFFICES ASSUME NEW j \in Saves, NEW k \in Saves, j < k, Running(j)'
                 PROVE  pc'[k] = "new" \/ outcome'[k] = "error"
      OBVIOUS
    <3>1. CASE j = i
      <4>1. k # i /\ pc[k] = "new"
        BY <1>1, <1>2, <3>1 DEF Turns, Saves
      <4> QED BY <1>7, <4>1
    <3>2. CASE k = i
      <4>1. j # i /\ Running(j)
        BY <2>1, <3>2 DEF Saves
      <4>2. lock = j /\ j # 0
        BY <1>2, <4>1, NamesAre DEF Turns
      <4> QED BY <1>6, <3>2, <4>2
    <3>3. CASE j # i /\ k # i
      BY <1>2, <1>7, <2>1, <3>3 DEF Turns
    <3> QED BY <3>1, <3>2, <3>3
  <2> QED BY <2>2, <2>3, <2>4, <2>5 DEF Turns
<1>9. (\A v : May(v) => May(v)') /\ (Acked' <=> Acked) /\ (Safe' <=> Safe)
  <2>1. \A j \in Saves : outcome'[j] = "ok" <=> outcome[j] = "ok"
    BY <1>3, <1>6, <1>7
  <2>2. Acked' <=> Acked
    BY <2>1 DEF Acked
  <2> QED BY <1>1, <1>7, <2>1, <2>2 DEF May, Safe
<1>10. Control'
  <2>1. lock' \in 0..MaxSaves
    BY <1>2, <1>6, PublicationAssumption DEF Control, Saves
  <2> QED BY <1>1, <1>2, <1>7, <2>1 DEF Control
<1> QED BY <1>1, <1>3, <1>6, <1>7, <1>8, <1>9, <1>10 DEF l

LEMMA BeginKeeps ==
  ASSUME OrdinaryInv, NEW i \in Saves, Begin(i), kind' = kind
  PROVE  OrdinaryInv'
<1>1. /\ pc[i] = "new" /\ faults' = faults /\ had' = had
      /\ names' = names /\ onDisk' = onDisk /\ content' = content /\ kept' = kept
      /\ \/ pc'[i] = "done" /\ outcome'[i] = "error"
         \/ pc'[i] = "reconcile" /\ outcome'[i] = "none"
      /\ (\A j \in Saves : j # i => pc'[j] = pc[j] /\ outcome'[j] = outcome[j])
      /\ Turns' /\ Control'
      /\ (\A v : May(v) => May(v)') /\ (Acked' <=> Acked) /\ (Safe' <=> Safe)
  BY BeginIs DEF OrdinaryInv, Ordinary
<1>2. Disk /\ Turns /\ Control /\ Absent(i)
  BY <1>1, Opened DEF Lost, Early
<1>3. Steady
  BY <1>1, <1>2 DEF Steady, Disk, Promised
<1>4. Disk' /\ \A j : Absent(j) => Absent(j)'
  <2>1. UNCHANGED entries /\ UNCHANGED packages
    BY <1>1 DEF entries, packages
  <2> QED BY <1>2, <1>3, <2>1, SamePacks, QuietKeepsDisk
<1>5. \A j \in Saves : Part(j)'
  <2> SUFFICES ASSUME NEW j \in Saves PROVE Part(j)'
    OBVIOUS
  <2>1. CASE j = i /\ pc'[i] = "reconcile"
    <3>1. Lost(i)'
      BY <1>2, <1>4, <2>1 DEF Lost, Early, Synced, Visible
    <3>2. Laid(i)' /\ pc'[i] \in Labels
      BY <2>1 DEF Laid, Staging, Moved, Visible, Labels, Early
    <3>3. Filled(i)'
      BY <2>1 DEF Filled, Sealed, Undoing, Visible
    <3> QED BY <2>1, <3>1, <3>2, <3>3 DEF Part
  <2>2. CASE j = i /\ pc'[i] = "done"
    BY <2>2, DoneIsPart
  <2>3. CASE j # i
    <3>0. pc'[j] = pc[j] /\ Part(j)
      BY <1>1, <2>3 DEF OrdinaryInv
    <3>1. Hidden' = Hidden /\ Asides' = Asides
      BY <1>1 DEF Hidden, Asides, Exists
    <3>2. Laid(j)' /\ pc'[j] \in Labels
      BY <1>1, <3>0, <3>1 DEF Part, Laid
    <3>3. Lost(j)'
      BY <1>1, <1>4, <3>0 DEF Part, Lost, Alone, Hid
    <3>4. Filled(j)'
      <4>1. Prior(j) => Prior(j)'
        BY <1>1, PriorKeeps
      <4> QED BY <1>1, <3>0, <4>1 DEF Part, Filled
    <3> QED BY <3>2, <3>3, <3>4 DEF Part
  <2> QED BY <1>1, <2>1, <2>2, <2>3
<1>6. Ordinary' /\ CrashesNeverWedge'
  BY <1>1 DEF OrdinaryInv, Ordinary, CrashesNeverWedge
<1> QED BY <1>1, <1>4, <1>5, <1>6 DEF OrdinaryInv

(***************************************************************************)
(* Every step of a directory of ordinary checkpoints.                      *)
(***************************************************************************)
LEMMA NoContinuation ==
  ASSUME OrdinaryInv, NEW i \in Saves
  PROVE  ~(Claim(i) \/ MarkClaim(i) \/ WriteClaim(i) \/ CommitManifest(i) \/ FenceManifest(i) \/ Unclaim(i))
<1>1. pc[i] \notin {"claim", "mark", "anchor", "payload", "fencePayload", "commit", "fenceManifest",
                    "fenceAgain", "unclaim", "unclaimed"}
  BY Opened DEF Labels, Early, Staging, Moved, Visible
<1>2. ~Claim(i) /\ ~MarkClaim(i) /\ ~WriteClaim(i)
  BY <1>1 DEF Claim, MarkClaim, WriteClaim, At
<1>3. ~CommitManifest(i) /\ ~FenceManifest(i) /\ ~Unclaim(i)
  BY <1>1 DEF CommitManifest, FenceManifest, Unclaim, At
<1> QED BY <1>2, <1>3

LEMMA SaveKeeps ==
  ASSUME OrdinaryInv, NEW i \in Saves, Save(i)
  PROVE  OrdinaryInv'
<1>1. kind' = kind
  BY DEF Save, Frame
<1> QED BY <1>1, BeginKeeps, RestoreAsideKeeps, ReconcileKeeps, FenceCanonicalKeeps, SweepKeeps, EndSweepKeeps,
           MakeStageKeeps, WriteStageKeeps, ScrapKeeps, FenceStageKeeps, MoveAsideKeeps,
           FenceUntouchedKeeps, FenceAsideKeeps, PublishKeeps, FenceReportedKeeps, FenceNewKeeps,
           CleanUpAsideKeeps, UnpublishKeeps, RestorePriorKeeps, FenceRestoredKeeps, NoContinuation
        DEF Save

LEMMA KillKeeps ==
  ASSUME OrdinaryInv, NEW i \in Saves, Kill(i)
  PROVE  OrdinaryInv'
<1>1. Rest(i) /\ Running(i) /\ Return(i, "killed") /\ Works /\ UNCHANGED entries
  BY RestIs DEF Kill, Works
<1> QED BY <1>1, DamageKeeps DEF Kill

\* What a power failure changes.
LEMMA PowerFailureIs ==
  ASSUME Turns, Control, Entries, Packs, PowerFailure
  PROVE  /\ names' \in onDisk /\ onDisk' = {names'} /\ names' \in [Names -> 0..MaxSaves] /\ Entries'
         /\ Packs' /\ \A v \in Saves : content'[v] \in kept[v] /\ kept'[v] = {content'[v]}
         /\ \A j \in Saves : /\ pc'[j] = IF Running(j) THEN "done" ELSE pc[j]
                             /\ outcome'[j] = IF Running(j) THEN "killed" ELSE outcome[j]
                             /\ ~Running(j)'
         /\ Turns' /\ Control' /\ faults' = faults
         /\ (\A v : May(v) => May(v)') /\ (Acked' <=> Acked) /\ (Safe' <=> Safe)
<1>1. /\ names' \in onDisk /\ onDisk' = {names'} /\ names' \in [Names -> 0..MaxSaves] /\ Entries'
  BY DEF PowerFailure, Entries
<1>2. content' \in [Saves -> Contents] /\ \A v \in Saves : content'[v] \in kept[v] /\ kept'[v] = {content'[v]}
  BY DEF PowerFailure, Packs
<1>3. Packs'
  BY <1>2 DEF PowerFailure, Packs
<1>4. \A j \in Saves : /\ pc'[j] = IF Running(j) THEN "done" ELSE pc[j]
                       /\ outcome'[j] = IF Running(j) THEN "killed" ELSE outcome[j]
  BY DEF PowerFailure
<1>5. \A j \in Saves : ~Running(j)'
  BY <1>4 DEF Running
<1>6. \A j \in Saves : Running(j) => outcome[j] = "none" /\ pc[j] # "new"
  BY DEF Turns, Running
<1>7. Turns'
  BY <1>4, <1>5, <1>6 DEF Turns, Running
<1>8. Control'
  <2>1. pc' = [j \in Saves |-> pc'[j]]
    BY DEF PowerFailure
  <2>2. outcome' = [j \in Saves |-> outcome'[j]]
    BY DEF PowerFailure
  <2>3. had' = had /\ faults' = faults /\ lock' = 0
    BY DEF PowerFailure
  <2> QED BY <2>1, <2>2, <2>3, PublicationAssumption DEF Control
<1>9. \A j \in Saves : outcome'[j] = "ok" <=> outcome[j] = "ok"
  BY <1>4, <1>6
<1>10. faults' = faults
  BY DEF PowerFailure
<1>11. (\A v : May(v) => May(v)') /\ (Acked' <=> Acked) /\ (Safe' <=> Safe)
  BY <1>4, <1>6, <1>9, <1>10 DEF May, Acked, Safe
<1> QED BY <1>1, <1>2, <1>3, <1>4, <1>5, <1>7, <1>8, <1>10, <1>11

LEMMA PowerFailureKeeps ==
  ASSUME OrdinaryInv, PowerFailure
  PROVE  OrdinaryInv'
<1>1. Turns /\ Control /\ Disk /\ Entries /\ Packs /\ Located /\ Promised /\ Whether
  BY DEF OrdinaryInv, Disk
<1>2. /\ names' \in onDisk /\ onDisk' = {names'} /\ Entries'
      /\ Packs' /\ \A v \in Saves : content'[v] \in kept[v] /\ kept'[v] = {content'[v]}
      /\ \A j \in Saves : /\ pc'[j] = IF Running(j) THEN "done" ELSE pc[j]
                          /\ outcome'[j] = IF Running(j) THEN "killed" ELSE outcome[j]
                          /\ ~Running(j)'
      /\ Turns' /\ Control' /\ faults' = faults
      /\ (\A v : May(v) => May(v)') /\ (Acked' <=> Acked) /\ (Safe' <=> Safe)
  BY <1>1, PowerFailureIs
<1>3. Located' /\ \A j : Absent(j) => Absent(j)'
  BY <1>1, <1>2 DEF Located, Absent
<1>4. \A v \in Saves : kept[v] = {"whole"} => kept'[v] = {"whole"}
  BY <1>2
<1>5. \A v \in Shows(names') : May(v) /\ v \in Saves /\ May(v)' /\ (Safe' => kept'[v] = {"whole"})
  BY <1>1, <1>2, <1>4 DEF Promised, Whether, May
<1>6. Promised'
  <2>1. Acked' => Shows(names') # {}
    BY <1>1, <1>2 DEF Promised
  <2>2. \A v \in Shows(names') : Safe' => "hollow" \notin kept'[v]
    BY <1>5
  <2> QED BY <1>2, <1>5, <2>1, <2>2 DEF Promised
<1>7. Whether'
  <2>1. Safe' => (names'[Canon] = 0 => \A e, f \in Stored(names') : e = f)
    BY <1>1, <1>2 DEF Whether
  <2> QED BY <1>2, <1>5, <2>1 DEF Whether
<1>8. \A j \in Saves : Part(j)'
  <2> SUFFICES ASSUME NEW j \in Saves PROVE Part(j)'
    OBVIOUS
  <2>1. CASE pc'[j] = "done"
    BY <2>1, DoneIsPart
  <2>2. CASE pc'[j] # "done"
    <3>1. pc'[j] = "new" /\ pc[j] = "new"
      BY <1>2, <2>2 DEF Running
    <3>2. Absent(j)'
      BY <1>3, <3>1, Opened DEF Lost, Early
    <3>3. Lost(j)'
      BY <3>1, <3>2 DEF Lost, Early, Synced, Visible
    <3>4. Laid(j)' /\ pc'[j] \in Labels
      BY <3>1 DEF Laid, Staging, Moved, Visible, Labels, Early
    <3>5. Filled(j)'
      BY <3>1 DEF Filled, Sealed, Undoing, Visible
    <3> QED BY <3>3, <3>4, <3>5 DEF Part
  <2> QED BY <2>1, <2>2
<1>9. Ordinary' /\ CrashesNeverWedge'
  <2>1. kind' = kind
    BY DEF PowerFailure
  <2> QED BY <1>2, <2>1 DEF OrdinaryInv, Ordinary, CrashesNeverWedge
<1> QED BY <1>2, <1>3, <1>6, <1>7, <1>8, <1>9 DEF OrdinaryInv, Disk

LEMMA IdleKeeps ==
  ASSUME OrdinaryInv,
         UNCHANGED <<entries, packages, pc, kind, had, outcome, lock, faults>>
  PROVE  OrdinaryInv'
<1>1. /\ names' = names /\ onDisk' = onDisk /\ content' = content /\ kept' = kept
      /\ pc' = pc /\ kind' = kind /\ had' = had /\ outcome' = outcome /\ lock' = lock /\ faults' = faults
  BY DEF entries, packages
<1>2. Ordinary' /\ Control' /\ CrashesNeverWedge' /\ Turns'
  BY <1>1 DEF OrdinaryInv, Ordinary, Control, CrashesNeverWedge, Turns, Running
<1>3. (\A v : May(v)' <=> May(v)) /\ (Acked' <=> Acked) /\ (Safe' <=> Safe)
  BY <1>1 DEF May, Acked, Safe
<1>4. Entries' /\ Packs' /\ Located'
  BY <1>1 DEF OrdinaryInv, Disk, Entries, Packs, Located
<1>5. Promised' /\ Whether'
  BY <1>1, <1>3 DEF OrdinaryInv, Disk, Promised, Whether
<1>6. Hidden' = Hidden /\ Asides' = Asides
  BY <1>1 DEF Hidden, Asides, Exists
<1>7. ASSUME NEW j \in Saves PROVE Part(j)'
  <2>1. Laid(j)' /\ pc'[j] \in Labels
    BY <1>1, <1>6 DEF OrdinaryInv, Part, Laid
  <2>2. Lost(j)'
    BY <1>1 DEF OrdinaryInv, Part, Lost, Alone, Hid, Absent
  <2>3. Prior(j) => Prior(j)'
    BY <1>1, <1>3, PriorKeeps
  <2>4. Filled(j)'
    BY <1>1, <1>3, <2>3 DEF OrdinaryInv, Part, Filled
  <2> QED BY <2>1, <2>2, <2>4 DEF Part
<1> QED BY <1>2, <1>4, <1>5, <1>7 DEF OrdinaryInv, Disk

LEMMA OrdinaryNext == OrdinaryInv /\ [Next]_vars => OrdinaryInv'
<1> SUFFICES ASSUME OrdinaryInv, [Next]_vars PROVE OrdinaryInv'
  OBVIOUS
<1>1. CASE \E i \in Saves : Save(i) \/ Kill(i)
  BY <1>1, SaveKeeps, KillKeeps
<1>2. CASE PowerFailure
  BY <1>2, PowerFailureKeeps
<1>3. CASE ReadDir \/ ReadEntries
  BY <1>3, IdleKeeps DEF ReadDir, ReadEntries
<1>4. CASE AllDone \/ UNCHANGED vars
  BY <1>4, IdleKeeps DEF AllDone, vars
<1> QED BY <1>1, <1>2, <1>3, <1>4 DEF Next

\* What every directory holds at first.
LEMMA InitIs ==
  ASSUME Init
  PROVE  /\ names \in [Names -> 0..MaxSaves] /\ \A e \in Names : names[e] = 0
         /\ onDisk = {names} /\ Shows(names) = {}
         /\ \A i \in Saves : /\ pc[i] = "new" /\ outcome[i] = "none"
                             /\ content[i] = "none" /\ kept[i] = {"none"}
         /\ faults = 0 /\ ~Acked
         /\ Control /\ Turns /\ CrashesNeverWedge /\ Entries /\ Packs /\ Promised /\ Whether
<1>1. /\ names = [e \in Names |-> 0] /\ onDisk = {names}
      /\ \A i \in Saves : /\ pc[i] = "new" /\ outcome[i] = "none"
                          /\ content[i] = "none" /\ kept[i] = {"none"}
      /\ faults = 0 /\ lock = 0
  BY DEF Init
<1>2. names \in [Names -> 0..MaxSaves] /\ \A e \in Names : names[e] = 0
  BY <1>1, PublicationAssumption
<1>3. Shows(names) = {}
  BY <1>2, NamesAre DEF Shows, Stored
<1>4. ~Acked
  BY <1>1 DEF Acked
<1>5. Control
  <2>1. pc = [i \in Saves |-> pc[i]] /\ had = [i \in Saves |-> had[i]]
    BY DEF Init
  <2>2. outcome = [i \in Saves |-> outcome[i]]
    BY DEF Init
  <2> QED BY <1>1, <2>1, <2>2, PublicationAssumption DEF Control
<1>6. Turns /\ CrashesNeverWedge
  BY <1>1 DEF Turns, Running, CrashesNeverWedge
<1>7. Entries
  BY <1>1, <1>2 DEF Entries
<1>8. Packs
  BY <1>1 DEF Init, Packs, Contents
<1>9. Promised /\ Whether
  <2>1. \A d \in onDisk : Shows(d) = {}
    BY <1>1, <1>3
  <2>2. \A d \in onDisk : Stored(d) = {}
    BY <1>1, <1>2, NamesAre DEF Stored
  <2> QED BY <1>4, <2>1, <2>2 DEF Promised, Whether
<1> QED BY <1>1, <1>2, <1>3, <1>4, <1>5, <1>6, <1>7, <1>8, <1>9

LEMMA OrdinaryStarts == Init /\ Ordinary => OrdinaryInv
<1> SUFFICES ASSUME Init, Ordinary PROVE OrdinaryInv
  OBVIOUS
<1>1. /\ names \in [Names -> 0..MaxSaves] /\ \A e \in Names : names[e] = 0
      /\ onDisk = {names}
      /\ \A i \in Saves : /\ pc[i] = "new" /\ outcome[i] = "none"
      /\ Control /\ Turns /\ CrashesNeverWedge /\ Entries /\ Packs /\ Promised /\ Whether
  BY InitIs
<1>2. Located
  BY <1>1 DEF Located
<1>3. ASSUME NEW i \in Saves PROVE Part(i)
  <2>1. Absent(i)
    BY <1>1, NamesAre DEF Absent
  <2>2. Lost(i)
    BY <1>1, <2>1 DEF Lost, Early, Synced, Visible
  <2>3. Laid(i) /\ pc[i] \in Labels
    BY <1>1 DEF Laid, Staging, Moved, Visible, Labels, Early
  <2>4. Filled(i)
    BY <1>1 DEF Filled, Sealed, Undoing, Visible
  <2> QED BY <2>2, <2>3, <2>4 DEF Part
<1> QED BY <1>1, <1>2, <1>3 DEF OrdinaryInv, Disk

(***************************************************************************)
(* The continuation writer.                                                *)
(***************************************************************************)
ClaimLabels == {"claim", "unclaimed"} \cup Holding

LEMMA Reopened ==
  ASSUME ContinuationInv, NEW i \in Saves
  PROVE  /\ Turns /\ Control /\ Entries /\ Packs /\ Sole /\ Settled /\ Claimed(i) /\ i # 0
         /\ Canon \in Names /\ kind[i] = "continuation"
         /\ names \in onDisk /\ \A e \in Names : names[e] \in 0..MaxSaves
         /\ \A d \in onDisk : d[Canon] # 0 => d[Canon] \in Saves
<1>1. Turns /\ Control /\ Entries /\ Packs /\ Sole /\ Settled /\ Claimed(i) /\ i # 0 /\ Canon \in Names
  BY NamesAre DEF ContinuationInv
<1>2. names \in onDisk /\ \A d \in onDisk : \A e \in Names : d[e] \in 0..MaxSaves
  BY <1>1 DEF Entries
<1> QED BY <1>1, <1>2, PublicationAssumption DEF Saves, ContinuationInv, Continued

\* The claim of save i may have come or gone, and nothing else.
Mine(i) ==
  /\ Entries' /\ Packs' /\ kind' = kind /\ had' = [j \in Saves |-> had'[j]]
  /\ \A v \in Saves : v # i => kept'[v] = kept[v]
  /\ \A d \in onDisk' : /\ \A e \in Names : e # Canon => d[e] = 0
                        /\ d[Canon] \in {0, i} \/ \E c \in onDisk : c[Canon] = d[Canon]

LEMMA MineIs ==
  ASSUME ContinuationInv, NEW i \in Saves, Running(i), Mine(i),
         \A j \in Saves : j # i => pc'[j] = pc[j],
         \A v : May(v) /\ v # i => May(v)',
         faults' = 0 => faults = 0,
         May(i)' \/ \A d \in onDisk' : d[Canon] # i
  PROVE  Sole' /\ Continued' /\ \A j \in Saves : j # i => Claimed(j)'
<1>1. Turns /\ Sole /\ i # 0 /\ Continued
  BY Reopened DEF ContinuationInv
<1>2. Sole'
  <2>1. ASSUME NEW d \in onDisk', NEW v \in Saves, v = d[Canon] PROVE May(v)'
    <3>1. CASE v = i
      BY <2>1, <3>1
    <3>2. CASE v # i
      <4>1. PICK c \in onDisk : c[Canon] = d[Canon]
        BY <2>1, <3>2, NamesAre DEF Mine
      <4> QED BY <1>1, <2>1, <3>2, <4>1 DEF Sole
    <3> QED BY <3>1, <3>2
  <2> QED BY <2>1 DEF Sole, Mine
<1>3. ASSUME NEW j \in Saves, j # i PROVE Claimed(j)'
  <2>1. pc'[j] = pc[j] /\ pc[j] \in {"new", "done"} /\ Claimed(j)
    BY <1>1, <1>3, RunsAlone, Reopened
  <2>2. pc[j] = "new" => \A d \in onDisk' : d[Canon] # j
    <3> SUFFICES ASSUME pc[j] = "new", NEW d \in onDisk' PROVE d[Canon] # j
      OBVIOUS
    <3>1. d[Canon] \in {0, i} \/ \E c \in onDisk : c[Canon] = d[Canon]
      BY DEF Mine
    <3>2. j # 0 /\ \A c \in onDisk : c[Canon] # j
      BY <2>1, NamesAre DEF Claimed
    <3> QED BY <1>3, <3>1, <3>2
  <2>3. kept'[j] = kept[j]
    BY <1>3 DEF Mine
  <2> QED BY <2>1, <2>2, <2>3 DEF Claimed, Holding
<1>4. Continued'
  BY <1>1 DEF Continued, Mine
<1> QED BY <1>2, <1>3, <1>4

LEMMA ClaimGoes ==
  ASSUME ContinuationInv, NEW i \in Saves, Running(i), NEW l \in ClaimLabels,
         Goto(i, l), Works \/ Fails, Mine(i), ~Acked
  PROVE  /\ pc'[i] = l /\ ~Acked' /\ (faults' = 0 => faults = 0) /\ (Fails => faults' # 0)
         /\ Claimed(i)' => ContinuationInv'
<1>0. l \notin {"new", "done"} /\ Turns /\ Control
  BY Reopened DEF ClaimLabels, Holding
<1>1. /\ pc'[i] = l /\ (\A j \in Saves : j # i => pc'[j] = pc[j])
      /\ outcome' = outcome /\ pc' = [j \in Saves |-> pc'[j]] /\ lock' \in 0..MaxSaves
      /\ Turns' /\ (\A v : May(v) => May(v)') /\ (Acked' <=> Acked)
      /\ faults' \in Nat /\ (faults > 0 => faults' > 0) /\ (Fails => faults' > 0)
  BY <1>0, ControlGoes
<1>2. (faults' = 0 => faults = 0) /\ (Fails => faults' # 0)
  BY <1>0, <1>1 DEF Control
<1>3. May(i)'
  BY <1>0, <1>1, RunsAlone
<1>4. Sole' /\ Continued' /\ \A j \in Saves : j # i => Claimed(j)'
  BY <1>1, <1>2, <1>3, MineIs
<1>5. Control'
  BY <1>0, <1>1 DEF Control, Mine
<1>6. CrashesNeverWedge'
  BY <1>1 DEF ContinuationInv, CrashesNeverWedge
<1>7. Settled'
  BY <1>1 DEF Settled
<1>8. Claimed(i)' => ContinuationInv'
  BY <1>1, <1>4, <1>5, <1>6, <1>7 DEF ContinuationInv, Mine
<1> QED BY <1>1, <1>2, <1>8

LEMMA ClaimLeaves ==
  ASSUME ContinuationInv, NEW i \in Saves, Running(i), NEW o \in {"error", "ambiguous", "killed"},
         Return(i, o), Works \/ Fails, Mine(i),
         Acked => UNCHANGED entries /\ UNCHANGED packages,
         o = "error" => \A d \in onDisk' : d[Canon] # i,
         o = "ambiguous" => Fails \/ faults > 0,
         "hollow" \notin kept'[i] \/ Fails \/ faults > 0
  PROVE  ContinuationInv'
<1>0. Turns /\ Control
  BY Reopened
<1>1. /\ pc'[i] = "done" /\ (\A j \in Saves : j # i => pc'[j] = pc[j])
      /\ outcome'[i] = o /\ (\A j \in Saves : j # i => outcome'[j] = outcome[j])
      /\ pc' = [j \in Saves |-> pc'[j]] /\ outcome' = [j \in Saves |-> outcome'[j]]
      /\ lock' \in 0..MaxSaves /\ Turns'
      /\ faults' \in Nat /\ (faults > 0 => faults' > 0) /\ (Fails => faults' > 0)
      /\ (Acked' <=> Acked) /\ \A v : May(v) /\ (v = i => o # "error") => May(v)'
  BY <1>0, ControlLeaves
<1>2. faults' = 0 => faults = 0
  BY <1>0, <1>1 DEF Control
<1>3. May(i)' \/ \A d \in onDisk' : d[Canon] # i
  BY <1>0, <1>1, RunsAlone
<1>4. Sole' /\ Continued' /\ \A j \in Saves : j # i => Claimed(j)'
  BY <1>1, <1>2, <1>3, MineIs
<1>5. Claimed(i)'
  BY <1>1 DEF Claimed, Holding
<1>6. Control'
  BY <1>1 DEF Control, Mine
<1>7. CrashesNeverWedge'
  BY <1>1 DEF ContinuationInv, CrashesNeverWedge
<1>8. Settled'
  BY <1>1, Reopened DEF Settled, entries, packages
<1> QED BY <1>1, <1>4, <1>5, <1>6, <1>7, <1>8 DEF ContinuationInv, Mine

LEMMA QuietIsMine ==
  ASSUME ContinuationInv, NEW i \in Saves, kind' = kind, had' = had,
         UNCHANGED entries \/ SyncParent, Packs', \A v \in Saves : v # i => kept'[v] = kept[v]
  PROVE  Mine(i) /\ names' = names /\ onDisk' \subseteq onDisk /\ (SyncParent => onDisk' = {names})
<1>1. Entries /\ Control /\ Sole
  BY Reopened
<1>2. names' = names /\ onDisk' \subseteq onDisk /\ (SyncParent => onDisk' = {names}) /\ Entries'
  BY <1>1 DEF SyncParent, entries, Entries
<1>3. had' = [j \in Saves |-> had'[j]]
  BY <1>1 DEF Control
<1> QED BY <1>1, <1>2, <1>3 DEF Mine, Sole

LEMMA PutIsMine ==
  ASSUME ContinuationInv, NEW i \in Saves, kind' = kind, had' = had, NEW v \in {0, i},
         Operate(Canon, Canon, v), Packs', \A w \in Saves : w # i => kept'[w] = kept[w]
  PROVE  Mine(i) /\ names'[Canon] = v
<1>1. Entries /\ Control /\ Sole /\ Canon \in Names /\ v \in 0..MaxSaves
  BY Reopened, PublicationAssumption DEF Saves
<1>2. /\ Entries' /\ names'[Canon] = v
      /\ \A c \in onDisk' :
           \/ c \in onDisk
           \/ \E d \in onDisk : c[Canon] = v /\ \A e \in Names : e # Canon => c[e] = IF e = Canon THEN 0 ELSE d[e]
  BY <1>1, OperatedIs
<1>3. ASSUME NEW c \in onDisk'
      PROVE  /\ \A e \in Names : e # Canon => c[e] = 0
             /\ c[Canon] \in {0, i} \/ \E d \in onDisk : d[Canon] = c[Canon]
  BY <1>1, <1>2 DEF Sole
<1>4. had' = [j \in Saves |-> had'[j]]
  BY <1>1 DEF Control
<1> QED BY <1>2, <1>3, <1>4 DEF Mine

LEMMA ClaimKeeps ==
  ASSUME ContinuationInv, NEW i \in Saves, Claim(i), kind' = kind
  PROVE  ContinuationInv'
<1>1. pc[i] = "claim" /\ Running(i) /\ UNCHANGED packages /\ had' = had
  BY DEF Claim, At, Running
<1>2. /\ Entries /\ Packs /\ Claimed(i) /\ Settled /\ i # 0 /\ (\A d \in onDisk : d[Canon] # i)
      /\ kept' = kept /\ content' = content
  BY <1>1, Reopened DEF Claimed, packages
<1>3. Packs'
  BY <1>2 DEF Packs
<1>4. CASE names[Canon] = 0 /\ Works /\ MakeDir(Canon, i) /\ Goto(i, "mark")
  <2>1. ~Acked
    BY <1>2, <1>4 DEF Settled
  <2>2. Mine(i) /\ names'[Canon] = i
    BY <1>1, <1>2, <1>3, <1>4, PutIsMine DEF MakeDir
  <2>3. /\ pc'[i] = "mark" /\ ~Acked' /\ (faults' = 0 => faults = 0)
        /\ Claimed(i)' => ContinuationInv'
    BY <1>1, <1>4, <2>1, <2>2, ClaimGoes DEF ClaimLabels, Holding
  <2>4. Claimed(i)'
    BY <1>2, <2>2, <2>3 DEF Claimed, Holding
  <2> QED BY <2>3, <2>4
<1>5. CASE Return(i, "error") /\ UNCHANGED entries /\ (Works \/ Fails)
  <2>1. Mine(i) /\ onDisk' \subseteq onDisk
    BY <1>1, <1>2, <1>3, <1>5, QuietIsMine
  <2>2. \A d \in onDisk' : d[Canon] # i
    BY <1>2, <2>1
  <2>3. "hollow" \notin kept'[i] \/ Fails \/ faults > 0
    BY <1>2, Reopened DEF Claimed, Control
  <2> QED BY <1>1, <1>5, <2>1, <2>2, <2>3, ClaimLeaves
<1> QED BY <1>4, <1>5 DEF Claim, Exists

\* A step of a save that holds its claim, and that leaves the names alone.
LEMMA HoldingGoes ==
  ASSUME ContinuationInv, NEW i \in Saves, pc[i] \in Holding, NEW l \in Holding, Goto(i, l),
         Works \/ Fails, kind' = kind, had' = had, UNCHANGED entries \/ SyncParent,
         Packs', \A v \in Saves : v # i => kept'[v] = kept[v],
         l \in {"fenceManifest", "fenceAgain"} => content'[i] = "whole",
         l = "fencePayload" => content'[i] = "payload",
         l \in {"unclaim", "fenceAgain"} => Fails \/ faults > 0,
         faults = 0 /\ "hollow" \notin kept[i] => Fails \/ "hollow" \notin kept'[i],
         l = "commit" => "none" \notin kept'[i]
  PROVE  ContinuationInv'
<1>1. /\ Running(i) /\ names[Canon] = i /\ ~Acked /\ l \in ClaimLabels /\ Control
      /\ (faults = 0 => "hollow" \notin kept[i])
  BY Reopened DEF Claimed, Holding, Running, ClaimLabels
<1>2. Mine(i) /\ names' = names
  BY QuietIsMine
<1>3. /\ pc'[i] = l /\ ~Acked' /\ (faults' = 0 => faults = 0) /\ (Fails => faults' # 0)
      /\ Claimed(i)' => ContinuationInv'
  BY <1>1, <1>2, ClaimGoes
<1>4. l \in {"unclaim", "fenceAgain"} => faults' > 0
  <2>1. faults' \in Nat /\ (faults > 0 => faults' > 0) /\ (Fails => faults' > 0)
    BY <1>1 DEF Works, Fails, Control
  <2> QED BY <2>1
<1>5. faults' = 0 => "hollow" \notin kept'[i]
  BY <1>1, <1>3
<1>6. Claimed(i)'
  BY <1>1, <1>2, <1>3, <1>4, <1>5 DEF Claimed, Holding
<1> QED BY <1>3, <1>6

LEMMA HoldingLeaves ==
  ASSUME ContinuationInv, NEW i \in Saves, pc[i] \in Holding, Return(i, "ambiguous"), Fails,
         kind' = kind, had' = had, UNCHANGED entries \/ SyncParent,
         Packs', \A v \in Saves : v # i => kept'[v] = kept[v]
  PROVE  ContinuationInv'
<1>1. Running(i) /\ ~Acked
  BY Reopened DEF Claimed, Holding, Running
<1>2. Mine(i)
  BY QuietIsMine
<1> QED BY <1>1, <1>2, ClaimLeaves

\* A sync of the claim, or none.
LEMMA ClaimSynced ==
  ASSUME ContinuationInv, NEW i \in Saves, pc[i] \in Holding, UNCHANGED packages \/ SyncPackage(i)
  PROVE  /\ Packs' /\ content' = content /\ \A v \in Saves : v # i => kept'[v] = kept[v]
         /\ "hollow" \notin kept[i] => "hollow" \notin kept'[i]
         /\ SyncPackage(i) => kept'[i] = {content[i]}
<1>1. Packs
  BY Reopened
<1> QED BY <1>1 DEF packages, SyncPackage, Packs

LEMMA MarkClaimKeeps ==
  ASSUME ContinuationInv, NEW i \in Saves, MarkClaim(i), kind' = kind
  PROVE  ContinuationInv'
<1>1. pc[i] \in {"mark", "anchor"} /\ had' = had
  BY DEF MarkClaim, At
<1>2. pc[i] \in Holding /\ names[Canon] = i
  BY <1>1, Reopened DEF Claimed, Holding
<1>3. /\ UNCHANGED entries \/ SyncParent
      /\ UNCHANGED packages \/ SyncPackage(i)
      /\ \/ Works /\ Goto(i, "anchor")
         \/ Fails /\ Return(i, "ambiguous")
         \/ Works /\ Goto(i, "payload")
         \/ Fails /\ Goto(i, "unclaim")
  BY <1>2 DEF MarkClaim, Fenced, Unfenced, Exists
<1>4. /\ Packs' /\ content' = content /\ \A v \in Saves : v # i => kept'[v] = kept[v]
      /\ "hollow" \notin kept[i] => "hollow" \notin kept'[i]
  BY <1>2, <1>3, ClaimSynced
<1>5. {"anchor", "payload", "unclaim"} \subseteq Holding
  BY DEF Holding
<1>6. CASE Works /\ Goto(i, "anchor")
  BY <1>1, <1>2, <1>3, <1>4, <1>5, <1>6, HoldingGoes
<1>7. CASE Works /\ Goto(i, "payload")
  BY <1>1, <1>2, <1>3, <1>4, <1>5, <1>7, HoldingGoes
<1>8. CASE Fails /\ Goto(i, "unclaim")
  BY <1>1, <1>2, <1>3, <1>4, <1>5, <1>8, HoldingGoes
<1>9. CASE Fails /\ Return(i, "ambiguous")
  BY <1>1, <1>2, <1>3, <1>4, <1>9, HoldingLeaves
<1> QED BY <1>3, <1>6, <1>7, <1>8, <1>9

LEMMA WriteClaimKeeps ==
  ASSUME ContinuationInv, NEW i \in Saves, WriteClaim(i), kind' = kind
  PROVE  ContinuationInv'
<1>1. pc[i] \in {"payload", "fencePayload"} /\ had' = had /\ UNCHANGED entries
  BY DEF WriteClaim, At
<1>2. pc[i] \in Holding /\ Packs /\ (pc[i] = "fencePayload" => content[i] = "payload")
  BY <1>1, Reopened DEF Claimed, Holding
<1>3. {"fencePayload", "unclaim", "commit"} \subseteq Holding
  BY DEF Holding
<1>4. CASE Works /\ Write(i, "payload") /\ Goto(i, "fencePayload")
  <2>1. Packs' /\ content'[i] = "payload" /\ \A v \in Saves : v # i => kept'[v] = kept[v]
    BY <1>2, <1>4, WrittenIs DEF Contents
  <2>2. "hollow" \notin kept[i] => "hollow" \notin kept'[i]
    BY <1>2, <1>4 DEF Write, Torn, Packs
  <2> QED BY <1>1, <1>2, <1>3, <1>4, <2>1, <2>2, HoldingGoes
<1>5. CASE Fails /\ Goto(i, "unclaim") /\ \E c \in {"none", "payload"} : Write(i, c)
  <2>1. Packs' /\ \A v \in Saves : v # i => kept'[v] = kept[v]
    BY <1>2, <1>5, WrittenIs DEF Contents
  <2> QED BY <1>1, <1>2, <1>3, <1>5, <2>1, HoldingGoes
<1>6. CASE At(i, "fencePayload") /\ Works /\ SyncPackage(i) /\ Goto(i, "commit")
  <2>1. /\ Packs' /\ content' = content /\ \A v \in Saves : v # i => kept'[v] = kept[v]
        /\ kept'[i] = {"payload"}
    BY <1>2, <1>6, ClaimSynced DEF At
  <2> QED BY <1>1, <1>2, <1>3, <1>6, <2>1, HoldingGoes
<1>7. CASE Fails /\ UNCHANGED packages /\ Goto(i, "unclaim")
  <2>1. /\ Packs' /\ content' = content /\ \A v \in Saves : v # i => kept'[v] = kept[v]
    BY <1>2, <1>7, ClaimSynced
  <2> QED BY <1>1, <1>2, <1>3, <1>7, <2>1, HoldingGoes
<1> QED BY <1>4, <1>5, <1>6, <1>7 DEF WriteClaim

LEMMA CommitManifestKeeps ==
  ASSUME ContinuationInv, NEW i \in Saves, CommitManifest(i), kind' = kind
  PROVE  ContinuationInv'
<1>1. pc[i] = "commit" /\ had' = had /\ UNCHANGED entries
  BY DEF CommitManifest, At
<1>2. pc[i] \in Holding /\ Packs /\ (faults = 0 => "none" \notin kept[i]) /\ {"fenceManifest", "unclaim"} \subseteq Holding
  BY <1>1, Reopened DEF Claimed, Holding
<1>3. ASSUME Write(i, "whole") \/ UNCHANGED packages
      PROVE  Packs' /\ \A v \in Saves : v # i => kept'[v] = kept[v]
  BY <1>2, <1>3, WrittenIs, ClaimSynced DEF Contents
<1>4. CASE Works /\ Write(i, "whole") /\ Goto(i, "fenceManifest")
  <2>1. content'[i] = "whole"
    BY <1>2, <1>4 DEF Write, Packs
  <2>2. kept'[i] = Torn(kept[i], "whole")
    BY <1>2, <1>4 DEF Write, Packs
  <2>3. CASE faults = 0
    <3>1. "hollow" \notin kept[i] => "hollow" \notin kept'[i]
      BY <1>2, <2>2, <2>3 DEF Torn
    <3> QED BY <1>1, <1>2, <1>3, <1>4, <2>1, <3>1, HoldingGoes
  <2>4. CASE faults # 0
    <3> QED BY <1>1, <1>2, <1>3, <1>4, <2>1, <2>4, HoldingGoes
  <2> QED BY <2>3, <2>4
<1>5. CASE Fails /\ (UNCHANGED packages \/ Write(i, "whole")) /\ Goto(i, "unclaim")
  BY <1>1, <1>2, <1>3, <1>5, HoldingGoes
<1> QED BY <1>4, <1>5 DEF CommitManifest

LEMMA FenceManifestKeeps ==
  ASSUME ContinuationInv, NEW i \in Saves, FenceManifest(i), kind' = kind
  PROVE  ContinuationInv'
<1>1. pc[i] \in {"fenceManifest", "fenceAgain"} /\ had' = had
  BY DEF FenceManifest
<1>2. /\ pc[i] \in Holding /\ Packs /\ Turns /\ Control /\ names[Canon] = i /\ content[i] = "whole" /\ i # 0
      /\ Running(i) /\ ~Acked /\ "fenceAgain" \in Holding
  BY <1>1, Reopened DEF Claimed, Holding, Running
<1>3. CASE SyncParent /\ SyncPackage(i) /\ Works /\ Return(i, "ok")
  <2>1. /\ Packs' /\ kept'[i] = {"whole"} /\ \A v \in Saves : v # i => kept'[v] = kept[v]
    BY <1>2, <1>3, ClaimSynced
  <2>2. Mine(i) /\ names' = names /\ onDisk' = {names}
    BY <1>1, <1>3, <2>1, QuietIsMine
  <2>3. /\ pc'[i] = "done" /\ (\A j \in Saves : j # i => pc'[j] = pc[j])
        /\ outcome'[i] = "ok" /\ (\A j \in Saves : j # i => outcome'[j] = outcome[j])
        /\ pc' = [j \in Saves |-> pc'[j]] /\ outcome' = [j \in Saves |-> outcome'[j]]
        /\ lock' \in 0..MaxSaves /\ Turns' /\ faults' = faults
    BY <1>2, <1>3, ControlLeaves DEF Works
  <2>4. May(i)'
    <3>1. \A j \in Saves : outcome'[j] = "ok" => j = i
      BY <1>2, <2>3 DEF Acked
    <3> QED BY <2>3, <3>1 DEF May, Saves
  <2>5. Sole'
    BY <1>2, <2>2, <2>4 DEF Sole, Mine
  <2>6. Settled'
    BY <1>2, <2>1, <2>2 DEF Settled
  <2>7. ASSUME NEW j \in Saves PROVE Claimed(j)'
    <3>1. CASE j = i
      BY <2>1, <2>3, <3>1 DEF Claimed, Holding
    <3>2. CASE j # i
      <4>1. pc'[j] = pc[j] /\ pc[j] \in {"new", "done"} /\ Claimed(j) /\ kept'[j] = kept[j]
        BY <1>2, <2>1, <2>3, <3>2, RunsAlone, Reopened
      <4>2. \A d \in onDisk' : d[Canon] # j
        BY <1>2, <2>2, <3>2
      <4> QED BY <2>3, <4>1, <4>2 DEF Claimed, Holding
    <3> QED BY <3>1, <3>2
  <2>8. Control'
    BY <1>2, <2>2, <2>3 DEF Control, Mine
  <2>9. CrashesNeverWedge' /\ Continued'
    BY <2>2, <2>3 DEF ContinuationInv, CrashesNeverWedge, Continued, Mine
  <2> QED BY <2>2, <2>3, <2>5, <2>6, <2>7, <2>8, <2>9 DEF ContinuationInv, Mine
<1>4. ASSUME Unfenced(Canon)
      PROVE  /\ Fails /\ UNCHANGED entries
             /\ UNCHANGED packages \/ SyncPackage(i)
  BY <1>2, <1>4 DEF Unfenced
<1>5. ASSUME Unfenced(Canon)
      PROVE  /\ Packs' /\ content' = content /\ \A v \in Saves : v # i => kept'[v] = kept[v]
             /\ "hollow" \notin kept[i] => "hollow" \notin kept'[i]
  BY <1>2, <1>4, <1>5, ClaimSynced
<1>6. CASE Unfenced(Canon) /\ Goto(i, "fenceAgain")
  BY <1>1, <1>2, <1>4, <1>5, <1>6, HoldingGoes
<1>7. CASE Unfenced(Canon) /\ Return(i, "ambiguous")
  BY <1>1, <1>2, <1>4, <1>5, <1>7, HoldingLeaves
<1>8. CASE SyncParent /\ SyncPackage(i) /\ Fails /\ Return(i, "ambiguous")
  <2>1. Packs' /\ \A v \in Saves : v # i => kept'[v] = kept[v]
    BY <1>2, <1>8, ClaimSynced
  <2> QED BY <1>1, <1>2, <1>8, <2>1, HoldingLeaves
<1> QED BY <1>3, <1>6, <1>7, <1>8 DEF FenceManifest

LEMMA UnclaimKeeps ==
  ASSUME ContinuationInv, NEW i \in Saves, Unclaim(i), kind' = kind
  PROVE  ContinuationInv'
<1>1. pc[i] \in {"unclaim", "unclaimed"} /\ had' = had /\ Running(i)
  BY DEF Unclaim, At, Running
<1>2. /\ Packs /\ Turns /\ Control /\ ~Acked /\ faults > 0 /\ i # 0
      /\ (pc[i] = "unclaim" => names[Canon] = i /\ pc[i] \in Holding)
      /\ (pc[i] = "unclaimed" => names[Canon] = 0)
  BY <1>1, Reopened DEF Claimed, Holding
<1>3. CASE At(i, "unclaim") /\ Works /\ Remove(Canon) /\ Goto(i, "unclaimed")
  <2>1. names[Canon] = i
    BY <1>2, <1>3 DEF At
  <2>2. Operate(Canon, Canon, 0) /\ content' = [content EXCEPT ![i] = "none"]
        /\ kept' = [kept EXCEPT ![i] = @ \cup Leftovers(content[i])]
    BY <1>3, <2>1 DEF Remove
  <2>3. Packs' /\ \A v \in Saves : v # i => kept'[v] = kept[v]
    BY <1>2, <2>2, EmptiedIs
  <2>4. Mine(i) /\ names'[Canon] = 0
    BY <1>1, <2>2, <2>3, PutIsMine
  <2>5. /\ pc'[i] = "unclaimed" /\ ~Acked' /\ (faults' = 0 => faults = 0)
        /\ Claimed(i)' => ContinuationInv'
    BY <1>1, <1>2, <1>3, <2>4, ClaimGoes DEF ClaimLabels
  <2>6. faults' > 0
    BY <1>2, <1>3 DEF Works
  <2>7. Claimed(i)'
    BY <1>2, <2>4, <2>5, <2>6 DEF Claimed, Holding
  <2> QED BY <2>5, <2>7
<1>4. CASE At(i, "unclaim") /\ Fails /\ Damage(i) /\ Return(i, "ambiguous") /\ UNCHANGED entries
  <2>1. pc[i] \in Holding
    BY <1>2, <1>4 DEF At
  <2>2. Packs' /\ \A v \in Saves : v # i => kept'[v] = kept[v]
    BY <1>2, <1>4, DamagedIs
  <2> QED BY <1>1, <1>4, <2>1, <2>2, HoldingLeaves
<1>5. CASE /\ At(i, "unclaimed") /\ UNCHANGED packages
           /\ \/ Works /\ SyncParent /\ Return(i, "error")
              \/ Fails /\ UNCHANGED entries /\ Return(i, "ambiguous")
  <2>1. names[Canon] = 0 /\ kept' = kept /\ content' = content
    BY <1>2, <1>5 DEF At, packages
  <2>2. Packs'
    BY <1>2, <2>1 DEF Packs
  <2>3. Mine(i) /\ (SyncParent => onDisk' = {names})
    BY <1>1, <1>5, <2>1, <2>2, QuietIsMine
  <2>4. CASE Works /\ SyncParent /\ Return(i, "error")
    BY <1>1, <1>2, <2>1, <2>3, <2>4, ClaimLeaves
  <2>5. CASE Fails /\ UNCHANGED entries /\ Return(i, "ambiguous")
    BY <1>1, <1>2, <2>1, <2>3, <2>5, ClaimLeaves
  <2> QED BY <1>5, <2>4, <2>5
<1> QED BY <1>3, <1>4, <1>5 DEF Unclaim

LEMMA BeginClaims ==
  ASSUME ContinuationInv, NEW i \in Saves, Begin(i), kind' = kind
  PROVE  ContinuationInv'
<1>1. Turns /\ Control /\ Claimed(i) /\ kind[i] = "continuation"
  BY Reopened
<1>2. /\ pc[i] = "new" /\ faults' = faults /\ had' = had
      /\ names' = names /\ onDisk' = onDisk /\ content' = content /\ kept' = kept
      /\ \/ pc'[i] = "done" /\ outcome'[i] = "error"
         \/ pc'[i] = "claim" /\ outcome'[i] = "none"
      /\ (\A j \in Saves : j # i => pc'[j] = pc[j] /\ outcome'[j] = outcome[j])
      /\ Turns' /\ Control'
      /\ (\A v : May(v) => May(v)') /\ (Acked' <=> Acked)
  BY <1>1, BeginIs
<1>3. Entries' /\ Packs' /\ Sole'
  BY <1>2 DEF ContinuationInv, Entries, Packs, Sole
<1>4. Settled'
  BY <1>2 DEF ContinuationInv, Settled
<1>5. ASSUME NEW j \in Saves PROVE Claimed(j)'
  <2>1. CASE j = i
    BY <1>1, <1>2, <2>1 DEF Claimed, Holding
  <2>2. CASE j # i
    BY <1>2, <2>2 DEF ContinuationInv, Claimed, Holding
  <2> QED BY <2>1, <2>2
<1>6. CrashesNeverWedge' /\ Continued'
  BY <1>2 DEF ContinuationInv, CrashesNeverWedge, Continued
<1> QED BY <1>2, <1>3, <1>4, <1>5, <1>6 DEF ContinuationInv

LEMMA NoOrdinary ==
  ASSUME ContinuationInv, NEW i \in Saves
  PROVE  /\ ~(RestoreAside(i) \/ Reconcile(i) \/ FenceCanonical(i) \/ Sweep(i) \/ EndSweep(i))
         /\ ~(MakeStage(i) \/ WriteStage(i) \/ Scrap(i) \/ FenceStage(i) \/ MoveAside(i))
         /\ ~(FenceUntouched(i) \/ FenceAside(i) \/ Publish(i) \/ FenceReported(i) \/ FenceNew(i))
         /\ ~(CleanUpAside(i) \/ Unpublish(i) \/ RestorePrior(i) \/ FenceRestored(i))
<1>1. pc[i] \in {"new", "claim", "unclaimed", "done"} \cup Holding
  BY Reopened DEF Claimed
<1>2. ~(RestoreAside(i) \/ Reconcile(i) \/ FenceCanonical(i) \/ Sweep(i) \/ EndSweep(i))
  BY <1>1 DEF Holding, At, RestoreAside, Reconcile, FenceCanonical, Sweep, EndSweep
<1>3. ~(MakeStage(i) \/ WriteStage(i) \/ Scrap(i) \/ FenceStage(i) \/ MoveAside(i))
  BY <1>1 DEF Holding, At, MakeStage, WriteStage, Scrap, FenceStage, MoveAside
<1>4. ~(FenceUntouched(i) \/ FenceAside(i) \/ Publish(i) \/ FenceReported(i) \/ FenceNew(i))
  BY <1>1 DEF Holding, At, FenceUntouched, FenceAside, Publish, FenceReported, FenceNew
<1>5. ~(CleanUpAside(i) \/ Unpublish(i) \/ RestorePrior(i) \/ FenceRestored(i))
  BY <1>1 DEF Holding, At, CleanUpAside, Unpublish, RestorePrior, FenceRestored
<1> QED BY <1>2, <1>3, <1>4, <1>5

LEMMA ClaimSaveKeeps ==
  ASSUME ContinuationInv, NEW i \in Saves, Save(i)
  PROVE  ContinuationInv'
<1>1. kind' = kind
  BY DEF Save, Frame
<1> QED BY <1>1, NoOrdinary, BeginClaims, ClaimKeeps, MarkClaimKeeps, WriteClaimKeeps,
           CommitManifestKeeps, FenceManifestKeeps, UnclaimKeeps DEF Save

LEMMA ClaimKillKeeps ==
  ASSUME ContinuationInv, NEW i \in Saves, Kill(i)
  PROVE  ContinuationInv'
<1>1. /\ Running(i) /\ Return(i, "killed") /\ Works /\ UNCHANGED entries /\ kind' = kind /\ had' = had
      /\ UNCHANGED packages \/ \E j \in Removing(i) : Damage(j)
  BY DEF Kill, Works
<1>2. Packs /\ Claimed(i) /\ Control
  BY Reopened
<1>3. ASSUME NEW j \in Removing(i) PROVE j = i /\ pc[i] = "unclaim" /\ faults > 0 /\ ~Acked
  BY <1>2 DEF Removing, Claimed, Holding
<1>4. CASE UNCHANGED packages
  <2>1. kept' = kept /\ content' = content
    BY <1>4 DEF packages
  <2>2. Packs' /\ ("hollow" \notin kept'[i] \/ faults > 0)
    BY <1>2, <2>1 DEF Packs, Claimed, Control
  <2>3. Mine(i)
    BY <1>1, <2>1, <2>2, QuietIsMine
  <2> QED BY <1>1, <1>4, <2>2, <2>3, ClaimLeaves
<1>5. CASE \E j \in Removing(i) : Damage(j)
  <2>1. Damage(i) /\ faults > 0 /\ ~Acked
    BY <1>3, <1>5
  <2>2. Packs' /\ \A v \in Saves : v # i => kept'[v] = kept[v]
    BY <1>2, <2>1, DamagedIs
  <2>3. Mine(i)
    BY <1>1, <2>2, QuietIsMine
  <2> QED BY <1>1, <2>1, <2>3, ClaimLeaves
<1> QED BY <1>1, <1>4, <1>5

LEMMA ClaimPowerFailureKeeps ==
  ASSUME ContinuationInv, PowerFailure
  PROVE  ContinuationInv'
<1>1. Turns /\ Control /\ Entries /\ Packs /\ Sole /\ Settled
  BY DEF ContinuationInv
<1>2. /\ names' \in onDisk /\ onDisk' = {names'} /\ Entries'
      /\ Packs' /\ \A v \in Saves : content'[v] \in kept[v] /\ kept'[v] = {content'[v]}
      /\ \A j \in Saves : /\ pc'[j] = IF Running(j) THEN "done" ELSE pc[j]
                          /\ outcome'[j] = IF Running(j) THEN "killed" ELSE outcome[j]
                          /\ ~Running(j)'
      /\ Turns' /\ Control' /\ faults' = faults
      /\ (\A v : May(v) => May(v)') /\ (Acked' <=> Acked)
  BY <1>1, PowerFailureIs
<1>3. Sole'
  BY <1>1, <1>2 DEF Sole
<1>4. Settled'
  <2> SUFFICES ASSUME Acked' PROVE names'[Canon] # 0 /\ kept'[names'[Canon]] = {"whole"}
    BY <1>2 DEF Settled
  <2>1. PICK w : w = names[Canon]
    OBVIOUS
  <2>2. w # 0 /\ kept[w] = {"whole"} /\ names'[Canon] = w /\ names \in onDisk
    BY <1>1, <1>2, <2>1 DEF Settled, Entries
  <2>3. w \in Saves
    BY <2>1, <2>2, NamesAre, PublicationAssumption DEF ContinuationInv, Entries, Saves
  <2> QED BY <1>2, <2>2, <2>3
<1>5. ASSUME NEW j \in Saves PROVE Claimed(j)'
  <2>1. Claimed(j) /\ pc'[j] \in {"new", "done"} /\ (pc'[j] = "new" => pc[j] = "new")
    BY <1>2, <1>5, Reopened DEF Running
  <2>2. pc'[j] = "new" => \A d \in onDisk' : d[Canon] # j
    BY <1>2, <2>1 DEF Claimed
  <2>3. faults' = 0 => "hollow" \notin kept'[j]
    BY <1>2, <2>1 DEF Claimed
  <2> QED BY <2>1, <2>2, <2>3 DEF Claimed, Holding
<1>6. CrashesNeverWedge' /\ Continued'
  <2>1. kind' = kind
    BY DEF PowerFailure
  <2> QED BY <1>2, <2>1 DEF ContinuationInv, CrashesNeverWedge, Continued
<1> QED BY <1>2, <1>3, <1>4, <1>5, <1>6 DEF ContinuationInv

LEMMA ClaimIdleKeeps ==
  ASSUME ContinuationInv,
         UNCHANGED <<entries, packages, pc, kind, had, outcome, lock, faults>>
  PROVE  ContinuationInv'
<1>1. /\ names' = names /\ onDisk' = onDisk /\ content' = content /\ kept' = kept
      /\ pc' = pc /\ kind' = kind /\ had' = had /\ outcome' = outcome /\ lock' = lock /\ faults' = faults
  BY DEF entries, packages
<1>2. Continued' /\ Control' /\ CrashesNeverWedge' /\ Turns'
  BY <1>1 DEF ContinuationInv, Continued, Control, CrashesNeverWedge, Turns, Running
<1>3. (\A v : May(v)' <=> May(v)) /\ (Acked' <=> Acked)
  BY <1>1 DEF May, Acked
<1>4. Entries' /\ Packs' /\ Sole' /\ Settled'
  BY <1>1, <1>3 DEF ContinuationInv, Entries, Packs, Sole, Settled
<1>5. \A j \in Saves : Claimed(j)'
  BY <1>1, <1>3 DEF ContinuationInv, Claimed
<1> QED BY <1>2, <1>4, <1>5 DEF ContinuationInv

LEMMA ContinuationNext == ContinuationInv /\ [Next]_vars => ContinuationInv'
<1> SUFFICES ASSUME ContinuationInv, [Next]_vars PROVE ContinuationInv'
  OBVIOUS
<1>1. CASE \E i \in Saves : Save(i) \/ Kill(i)
  BY <1>1, ClaimSaveKeeps, ClaimKillKeeps
<1>2. CASE PowerFailure
  BY <1>2, ClaimPowerFailureKeeps
<1>3. CASE ReadDir \/ ReadEntries
  BY <1>3, ClaimIdleKeeps DEF ReadDir, ReadEntries
<1>4. CASE AllDone \/ UNCHANGED vars
  BY <1>4, ClaimIdleKeeps DEF AllDone, vars
<1> QED BY <1>1, <1>2, <1>3, <1>4 DEF Next

LEMMA ContinuationStarts == Init /\ Continued => ContinuationInv
<1> SUFFICES ASSUME Init, Continued PROVE ContinuationInv
  OBVIOUS
<1>1. /\ \A e \in Names : names[e] = 0
      /\ onDisk = {names} /\ ~Acked
      /\ \A i \in Saves : /\ pc[i] = "new" /\ outcome[i] = "none" /\ kept[i] = {"none"}
      /\ Control /\ Turns /\ CrashesNeverWedge /\ Entries /\ Packs
  BY InitIs
<1>2. Sole /\ Settled
  BY <1>1, NamesAre DEF Sole, Settled
<1>3. \A i \in Saves : Claimed(i)
  BY <1>1, NamesAre DEF Claimed, Holding
<1> QED BY <1>1, <1>2, <1>3 DEF ContinuationInv

(***************************************************************************)
(* The saves that may be the checkpoint.                                   *)
(***************************************************************************)
LEMMA LeastIs == ASSUME NEW S, S \subseteq Nat, S # {} PROVE \E i \in S : \A j \in S : i <= j
<1> DEFINE R == OpToRel(<, Nat)
<1>1. IsWellFoundedOn(R, Nat)
  BY NatLessThanWellFounded
<1>2. R = {p \in Nat \X Nat : p[1] < p[2]}
  BY DEF OpToRel
<1> HIDE DEF R
<1>3. PICK i \in S : \A j \in S : ~ (<<j, i>> \in R)
  BY <1>1, WFMin
<1>4. ASSUME NEW j \in S PROVE i <= j
  <2>1. j \in Nat /\ i \in Nat
    OBVIOUS
  <2>2. ~ (<<j, i>> \in {p \in Nat \X Nat : p[1] < p[2]})
    BY <1>2, <1>3
  <2>3. <<j, i>> \in Nat \X Nat /\ <<j, i>>[1] = j /\ <<j, i>>[2] = i
    BY <2>1
  <2> QED BY <2>1, <2>2, <2>3
<1> QED BY <1>3, <1>4

LEMMA LastIs == ASSUME NEW S, S \subseteq Saves, S # {} PROVE \E i \in S : \A j \in S : j <= i
<1> DEFINE T == {MaxSaves - j : j \in S}
<1>1. T \subseteq Nat /\ T # {}
  <2>1. ASSUME NEW j \in S PROVE MaxSaves - j \in Nat
    <3>1. j \in 1..MaxSaves /\ MaxSaves \in Nat
      BY PublicationAssumption DEF Saves
    <3> QED BY <3>1
  <2>2. T \subseteq Nat
    BY <2>1
  <2> QED BY <2>2
<1>2. PICK t \in T : \A u \in T : t <= u
  <2> HIDE DEF T
  <2> QED BY <1>1, LeastIs
<1>3. PICK i \in S : t = MaxSaves - i
  OBVIOUS
<1>4. \A j \in S : MaxSaves - i <= MaxSaves - j
  BY <1>2, <1>3
<1>5. \A j \in S : j <= i
  BY <1>4, PublicationAssumption DEF Saves
<1> QED BY <1>5

Held == {i \in Saves : May(i)} \cup IF Acked THEN {} ELSE {0}

LEMMA PossibleIs == Turns => Possible = Held
<1> SUFFICES ASSUME Turns PROVE Possible = Held
  OBVIOUS
<1>1. \A i \in Saves : outcome[i] = "ok" => pc[i] # "new"
  BY DEF Turns
<1>2. CASE Acked
  <2>1. PICK m \in {i \in Saves : outcome[i] = "ok"} : \A j \in {i \in Saves : outcome[i] = "ok"} : j <= m
    <3>1. {i \in Saves : outcome[i] = "ok"} # {}
      BY <1>2 DEF Acked
    <3> QED BY <3>1, LastIs
  <2>2. m \in Saves /\ outcome[m] = "ok" /\ \A j \in Saves : outcome[j] = "ok" => j <= m
    BY <2>1
  <2>3. LastOk \in Saves /\ outcome[LastOk] = "ok" /\ \A j \in Saves : outcome[j] = "ok" => j <= LastOk
    BY <2>2 DEF LastOk
  <2> DEFINE k == LastOk
  <2>4. k \in Saves /\ outcome[k] = "ok" /\ \A j \in Saves : outcome[j] = "ok" => j <= k
    BY <2>3
  <2>5. Possible = {k} \cup {i \in Saves : i > k /\ outcome[i] # "error" /\ pc[i] # "new"}
    BY DEF Possible
  <2> HIDE DEF k
  <2>6. \A i \in Saves : May(i) <=> i = k \/ (i > k /\ outcome[i] # "error" /\ pc[i] # "new")
    <3> SUFFICES ASSUME NEW i \in Saves
                 PROVE  May(i) <=> i = k \/ (i > k /\ outcome[i] # "error" /\ pc[i] # "new")
      OBVIOUS
    <3>1. May(i) => i >= k
      BY <2>4 DEF May, Saves
    <3>2. May(i) => i = k \/ (i > k /\ outcome[i] # "error" /\ pc[i] # "new")
      BY <2>4, <3>1 DEF May, Saves
    <3>3. i = k => May(i)
      BY <1>1, <2>4 DEF May
    <3>4. i > k /\ outcome[i] # "error" /\ pc[i] # "new" => May(i)
      <4> SUFFICES ASSUME i > k, outcome[i] # "error", pc[i] # "new" PROVE May(i)
        OBVIOUS
      <4>1. \A j \in Saves : outcome[j] = "ok" => j <= i
        BY <2>4 DEF Saves
      <4> QED BY <4>1 DEF May
    <3> QED BY <3>2, <3>3, <3>4
  <2> QED BY <1>2, <2>4, <2>5, <2>6 DEF Held
<1>3. CASE ~Acked
  <2>1. LastOk = 0 /\ \A j \in Saves : outcome[j] # "ok"
    BY <1>3 DEF LastOk, Acked
  <2>2. Possible = {0} \cup {i \in Saves : i > 0 /\ outcome[i] # "error" /\ pc[i] # "new"}
    BY <2>1 DEF Possible
  <2>3. \A i \in Saves : May(i) <=> i > 0 /\ outcome[i] # "error" /\ pc[i] # "new"
    BY <2>1 DEF May, Saves
  <2> QED BY <1>3, <2>2, <2>3 DEF Held
<1> QED BY <1>2, <1>3

\* A save begins, goes on, or returns.
LEMMA SaveIs ==
  ASSUME NEW i \in Saves, Save(i)
  PROVE  /\ kind' = kind
         /\ \/ Begin(i)
            \/ /\ Running(i)
               /\ \/ \E l : l \notin {"new", "done"} /\ Goto(i, l)
                  \/ \E o : Return(i, o)
               /\ Works \/ Fails
<1> DEFINE Turn == /\ Running(i)
                   /\ \/ \E l : l \notin {"new", "done"} /\ Goto(i, l)
                      \/ \E o : Return(i, o)
                   /\ Works \/ Fails
<1>1. kind' = kind
  BY DEF Save, Frame
<1>2. RestoreAside(i) \/ Reconcile(i) \/ FenceCanonical(i) => Turn
  BY DEF RestoreAside, Reconcile, FenceCanonical, Fenced, Unfenced, At, Running
<1>3. Sweep(i) \/ EndSweep(i) => Turn
  BY DEF Sweep, EndSweep, At, Running
<1>4. MakeStage(i) \/ WriteStage(i) \/ Scrap(i) => Turn
  BY DEF MakeStage, WriteStage, Scrap, At, Running
<1>5. FenceStage(i) \/ MoveAside(i) \/ FenceUntouched(i) \/ FenceAside(i) => Turn
  BY DEF FenceStage, MoveAside, FenceUntouched, FenceAside, Fenced, Unfenced, At, Running
<1>6. Publish(i) \/ FenceReported(i) \/ FenceNew(i) => Turn
  BY DEF Publish, FenceReported, FenceNew, Fenced, Unfenced, At, Running
<1>7. CleanUpAside(i) \/ Unpublish(i) => Turn
  BY DEF CleanUpAside, Unpublish, At, Running
<1>8. RestorePrior(i) \/ FenceRestored(i) => Turn
  BY DEF RestorePrior, FenceRestored, Fenced, Unfenced, At, Running
<1>9. Claim(i) \/ MarkClaim(i) \/ WriteClaim(i) => Turn
  BY DEF Claim, MarkClaim, WriteClaim, Fenced, Unfenced, At, Running
<1>10. CommitManifest(i) \/ FenceManifest(i) \/ Unclaim(i) => Turn
  BY DEF CommitManifest, FenceManifest, Unclaim, Unfenced, At, Running
<1> HIDE DEF Turn
<1>11. Begin(i) \/ Turn
  BY <1>2, <1>3, <1>4, <1>5, <1>6, <1>7, <1>8, <1>9, <1>10 DEF Save
<1> QED BY <1>1, <1>11 DEF Turn

\* The steps of CheckpointSlot, on the saves that it may hold.
SlotBegin(i) == i \notin Held /\ Held' = Held \cup {i}
SlotCommit(i) == i \in Held /\ Held' = {i}
SlotAbort(i) == i \in Held /\ Held' = Held \ {i}

LEMMA SameHeld ==
  ASSUME \A v : May(v)' <=> May(v), Acked' <=> Acked
  PROVE  Held' = Held
  BY DEF Held

LEMMA ReturnHolds ==
  ASSUME Turns, Control, NEW i \in Saves, Running(i), NEW o, Return(i, o), Works \/ Fails
  PROVE  Held' = Held \/ SlotCommit(i) \/ SlotAbort(i)
<1>1. /\ pc'[i] = "done" /\ (\A j \in Saves : j # i => pc'[j] = pc[j])
      /\ outcome'[i] = o /\ (\A j \in Saves : j # i => outcome'[j] = outcome[j])
      /\ (o # "ok" => (Acked' <=> Acked))
  BY ControlLeaves
<1>2. pc[i] # "new" /\ pc[i] # "done" /\ outcome[i] = "none" /\ May(i) /\ i # 0
  BY RunsAlone DEF Turns
<1>3. CASE o = "ok"
  <2>1. \A v : May(v)' <=> v = i
    <3> SUFFICES ASSUME NEW v PROVE May(v)' <=> v = i
      OBVIOUS
    <3>1. May(i)'
      BY <1>1, <1>2, <1>3 DEF May, Saves
    <3>2. May(v)' => v \in Saves /\ i <= v
      BY <1>1, <1>3 DEF May
    <3>3. ASSUME May(v)', v # i PROVE FALSE
      <4>1. v \in Saves /\ i < v
        BY <3>2, <3>3 DEF Saves
      <4>2. pc[v] = "new" \/ outcome[v] = "error"
        BY <4>1 DEF Turns
      <4> QED BY <1>1, <3>3, <4>1, <4>2 DEF May
    <3> QED BY <3>1, <3>3
  <2>2. Acked'
    BY <1>1, <1>3 DEF Acked
  <2>3. Held' = {i}
    BY <2>1, <2>2 DEF Held
  <2>4. i \in Held
    BY <1>2 DEF Held
  <2> QED BY <2>3, <2>4 DEF SlotCommit
<1>4. CASE o = "error"
  <2>1. \A v : May(v)' <=> May(v) /\ v # i
    <3>1. ~May(i)'
      BY <1>1, <1>4 DEF May
    <3>2. \A v \in Saves : v # i => (May(v)' <=> May(v))
      BY <1>1, <1>2, <1>4 DEF May
    <3> QED BY <3>1, <3>2 DEF May
  <2>2. Acked' <=> Acked
    BY <1>1, <1>4
  <2>3. Held' = Held \ {i}
    BY <1>2, <2>1, <2>2 DEF Held
  <2>4. i \in Held
    BY <1>2 DEF Held
  <2> QED BY <2>3, <2>4 DEF SlotAbort
<1>5. CASE o \notin {"ok", "error"}
  <2>1. \A v : May(v)' <=> May(v)
    BY <1>1, <1>2, <1>5 DEF May
  <2> QED BY <1>1, <1>5, <2>1, SameHeld
<1> QED BY <1>3, <1>4, <1>5

LEMMA BeginHolds ==
  ASSUME Turns, Control, NEW i \in Saves, Begin(i)
  PROVE  Held' = Held \/ SlotBegin(i)
<1>1. /\ pc[i] = "new" /\ outcome[i] = "none"
      /\ \/ pc'[i] = "done" /\ outcome'[i] = "error"
         \/ pc'[i] # "new" /\ outcome'[i] = "none"
      /\ (\A j \in Saves : j # i => pc'[j] = pc[j] /\ outcome'[j] = outcome[j])
      /\ (Acked' <=> Acked)
  BY BeginIs
<1>2. \A v : v # i => (May(v)' <=> May(v))
  BY <1>1 DEF May
<1>3. ~May(i)
  BY <1>1 DEF May
<1>4. CASE outcome'[i] = "error"
  <2>1. ~May(i)'
    BY <1>4 DEF May
  <2> QED BY <1>1, <1>2, <1>3, <2>1, SameHeld
<1>5. CASE pc'[i] # "new" /\ outcome'[i] = "none"
  <2>1. \A j \in Saves : outcome'[j] = "ok" => j <= i
    <3> SUFFICES ASSUME NEW j \in Saves, outcome'[j] = "ok", ~(j <= i) PROVE FALSE
      OBVIOUS
    <3>1. j # i /\ i < j
      BY <1>5 DEF Saves
    <3>2. pc[j] = "new" /\ outcome[j] = "ok"
      BY <1>1, <3>1 DEF Turns
    <3> QED BY <3>2 DEF Turns
  <2>2. May(i)'
    BY <1>5, <2>1 DEF May
  <2>3. Held' = Held \cup {i}
    BY <1>1, <1>2, <2>2 DEF Held
  <2>4. i \notin Held
    BY <1>3, NamesAre DEF Held
  <2> QED BY <2>3, <2>4 DEF SlotBegin
<1> QED BY <1>1, <1>4, <1>5

LEMMA NextHolds ==
  ASSUME Turns, Control, Entries, Packs, [Next]_vars
  PROVE  Held' = Held \/ \E i \in Saves : SlotBegin(i) \/ SlotCommit(i) \/ SlotAbort(i)
<1>1. ASSUME NEW i \in Saves, Save(i)
      PROVE  Held' = Held \/ SlotBegin(i) \/ SlotCommit(i) \/ SlotAbort(i)
  <2>1. CASE Begin(i)
    BY <2>1, BeginHolds
  <2>2. ASSUME Running(i), NEW l, l \notin {"new", "done"}, Goto(i, l), Works \/ Fails PROVE Held' = Held
    <3>1. /\ pc'[i] = l /\ (\A j \in Saves : j # i => pc'[j] = pc[j]) /\ outcome' = outcome
          /\ (Acked' <=> Acked)
      BY <2>2, ControlGoes
    <3>2. \A v : May(v)' <=> May(v)
      BY <2>2, <3>1 DEF May, Running
    <3> QED BY <3>1, <3>2, SameHeld
  <2>3. ASSUME Running(i), NEW o, Return(i, o), Works \/ Fails
        PROVE  Held' = Held \/ SlotCommit(i) \/ SlotAbort(i)
    BY <2>3, ReturnHolds
  <2> QED BY <1>1, <2>1, <2>2, <2>3, SaveIs
<1>2. ASSUME NEW i \in Saves, Kill(i)
      PROVE  Held' = Held \/ SlotCommit(i) \/ SlotAbort(i)
  <2>1. Running(i) /\ Return(i, "killed") /\ Works
    BY <1>2 DEF Kill, Works
  <2> QED BY <2>1, ReturnHolds
<1>3. ASSUME PowerFailure PROVE Held' = Held
  <2>1. \A j \in Saves : /\ pc'[j] = IF Running(j) THEN "done" ELSE pc[j]
                         /\ outcome'[j] = IF Running(j) THEN "killed" ELSE outcome[j]
    BY <1>3, PowerFailureIs
  <2>2. Acked' <=> Acked
    BY <1>3, PowerFailureIs
  <2>3. \A j \in Saves : Running(j) => outcome[j] = "none" /\ pc[j] # "new"
    BY DEF Turns, Running
  <2>4. \A v : May(v)' <=> May(v)
    BY <2>1, <2>3 DEF May, Running
  <2> QED BY <2>2, <2>4, SameHeld
<1>4. ASSUME pc' = pc, outcome' = outcome PROVE Held' = Held
  <2>1. (\A v : May(v)' <=> May(v)) /\ (Acked' <=> Acked)
    BY <1>4 DEF May, Acked
  <2> QED BY <2>1, SameHeld
<1>5. CASE ReadDir \/ ReadEntries \/ AllDone \/ UNCHANGED vars
  BY <1>4, <1>5 DEF ReadDir, ReadEntries, AllDone, vars
<1> QED BY <1>1, <1>2, <1>3, <1>5 DEF Next

(***************************************************************************)
(* What a directory of either kind keeps.                                  *)
(***************************************************************************)
\* A listing that was due to find a checkpoint began after one was published.
Scanned ==
  /\ reader = [f \in {"phase", "listing", "due", "still", "result"} |-> reader[f]]
  /\ reader.phase # "idle" /\ reader.due => Published
  /\ StillScanFindsPublished

DirectoryInv == (OrdinaryInv \/ ContinuationInv) /\ Scanned

LEMMA EitherIs ==
  ASSUME OrdinaryInv \/ ContinuationInv
  PROVE  /\ Turns /\ Control /\ Entries /\ Packs /\ CrashesNeverWedge
         /\ names \in onDisk /\ \A e \in Names : names[e] # 0 => names[e] \in Saves
         /\ Published => OrdinaryInv /\ Acked
<1>1. CASE OrdinaryInv
  <2>1. Turns /\ Control /\ Entries /\ Packs /\ CrashesNeverWedge
    BY <1>1 DEF OrdinaryInv, Disk
  <2>2. Published => Acked
    BY DEF Published, Acked
  <2>3. \A e \in Names : names[e] # 0 => names[e] \in Saves
    BY <2>1, PublicationAssumption DEF Entries, Saves
  <2> QED BY <1>1, <2>1, <2>2, <2>3 DEF Entries
<1>2. CASE ContinuationInv
  <2>1. Turns /\ Control /\ Entries /\ Packs /\ CrashesNeverWedge
    BY <1>2 DEF ContinuationInv
  <2>2. ~Published
    BY <1>2 DEF ContinuationInv, Continued, Published
  <2>3. \A e \in Names : names[e] # 0 => names[e] \in Saves
    BY <2>1, PublicationAssumption DEF Entries, Saves
  <2> QED BY <2>1, <2>2, <2>3 DEF Entries
<1> QED BY <1>1, <1>2

LEMMA EitherNext ==
  ASSUME OrdinaryInv \/ ContinuationInv, [Next]_vars
  PROVE  (OrdinaryInv \/ ContinuationInv)'
  BY OrdinaryNext, ContinuationNext

\* What was published stays so.
LEMMA PublishedStays ==
  ASSUME Turns, Control, [Next]_vars, Published
  PROVE  Published'
<1>1. PICK i \in Saves : kind[i] = "ordinary" /\ outcome[i] = "ok"
  BY DEF Published
<1>2. pc[i] = "done"
  BY <1>1 DEF Turns
<1>3. ASSUME NEW j \in Saves, Running(j), NEW o, Return(j, o), Works \/ Fails PROVE outcome'[i] = outcome[i]
  <2>1. j # i
    BY <1>2, <1>3 DEF Running
  <2> QED BY <1>3, <2>1, ControlLeaves
<1>4. ASSUME NEW j \in Saves, Save(j) PROVE outcome'[i] = outcome[i] /\ kind' = kind
  <2>1. CASE Begin(j)
    <3>1. j # i
      BY <1>2, <2>1 DEF Begin, At
    <3> QED BY <1>4, <2>1, <3>1, BeginIs, SaveIs
  <2>2. ASSUME NEW l, Goto(j, l) PROVE outcome'[i] = outcome[i]
    BY <2>2 DEF Goto
  <2> QED BY <1>3, <1>4, <2>1, <2>2, SaveIs
<1>5. ASSUME NEW j \in Saves, Kill(j) PROVE outcome'[i] = outcome[i] /\ kind' = kind
  <2>1. Running(j) /\ Return(j, "killed") /\ Works /\ kind' = kind
    BY <1>5 DEF Kill, Works
  <2> QED BY <1>3, <2>1
<1>6. ASSUME PowerFailure PROVE outcome'[i] = outcome[i] /\ kind' = kind
  BY <1>2, <1>6 DEF PowerFailure, Running
<1>7. CASE ReadDir \/ ReadEntries \/ AllDone \/ UNCHANGED vars
  BY <1>7 DEF ReadDir, ReadEntries, AllDone, vars, Published
<1>8. outcome'[i] = outcome[i] /\ kind' = kind => Published'
  BY <1>1 DEF Published
<1> QED BY <1>4, <1>5, <1>6, <1>7, <1>8 DEF Next

\* A scan of what is there now reports what was published, or an error.
LEMMA ClassifyIs ==
  ASSUME OrdinaryInv, Acked
  PROVE  Classify({e \in Names : Exists(e)}) # "none"
<1> DEFINE listing == {e \in Names : Exists(e)}
<1>1. /\ Disk /\ names \in onDisk /\ Canon \in Names
      /\ \A e \in Names : names[e] # 0 => names[e] \in Saves
  BY EitherIs, NamesAre DEF OrdinaryInv
<1>2. Shows(names) # {}
  BY <1>1 DEF Disk, Promised
<1>3. CASE names[Canon] # 0
  <2>1. Canon \in listing /\ Exists(Canon)
    BY <1>1, <1>3 DEF Exists
  <2>2. kind[names[Canon]] = "ordinary"
    BY <1>1, <1>3 DEF OrdinaryInv, Ordinary
  <2> HIDE DEF listing
  <2>3. Classify(listing) # "none"
    BY <2>1, <2>2 DEF Classify
  <2> QED BY <2>3 DEF listing
<1>4. CASE names[Canon] = 0
  <2>1. PICK e \in OldNames : names[e] # 0
    BY <1>2, <1>4 DEF Shows, Stored
  <2>2. e \in listing /\ e[1] = "old" /\ ~Exists(Canon)
    BY <1>4, <2>1, OldIs, NamesAre DEF Exists
  <2> HIDE DEF listing
  <2>3. Classify(listing) = "error"
    BY <2>2 DEF Classify
  <2> QED BY <2>3 DEF listing
<1> QED BY <1>3, <1>4

LEMMA ScannedNext ==
  ASSUME DirectoryInv, [Next]_vars
  PROVE  Scanned'
<1>1. /\ Turns /\ Control /\ (Published => OrdinaryInv /\ Acked) /\ Scanned
  BY EitherIs DEF DirectoryInv
<1>2. Published => Published'
  BY <1>1, PublishedStays
<1>3. reader = [f \in {"phase", "listing", "due", "still", "result"} |-> reader[f]]
  BY <1>1 DEF Scanned
<1>4. ASSUME reader' = reader PROVE Scanned'
  BY <1>1, <1>2, <1>4 DEF Scanned, StillScanFindsPublished
<1>5. CASE \E i \in Saves : Save(i) \/ Kill(i)
  <2>1. reader' = reader
    BY <1>5 DEF Save, Frame, Kill
  <2> QED BY <1>4, <2>1
<1>6. CASE PowerFailure
  <2>1. reader' = [reader EXCEPT !.phase = "idle"]
    BY <1>6 DEF PowerFailure
  <2>2. reader' = [f \in {"phase", "listing", "due", "still", "result"} |-> reader'[f]] /\ reader'.phase = "idle"
    BY <1>3, <2>1
  <2> QED BY <2>2 DEF Scanned, StillScanFindsPublished
<1>7. CASE ReadDir
  <2>1. /\ reader' = [f \in {"phase", "listing", "due", "still", "result"} |-> reader'[f]]
        /\ reader'.phase = "listed" /\ reader'.due = Published
    BY <1>7 DEF ReadDir
  <2> QED BY <1>2, <2>1 DEF Scanned, StillScanFindsPublished
<1>8. CASE ReadEntries
  <2>1. /\ reader.phase = "listed"
        /\ reader' = [reader EXCEPT !.phase = "done", !.result = Classify(reader.listing),
                                    !.still = reader.listing = {e \in Names : Exists(e)}]
    BY <1>8 DEF ReadEntries
  <2>2. PICK r : r = Classify(reader.listing)
    OBVIOUS
  <2>3. PICK s \in BOOLEAN : s = (reader.listing = {e \in Names : Exists(e)})
    OBVIOUS
  <2>4. reader' = [reader EXCEPT !.phase = "done", !.result = r, !.still = s]
    BY <2>1, <2>2, <2>3
  <2>5. /\ reader' = [f \in {"phase", "listing", "due", "still", "result"} |-> reader'[f]]
        /\ reader'.due = reader.due /\ reader'.result = r /\ reader'.still = s
    BY <1>3, <2>4
  <2>6. s /\ reader.due => r # "none"
    BY <1>1, <2>1, <2>2, <2>3, ClassifyIs DEF Scanned
  <2> QED BY <1>1, <1>2, <2>1, <2>5, <2>6 DEF Scanned, StillScanFindsPublished
<1>9. CASE AllDone \/ UNCHANGED vars
  BY <1>4, <1>9 DEF AllDone, vars
<1> QED BY <1>5, <1>6, <1>7, <1>8, <1>9 DEF Next

LEMMA DirectoryStarts == OneKindInit => DirectoryInv
<1> SUFFICES ASSUME OneKindInit PROVE DirectoryInv
  OBVIOUS
<1>1. Init /\ (Ordinary \/ Continued)
  BY PublicationAssumption DEF OneKindInit, Ordinary, Continued
<1>2. Scanned
  BY <1>1 DEF Init, Scanned, StillScanFindsPublished
<1> QED BY <1>1, <1>2, OrdinaryStarts, ContinuationStarts DEF DirectoryInv

\* The invariant holds of all saves of one directory, whatever fails and whoever dies.
THEOREM DirectoryInvariance == OneKindSpec => []DirectoryInv
<1>1. DirectoryInv /\ [Next]_vars => DirectoryInv'
  BY EitherNext, ScannedNext DEF DirectoryInv
<1> QED BY <1>1, DirectoryStarts, PTL DEF OneKindSpec

\* Without an error of the file system no save is ambiguous: a crash is always reconciled.
THEOREM CrashesAreReconciled == OneKindSpec => []CrashesNeverWedge
<1>1. DirectoryInv => CrashesNeverWedge
  BY EitherIs DEF DirectoryInv
<1> QED BY <1>1, DirectoryInvariance, PTL

LEMMA LastOkIs == LastOk # 0 => Acked
  BY DEF LastOk, Acked

LEMMA SafeIsWhole ==
  ASSUME OrdinaryInv \/ ContinuationInv, Safe
  PROVE  VisibleIsWhole
<1>1. CASE OrdinaryInv
  <2>1. ASSUME NEW d \in onDisk, d[Canon] # 0 PROVE kept[d[Canon]] = {"whole"}
    <3>1. d[Canon] \in Shows(d)
      BY <2>1 DEF Shows
    <3> QED BY <1>1, <3>1 DEF OrdinaryInv, Disk, Whether
  <2> QED BY <2>1 DEF VisibleIsWhole
<1>2. CASE ContinuationInv
  <2>1. ASSUME NEW d \in onDisk, NEW v, v = d[Canon], v # 0
        PROVE  v \in Saves /\ kind[v] = "continuation" /\ "hollow" \notin kept[v]
    <3>1. v \in Saves
      BY <1>2, <2>1, NamesAre, PublicationAssumption DEF ContinuationInv, Entries, Saves
    <3>2. kind[v] = "continuation" /\ Claimed(v) /\ Settled
      BY <1>2, <3>1 DEF ContinuationInv, Continued
    <3>3. faults = 0 => "hollow" \notin kept[v]
      BY <3>2 DEF Claimed
    <3>4. Acked => kept[v] = {"whole"}
      BY <2>1, <3>2 DEF Settled
    <3> QED BY <3>1, <3>2, <3>3, <3>4 DEF Safe
  <2> QED BY <2>1 DEF VisibleIsWhole
<1> QED BY <1>1, <1>2

\* What the canonical name leads to is whole in every state that a power failure may
\* leave, as long as nothing failed, and after failures too once a save has returned Ok.
THEOREM VisibleStaysWhole == OneKindSpec => []PublishedStaysWhole
<1>1. DirectoryInv => PublishedStaysWhole
  BY SafeIsWhole, LastOkIs DEF DirectoryInv, PublishedStaysWhole, Safe
<1> QED BY <1>1, DirectoryInvariance, PTL

\* A scan of entries that did not change meanwhile never reports that there is no
\* checkpoint once a save has returned Ok.
THEOREM ScansFindPublished == OneKindSpec => []StillScanFindsPublished
<1>1. DirectoryInv => StillScanFindsPublished
  BY DEF DirectoryInv, Scanned
<1> QED BY <1>1, DirectoryInvariance, PTL

(***************************************************************************)
(* The slot.                                                               *)
(***************************************************************************)
\* A recovery finds one of the saves that may be the checkpoint, and nothing only
\* while no save has returned Ok.
LEMMA ShownIsHeld ==
  ASSUME OrdinaryInv \/ ContinuationInv
  PROVE  Shown \in Held
<1>1. /\ Packs /\ names \in onDisk /\ \A e \in Names : names[e] # 0 => names[e] \in Saves
  BY EitherIs
<1>2. Asides = Stored(names) /\ \A e \in Asides : e \in Names /\ names[e] # 0
  BY AsidesAre
<1>3. Canon \in Names /\ \A i \in Saves : i # 0
  BY NamesAre
<1>4. \A v \in Shows(names) : May(v)
  <2>1. CASE OrdinaryInv
    BY <1>1, <2>1 DEF OrdinaryInv, Disk, Promised
  <2>2. CASE ContinuationInv
    <3>1. Stored(names) = {}
      BY <1>1, <2>2, NamesAre DEF ContinuationInv, Sole, Stored
    <3> QED BY <1>1, <1>3, <2>2, <3>1 DEF ContinuationInv, Sole, Shows
  <2> QED BY <2>1, <2>2
<1>5. Acked => Shows(names) # {} /\ \A v \in Shows(names) : kept[v] = {"whole"}
  <2>1. CASE OrdinaryInv
    BY <1>1, <2>1 DEF OrdinaryInv, Disk, Promised, Whether, Safe
  <2>2. CASE ContinuationInv
    BY <2>2 DEF ContinuationInv, Settled, Shows
  <2> QED BY <2>1, <2>2
<1>6. Acked /\ names[Canon] = 0 => \A e, f \in Asides : e = f
  <2>1. CASE OrdinaryInv
    BY <1>1, <1>2, <2>1 DEF OrdinaryInv, Disk, Whether, Safe
  <2>2. CASE ContinuationInv
    BY <2>2 DEF ContinuationInv, Settled
  <2> QED BY <2>1, <2>2
<1>7. ASSUME NEW e \in Names, names[e] \in Shows(names), Acked PROVE Whole(e)
  <2>1. names[e] \in Saves /\ kept[names[e]] = {"whole"}
    BY <1>4, <1>5, <1>7 DEF May
  <2> QED BY <1>1, <2>1 DEF Packs, Whole
<1>8. CASE names[Canon] # 0
  <2>1. names[Canon] \in Shows(names)
    BY <1>8 DEF Shows
  <2>2. names[Canon] \in Held
    BY <1>4, <2>1 DEF Held, May
  <2>3. Acked => Whole(Canon)
    BY <1>3, <1>7, <2>1
  <2>4. Shown = IF Whole(Canon) THEN names[Canon] ELSE 0
    BY <1>8 DEF Shown, Exists
  <2> QED BY <2>2, <2>3, <2>4 DEF Held
<1>9. CASE names[Canon] = 0
  <2>1. \A e \in Asides : names[e] \in Shows(names)
    BY <1>2, <1>9 DEF Shows
  <2>2. CASE \E e \in Asides : Asides = {e} /\ Whole(e)
    <3>1. PICK e \in Asides : Asides = {e}
      BY <2>2
    <3>2. (CHOOSE f \in Asides : TRUE) = e
      BY <3>1
    <3>3. Shown = names[e]
      BY <1>9, <2>2, <3>2 DEF Shown, Exists
    <3> QED BY <1>4, <2>1, <3>1, <3>3 DEF Held, May
  <2>3. CASE ~\E e \in Asides : Asides = {e} /\ Whole(e)
    <3>1. Shown = 0
      BY <1>9, <2>3 DEF Shown, Exists
    <3>2. ~Acked
      <4> SUFFICES ASSUME Acked PROVE FALSE
        OBVIOUS
      <4>1. PICK e \in Asides : TRUE
        BY <1>2, <1>5, <1>9 DEF Shows
      <4>2. Asides = {e}
        BY <1>6, <1>9, <4>1
      <4>3. Whole(e)
        BY <1>2, <1>7, <2>1, <4>1
      <4> QED BY <2>3, <4>1, <4>2, <4>3
    <3> QED BY <3>1, <3>2 DEF Held
  <2> QED BY <2>2, <2>3
<1> QED BY <1>8, <1>9

Slotted == Shown \in Held /\ Possible = Held

LEMMA SlottedIs == DirectoryInv => Slotted
  BY EitherIs, ShownIsHeld, PossibleIs DEF DirectoryInv, Slotted

\* A checkpoint name is the slot that CheckpointSlot describes.
THEOREM PublicationIsASlot == OneKindSpec => ImplementsSlot
<1>1. OneKindInit => Slot!Init
  <2> SUFFICES ASSUME OneKindInit PROVE Slot!Init
    OBVIOUS
  <2>1. DirectoryInv /\ Init
    BY DirectoryStarts DEF OneKindInit
  <2>2. ~Acked /\ \A e \in Names : names[e] = 0
    BY <2>1, InitIs
  <2>3. \A i \in Saves : ~May(i)
    BY <2>1 DEF Init, May
  <2>4. Held = {0}
    BY <2>2, <2>3 DEF Held
  <2> QED BY <2>1, <2>4, SlottedIs DEF Slotted, Slot!Init
<1>2. DirectoryInv /\ Slotted /\ Slotted' /\ [Next]_vars => [Slot!Next]_(Slot!vars)
  <2> SUFFICES ASSUME DirectoryInv, Slotted, Slotted', [Next]_vars PROVE Slot!Next
    OBVIOUS
  <2>1. Held' = Held \/ \E i \in Saves : SlotBegin(i) \/ SlotCommit(i) \/ SlotAbort(i)
    BY EitherIs, NextHolds DEF DirectoryInv
  <2>2. Possible = Held /\ Possible' = Held' /\ Shown' \in Possible'
    BY DEF Slotted
  <2>3. Slot!Move \/ \E i \in Saves : Slot!Begin(i) \/ Slot!Commit(i) \/ Slot!Abort(i)
    BY <2>1, <2>2 DEF SlotBegin, SlotCommit, SlotAbort, Slot!Move, Slot!Begin, Slot!Commit, Slot!Abort
  <2> QED BY <2>2, <2>3 DEF Slot!Next
<1> QED BY <1>1, <1>2, DirectoryInvariance, SlottedIs, PTL
        DEF OneKindSpec, ImplementsSlot, Slot!Spec
====
