---------------------------- MODULE CastPageProofs ----------------------------
(* Theorems about the page of a series, for any rows, forms and bounds.    *)
EXTENDS CastPage, WellFoundedInduction, TLAPS

(***************************************************************************)
(* The image fields.  Every list anywhere on the page is one that files    *)
(* were put into one by one, so it names nothing twice; and the list in    *)
(* the form, like each of those its uploads began with, is what its author *)
(* made of it but for the images that crossed an upload.                   *)
(***************************************************************************)
Lists == {list \in Seq(used) : IsInjective(list)}

Upload == [asset : used, images : Lists, mounted : BOOLEAN]

FieldTyped ==
  /\ bound \in Bounds
  /\ used \in SUBSET Asset
  /\ images \in [Host -> Lists]
  /\ uploads \in [Host -> SUBSET Upload]
  /\ meant \in [Host -> SUBSET Asset]
  /\ crossed \in [Host -> SUBSET Asset]

UploadsOK(h) ==
  /\ \A u \in uploads[h] : u.asset \notin ToSet(u.images)
  /\ \A u, v \in uploads[h] : u.mounted /\ v.mounted => u = v

Agrees(h, list) ==
  /\ ToSet(list) \subseteq meant[h] \cup crossed[h]
  /\ meant[h] \subseteq ToSet(list) \cup crossed[h]

ListOK(h) ==
  /\ Agrees(h, images[h])
  /\ \A u \in uploads[h] : Agrees(h, u.images)

FieldInv == FieldTyped /\ \A h \in Host : UploadsOK(h) /\ ListOK(h)

(***************************************************************************)
(* The rows.  A version is appended by a save that names the one before    *)
(* it; what a row shows, saves from or reads a history over is a version   *)
(* that exists; and a history that was read reaches the version it was     *)
(* opened over.                                                            *)
(***************************************************************************)
Revised == [images : Lists, seed : Nat, revision : Nat]

Save == [state : {"sent", "written", "conflict", "failed", "lost"},
         revision : Nat, images : Lists, seed : Nat]

Panel == [state : {"closed", "loading", "read", "failed"}, over : Nat,
          earlier : SUBSET Nat]

Get == [over : Nat, versions : Nat]

HistoryOK ==
  /\ history \in [Row -> Seq(Revised)]
  /\ \A r \in Row :
       /\ Len(history[r]) >= 1
       /\ \A n \in 2..Len(history[r]) : history[r][n].revision = n - 1

Exists(r, n) == n \in 1..Len(history[r])

ShownOK ==
  /\ shown \in [Row -> Nat]
  /\ read # None => read.shown \in [Row -> Nat]
  /\ \A r \in Row : Exists(r, shown[r]) /\ (read # None => Exists(r, read.shown[r]))

EditorOK ==
  /\ seed \in [Row -> Nat]
  /\ saving \in [Row -> Save \cup {None}]
  /\ \A r \in Row : saving[r] # None => Exists(r, saving[r].revision)

Behind(over, earlier) == {n \in earlier : n <= over} = 1..(over - 1)

PanelOK ==
  /\ panel \in [Row -> Panel]
  /\ \A r \in Row : panel[r].state = "read" => Behind(panel[r].over, panel[r].earlier)

GetsOK ==
  /\ gets \in [Row -> Seq(Get)]
  /\ \A r \in Row : \A i \in DOMAIN gets[r] :
       /\ Exists(r, gets[r][i].over)
       /\ gets[r][i].versions = 0 \/ gets[r][i].over <= gets[r][i].versions

RowInv == HistoryOK /\ ShownOK /\ EditorOK /\ PanelOK /\ GetsOK

(***************************************************************************)
(* The create form.  A character is behind it once it was told of it, or   *)
(* of a later one.  While it is not about to be emptied, what is in it and *)
(* in its uploads is in no character behind it, but for what crossed an    *)
(* upload; and what is being uploaded is in no character and no list yet.  *)
(***************************************************************************)
Character == [images : Lists, crossed : SUBSET Asset,
              told : {"written", "failed", "lost"}]

Creation == [state : {"sent", "written", "failed", "lost"}, images : Lists,
             crossed : SUBSET Asset]

FormTyped ==
  /\ created \in [Form -> Seq(Character)]
  /\ creating \in [Form -> Creation \cup {None}]

Past(f, i) == \E n \in i..Len(created[f]) : created[f][n].told # "failed"

\* Of the images of characters behind the form, the list has only these.
Inherits(f, list, assets) ==
  \A i \in DOMAIN created[f] : Past(f, i) =>
    ToSet(created[f][i].images) \cap ToSet(list) \subseteq assets

Open(f) == creating[f] = None \/ creating[f].state \in {"sent", "failed"}

SentOK(f) ==
  creating[f] # None /\ creating[f].state = "sent" =>
    Inherits(f, creating[f].images, creating[f].crossed)

OpenOK(f) ==
  Open(f) =>
    /\ Inherits(f, images[f], crossed[f])
    /\ \A u \in uploads[f] : Inherits(f, u.images, crossed[f])

Spent(f) == UNION {ToSet(created[f][i].images) : i \in DOMAIN created[f]}

Unseen(f, a) ==
  /\ a \notin Spent(f)
  /\ a \notin ToSet(images[f])
  /\ creating[f] # None => a \notin ToSet(creating[f].images)

PendingOK(f) ==
  \A u \in uploads[f] :
    /\ Unseen(f, u.asset)
    /\ \A v \in uploads[f] : u.asset \notin ToSet(v.images) /\ (v.asset = u.asset => v = u)

CreatedOK(f) ==
  \A i, j \in DOMAIN created[f] : i < j =>
    \/ \A n \in i..(j - 1) : created[f][n].told = "failed"
    \/ ToSet(created[f][i].images) \cap ToSet(created[f][j].images) \subseteq created[f][j].crossed

FormInv ==
  /\ FormTyped
  /\ \A f \in Form : SentOK(f) /\ OpenOK(f) /\ PendingOK(f) /\ CreatedOK(f)

Inv == FieldInv /\ RowInv /\ FormInv

-----------------------------------------------------------------------------
(* Lists.                                                                  *)

\* Induction over the natural numbers, stated of the set of those that have a property.
LEMMA NaturalsAreReached ==
  ASSUME NEW P \in SUBSET Nat, 0 \in P, \A n \in P : n + 1 \in P
  PROVE  P = Nat
<1>1. SUFFICES ASSUME Nat \ P # {}
               PROVE  FALSE
  OBVIOUS
<1>2. PICK n \in Nat \ P : \A m \in Nat \ P : ~(m < n)
  <2>1. IsWellFoundedOn(OpToRel(<, Nat), Nat)
    BY NatLessThanWellFounded
  <2>2. PICK n \in Nat \ P : \A m \in Nat \ P : ~(<<m, n>> \in OpToRel(<, Nat))
    BY <1>1, <2>1, WFMin
  <2>3. QED
    BY <2>2 DEF OpToRel
<1>3. n # 0 /\ n - 1 \in Nat /\ n - 1 < n
  BY <1>2
<1>4. n - 1 \in P
  BY <1>2, <1>3
<1>5. QED
  BY <1>2, <1>3, <1>4

\* What images.filter has kept of the first n entries, as Without counts them.
Keeps(list, a, f, m) ==
  /\ f[0] = <<>>
  /\ \A n \in 1..m : f[n] = IF list[n] = a THEN f[n - 1] ELSE Append(f[n - 1], list[n])

LEMMA KeepingExists ==
  ASSUME NEW S, NEW list \in Seq(S), NEW a
  PROVE  \E f \in [0..Len(list) -> Seq(S)] : Keeps(list, a, f, Len(list))
<1> DEFINE P == {m \in Nat : m <= Len(list) =>
                   \E f \in [0..m -> Seq(S)] : Keeps(list, a, f, m)}
<1>1. 0 \in P
  <2> DEFINE g == [n \in 0..0 |-> <<>>]
  <2>1. g \in [0..0 -> Seq(S)] /\ Keeps(list, a, g, 0)
    BY DEF Keeps
  <2> HIDE DEF g
  <2>2. QED
    BY <2>1
<1>2. ASSUME NEW m \in P
      PROVE  m + 1 \in P
  <2>1. SUFFICES ASSUME m + 1 <= Len(list)
                 PROVE  \E f \in [0..(m + 1) -> Seq(S)] : Keeps(list, a, f, m + 1)
    OBVIOUS
  <2>2. m \in Nat /\ Len(list) \in Nat /\ m <= Len(list)
    BY <2>1
  <2>3. PICK f \in [0..m -> Seq(S)] : Keeps(list, a, f, m)
    BY <2>2
  <2> HIDE DEF P
  <2> DEFINE e == IF list[m + 1] = a THEN f[m] ELSE Append(f[m], list[m + 1])
             g == [n \in 0..(m + 1) |-> IF n = m + 1 THEN e ELSE f[n]]
  <2>4. list[m + 1] \in S /\ f[m] \in Seq(S)
    BY <2>1, <2>2
  <2>5. e \in Seq(S)
    BY <2>4
  <2>6. /\ \A n \in 1..m : g[n] = f[n] /\ g[n - 1] = f[n - 1]
        /\ g[m + 1] = e /\ g[(m + 1) - 1] = f[m] /\ g[0] = f[0]
    BY <2>2
  <2>7. g \in [0..(m + 1) -> Seq(S)]
    BY <2>2, <2>5
  <2>8. \A n \in 1..(m + 1) : n \in 1..m \/ n = m + 1
    BY <2>2
  <2> HIDE DEF g
  <2>9. \A n \in 1..m : g[n] = IF list[n] = a THEN g[n - 1] ELSE Append(g[n - 1], list[n])
    BY <2>3, <2>6 DEF Keeps
  <2>10. Keeps(list, a, g, m + 1)
    BY <2>3, <2>6, <2>8, <2>9 DEF Keeps
  <2>11. QED
    BY <2>7, <2>10
<1>3. P = Nat
  <2> HIDE DEF P
  <2>1. P \subseteq Nat
    BY DEF P
  <2>2. QED
    BY <1>1, <1>2, <2>1, NaturalsAreReached
<1> HIDE DEF P
<1>4. Len(list) \in P
  BY <1>3
<1>5. QED
  BY <1>4 DEF P

\* Without is the last value of such a function.
LEMMA WithoutKeeps ==
  ASSUME NEW S, NEW list \in Seq(S), NEW a
  PROVE  \E f : Keeps(list, a, f, Len(list)) /\ Without(list, a) = f[Len(list)]
<1> DEFINE Kept(f) == f = [n \in 0..Len(list) |->
             IF n = 0 THEN <<>>
             ELSE IF list[n] = a THEN f[n - 1] ELSE Append(f[n - 1], list[n])]
<1>1. PICK f \in [0..Len(list) -> Seq(S)] : Keeps(list, a, f, Len(list))
  BY KeepingExists
<1>2. Kept(f)
  <2>1. \A n \in 0..Len(list) : n = 0 \/ n \in 1..Len(list)
    OBVIOUS
  <2>2. \A n \in 0..Len(list) :
          f[n] = IF n = 0 THEN <<>>
                 ELSE IF list[n] = a THEN f[n - 1] ELSE Append(f[n - 1], list[n])
    BY <1>1, <2>1 DEF Keeps
  <2>3. f = [n \in 0..Len(list) |-> f[n]]
    OBVIOUS
  <2>4. QED
    BY <2>2, <2>3
<1>3. Kept(CHOOSE g : Kept(g))
  BY <1>2
<1> DEFINE g == CHOOSE g : Kept(g)
<1>4. Without(list, a) = g[Len(list)]
  BY DEF Without
<1>5. Keeps(list, a, g, Len(list))
  <2> HIDE DEF g
  <2>1. g = [n \in 0..Len(list) |->
               IF n = 0 THEN <<>>
               ELSE IF list[n] = a THEN g[n - 1] ELSE Append(g[n - 1], list[n])]
    BY <1>3 DEF g
  <2> HIDE DEF Kept
  <2>2. \A n \in 0..Len(list) :
          g[n] = IF n = 0 THEN <<>>
                 ELSE IF list[n] = a THEN g[n - 1] ELSE Append(g[n - 1], list[n])
    BY <2>1
  <2>3. Len(list) \in Nat
    OBVIOUS
  <2>4. QED
    BY <2>2, <2>3 DEF Keeps
<1> HIDE DEF g
<1>6. QED
  BY <1>4, <1>5

\* An entry more: the list stays one that names nothing twice.
LEMMA AppendedList ==
  ASSUME NEW S, NEW list \in Seq(S), IsInjective(list), NEW a \in S, a \notin ToSet(list)
  PROVE  /\ Append(list, a) \in Seq(S)
         /\ IsInjective(Append(list, a))
         /\ ToSet(Append(list, a)) = ToSet(list) \cup {a}
<1> DEFINE t == Append(list, a)
<1>1. /\ t \in Seq(S) /\ Len(list) \in Nat
      /\ DOMAIN list = 1..Len(list) /\ DOMAIN t = 1..(Len(list) + 1)
      /\ \A n \in 1..Len(list) : t[n] = list[n]
      /\ t[Len(list) + 1] = a
  OBVIOUS
<1> HIDE DEF t
<1>2. \A n \in DOMAIN t : n \in DOMAIN list \/ n = Len(list) + 1
  BY <1>1
<1>3. \A n \in DOMAIN list : list[n] # a
  BY DEF ToSet
<1>4. IsInjective(t)
  BY <1>1, <1>2, <1>3 DEF IsInjective
<1>5. ToSet(t) = ToSet(list) \cup {a}
  BY <1>1, <1>2 DEF ToSet
<1>6. QED
  BY <1>1, <1>4, <1>5 DEF t

(***************************************************************************)
(* What images.filter leaves: the other entries, none of them twice.       *)
(***************************************************************************)
LEMMA WithoutOne ==
  ASSUME NEW S, NEW list \in Seq(S), IsInjective(list), NEW a
  PROVE  /\ Without(list, a) \in Seq(S)
         /\ IsInjective(Without(list, a))
         /\ ToSet(Without(list, a)) = ToSet(list) \ {a}
<1>1. PICK f : Keeps(list, a, f, Len(list)) /\ Without(list, a) = f[Len(list)]
  BY WithoutKeeps
<1> DEFINE First(n) == {list[i] : i \in 1..n}
           Kept(n) == f[n] \in Seq(S) /\ IsInjective(f[n]) /\ ToSet(f[n]) = First(n) \ {a}
           P == {n \in Nat : n <= Len(list) => Kept(n)}
<1>2. Len(list) \in Nat /\ DOMAIN list = 1..Len(list) /\ \A i \in 1..Len(list) : list[i] \in S
  OBVIOUS
<1>3. 0 \in P
  <2>1. f[0] = <<>>
    BY <1>1 DEF Keeps
  <2>2. <<>> \in Seq(S) /\ IsInjective(<<>>) /\ ToSet(<<>>) = {}
    BY DEF IsInjective, ToSet
  <2>3. First(0) = {}
    OBVIOUS
  <2>4. QED
    BY <2>1, <2>2, <2>3
<1>4. ASSUME NEW m \in P
      PROVE  m + 1 \in P
  <2>1. SUFFICES ASSUME m + 1 <= Len(list)
                 PROVE  Kept(m + 1)
    OBVIOUS
  <2>2. m \in Nat /\ Kept(m) /\ m + 1 \in 1..Len(list) /\ (m + 1) - 1 = m
    BY <1>2, <2>1
  <2>3. f[m + 1] = IF list[m + 1] = a THEN f[m] ELSE Append(f[m], list[m + 1])
    BY <1>1, <2>2 DEF Keeps
  <2>4. First(m + 1) = First(m) \cup {list[m + 1]}
    BY <2>2
  <2>5. list[m + 1] \notin First(m)
    <3>1. ASSUME NEW i \in 1..m
          PROVE  list[i] # list[m + 1]
      BY <1>2, <2>2, <3>1 DEF IsInjective
    <3>2. QED
      BY <3>1
  <2> HIDE DEF P, First
  <2>6. CASE list[m + 1] = a
    BY <2>2, <2>3, <2>4, <2>5, <2>6
  <2>7. CASE list[m + 1] # a
    <3>1. list[m + 1] \in S /\ list[m + 1] \notin ToSet(f[m])
      BY <1>2, <2>2, <2>5
    <3>2. QED
      BY <2>2, <2>3, <2>4, <2>7, <3>1, AppendedList
  <2>8. QED
    BY <2>6, <2>7
<1>5. P = Nat
  <2> HIDE DEF P
  <2>1. P \subseteq Nat
    BY DEF P
  <2>2. QED
    BY <1>3, <1>4, <2>1, NaturalsAreReached
<1>6. Kept(Len(list))
  <2> HIDE DEF Kept
  <2>1. QED
    BY <1>2, <1>5
<1>7. First(Len(list)) = ToSet(list)
  BY <1>2 DEF ToSet
<1>8. QED
  BY <1>1, <1>6, <1>7

-----------------------------------------------------------------------------
(* The image fields, step by step.                                         *)

\* Assets are only ever added, so a list that was one stays one.
LEMMA ListsGrow ==
  ASSUME used \subseteq used'
  PROVE  /\ Lists \subseteq Lists'
         /\ Upload \subseteq Upload'
         /\ Revised \subseteq Revised'
         /\ Save \subseteq Save'
         /\ Character \subseteq Character'
         /\ Creation \subseteq Creation'
<1>1. Lists \subseteq Lists'
  BY DEF Lists
<1>2. QED
  BY <1>1 DEF Upload, Revised, Save, Character, Creation

LEMMA EmptyList == <<>> \in Lists /\ ToSet(<<>>) = {}
BY DEF Lists, IsInjective, ToSet

LEMMA OneEntryList ==
  ASSUME NEW a \in used
  PROVE  <<a>> \in Lists
BY DEF Lists, IsInjective

LEMMA FieldStays ==
  ASSUME FieldInv, UNCHANGED fieldVars
  PROVE  FieldInv'
BY DEF FieldInv, FieldTyped, UploadsOK, ListOK, Agrees, fieldVars, Lists, Upload

\* The host starts the list over, and may take the field off the screen.
LEMMA FieldReseeded ==
  ASSUME FieldInv, NEW h \in Host, NEW list \in Lists, Reseed(h, list),
         UNCHANGED uploads \/ Unmount(h), UNCHANGED <<bound, used>>
  PROVE  FieldInv'
<1>1. /\ images' = [images EXCEPT ![h] = list]
      /\ meant' = [meant EXCEPT ![h] = ToSet(list)]
      /\ crossed' = [crossed EXCEPT ![h] =
           IF uploads[h] = {} THEN {} ELSE @ \cup (ToSet(images[h]) \cup ToSet(list))]
  BY DEF Reseed, Cross, SetImages
<1>2. \A g \in Host : g # h => uploads'[g] = uploads[g]
  BY DEF Unmount, FieldInv, FieldTyped
<1>3. \/ uploads'[h] = uploads[h]
      \/ uploads'[h] = {[u EXCEPT !.mounted = FALSE] : u \in uploads[h]}
  BY DEF Unmount, FieldInv, FieldTyped
<1>4. /\ uploads' \in [Host -> SUBSET Upload]
      /\ UploadsOK(h)'
  <2>1. CASE UNCHANGED uploads
    BY <2>1 DEF FieldInv, FieldTyped, UploadsOK
  <2>2. CASE Unmount(h)
    <3>1. /\ uploads[h] \subseteq Upload
          /\ uploads'[h] = {[u EXCEPT !.mounted = FALSE] : u \in uploads[h]}
      BY <2>2 DEF Unmount, FieldInv, FieldTyped
    <3>2. \A v \in uploads'[h] : \E u \in uploads[h] :
            /\ v \in Upload /\ v.mounted = FALSE
            /\ v.asset = u.asset /\ v.images = u.images
      BY <3>1 DEF Upload
    <3>3. uploads'[h] \subseteq Upload /\ UploadsOK(h)'
      BY <3>2 DEF FieldInv, UploadsOK
    <3>4. QED
      BY <2>2, <3>3 DEF Unmount, FieldInv, FieldTyped
  <2>3. QED
    BY <2>1, <2>2
<1>5. FieldTyped'
  <2>1. ToSet(list) \subseteq Asset /\ ToSet(images[h]) \subseteq Asset
    BY DEF Lists, ToSet, FieldInv, FieldTyped
  <2>2. QED
    BY <1>1, <1>4, <2>1 DEF FieldInv, FieldTyped, Lists, Upload
<1>6. ListOK(h)'
  <2>1. /\ images'[h] = list /\ meant'[h] = ToSet(list)
        /\ uploads[h] # {} => crossed'[h] = crossed[h] \cup (ToSet(images[h]) \cup ToSet(list))
    BY <1>1 DEF FieldInv, FieldTyped
  <2>2. ASSUME NEW v \in uploads'[h]
        PROVE  \E u \in uploads[h] : v.images = u.images
    <3>1. uploads[h] \subseteq Upload
      BY DEF FieldInv, FieldTyped
    <3>2. QED
      BY <1>3, <3>1 DEF Upload
  <2>3. ASSUME NEW u \in uploads[h]
        PROVE  ToSet(u.images) \subseteq crossed'[h] /\ ToSet(list) \subseteq crossed'[h]
    <3>1. Agrees(h, u.images) /\ Agrees(h, images[h])
      BY DEF FieldInv, ListOK
    <3>2. QED
      BY <2>1, <3>1 DEF Agrees
  <2>4. QED
    BY <2>1, <2>2, <2>3 DEF ListOK, Agrees
<1>7. ASSUME NEW g \in Host, g # h
      PROVE  UploadsOK(g)' /\ ListOK(g)'
  BY <1>1, <1>2, <1>7 DEF FieldInv, FieldTyped, UploadsOK, ListOK, Agrees
<1>8. QED
  BY <1>4, <1>5, <1>6, <1>7 DEF FieldInv

LEMMA ChooseFileField ==
  ASSUME FieldInv, NEW h \in Host, ChooseFile(h)
  PROVE  FieldInv' /\ used \subseteq used'
<1>1. PICK a \in bound.files[h] \ used :
        /\ uploads' = [uploads EXCEPT ![h] =
             @ \cup {[asset |-> a, images |-> images[h], mounted |-> TRUE]}]
        /\ used' = used \cup {a}
  BY DEF ChooseFile
<1> DEFINE w == [asset |-> a, images |-> images[h], mounted |-> TRUE]
<1>2. /\ UNCHANGED <<bound, images, meant, crossed>>
      /\ ~\E u \in uploads[h] : u.mounted
  BY DEF ChooseFile
<1>3. a \in Asset
  BY FieldAssumption DEF FieldInv, FieldTyped
<1>4. used \subseteq used' /\ Lists \subseteq Lists' /\ Upload \subseteq Upload'
  BY <1>1, ListsGrow
<1>5. /\ images[h] \in Lists /\ images[h] \in Lists'
      /\ w \in Upload' /\ w.asset = a /\ w.images = images[h] /\ w.mounted
  BY <1>1, <1>4 DEF FieldInv, FieldTyped, Upload
<1>6. a \notin ToSet(images[h])
  BY <1>5 DEF Lists, ToSet
<1> HIDE DEF w
<1>7. uploads'[h] = uploads[h] \cup {w} /\ \A g \in Host : g # h => uploads'[g] = uploads[g]
  BY <1>1 DEF FieldInv, FieldTyped, w
<1>8. FieldTyped'
  <2>1. uploads' \in [Host -> SUBSET Upload']
    BY <1>1, <1>4, <1>5, <1>7 DEF FieldInv, FieldTyped, w
  <2>2. images' \in [Host -> Lists']
    BY <1>2, <1>4 DEF FieldInv, FieldTyped
  <2>3. QED
    BY <1>1, <1>2, <1>3, <2>1, <2>2 DEF FieldInv, FieldTyped
<1>9. UploadsOK(h)'
  BY <1>2, <1>5, <1>6, <1>7 DEF FieldInv, UploadsOK
<1>10. ListOK(h)'
  BY <1>2, <1>5, <1>7 DEF FieldInv, ListOK, Agrees
<1>11. ASSUME NEW g \in Host, g # h
       PROVE  UploadsOK(g)' /\ ListOK(g)'
  BY <1>2, <1>7, <1>11 DEF FieldInv, UploadsOK, ListOK, Agrees
<1>12. QED
  BY <1>4, <1>8, <1>9, <1>10, <1>11 DEF FieldInv

\* The list an upload leaves: its own image behind those it began with.
LEMMA UploadedList ==
  ASSUME FieldInv, NEW h \in Host, NEW u \in uploads[h]
  PROVE  /\ Append(u.images, u.asset) \in Lists
         /\ ToSet(Append(u.images, u.asset)) = ToSet(u.images) \cup {u.asset}
<1>1. u \in Upload /\ u.asset \notin ToSet(u.images)
  BY DEF FieldInv, FieldTyped, UploadsOK
<1>2. u.images \in Seq(used) /\ IsInjective(u.images) /\ u.asset \in used
  BY <1>1 DEF Upload, Lists
<1>3. QED
  BY <1>1, <1>2, AppendedList DEF Lists

LEMMA UploadEndsField ==
  ASSUME FieldInv, NEW h \in Host, UploadEnds(h)
  PROVE  FieldInv'
<1>1. PICK u \in uploads[h] :
        /\ uploads' = [uploads EXCEPT ![h] = @ \ {u}]
        /\ \/ /\ images' = [images EXCEPT ![h] = Append(u.images, u.asset)]
              /\ meant' = [meant EXCEPT ![h] = @ \cup {u.asset}]
              /\ crossed' = [crossed EXCEPT ![h] =
                   @ \cup IF OutlivedBeside(h, u) THEN {u.asset} ELSE {}]
           \/ UNCHANGED <<images, meant, crossed>>
  BY DEF UploadEnds, SetImages, Cross
<1>2. UNCHANGED <<bound, used>>
  BY DEF UploadEnds
<1>3. /\ Append(u.images, u.asset) \in Lists
      /\ ToSet(Append(u.images, u.asset)) = ToSet(u.images) \cup {u.asset}
      /\ u.asset \in Asset
  <2>1. u.asset \in Asset
    BY DEF FieldInv, FieldTyped, Upload
  <2>2. QED
    BY <2>1, UploadedList
<1>4. uploads'[h] = uploads[h] \ {u} /\ \A g \in Host : g # h => uploads'[g] = uploads[g]
  BY <1>1 DEF FieldInv, FieldTyped
<1>5. FieldTyped'
  <2>1. uploads' \in [Host -> SUBSET Upload] /\ Lists' = Lists /\ Upload' = Upload
    BY <1>1, <1>2 DEF FieldInv, FieldTyped, Lists, Upload
  <2>2. images' \in [Host -> Lists]
    BY <1>1, <1>3 DEF FieldInv, FieldTyped
  <2>3. meant' \in [Host -> SUBSET Asset]
    BY <1>1, <1>3 DEF FieldInv, FieldTyped
  <2>4. crossed' \in [Host -> SUBSET Asset]
    BY <1>1, <1>3 DEF FieldInv, FieldTyped
  <2>5. QED
    BY <1>2, <2>1, <2>2, <2>3, <2>4 DEF FieldInv, FieldTyped
<1>6. UploadsOK(h)'
  BY <1>4 DEF FieldInv, UploadsOK
<1>7. ListOK(h)'
  <2>1. CASE UNCHANGED <<images, meant, crossed>>
    BY <1>4, <2>1 DEF FieldInv, ListOK, Agrees
  <2>2. CASE /\ images' = [images EXCEPT ![h] = Append(u.images, u.asset)]
             /\ meant' = [meant EXCEPT ![h] = @ \cup {u.asset}]
             /\ crossed' = [crossed EXCEPT ![h] =
                  @ \cup IF OutlivedBeside(h, u) THEN {u.asset} ELSE {}]
    <3>1. /\ images'[h] = Append(u.images, u.asset)
          /\ meant'[h] = meant[h] \cup {u.asset}
          /\ crossed'[h] = crossed[h] \cup IF OutlivedBeside(h, u) THEN {u.asset} ELSE {}
      BY <2>2 DEF FieldInv, FieldTyped
    <3>2. Agrees(h, images[h])'
      <4>1. Agrees(h, u.images)
        BY DEF FieldInv, ListOK
      <4>2. QED
        BY <1>3, <3>1, <4>1 DEF Agrees
    <3>3. ASSUME NEW v \in uploads'[h]
          PROVE  Agrees(h, v.images)'
      <4>1. v \in uploads[h] /\ v # u
        BY <1>4
      <4>2. OutlivedBeside(h, u)
        <5>1. uploads[h] # {u}
          BY <4>1
        <5>2. uploads[h] \subseteq Upload /\ ~(u.mounted /\ v.mounted)
          BY <4>1 DEF FieldInv, FieldTyped, UploadsOK
        <5>3. QED
          BY <4>1, <5>1, <5>2 DEF OutlivedBeside, Upload
      <4>3. Agrees(h, v.images)
        BY <4>1 DEF FieldInv, ListOK
      <4>4. QED
        BY <3>1, <4>2, <4>3 DEF Agrees
    <3>4. QED
      BY <3>2, <3>3 DEF ListOK
  <2>3. QED
    BY <1>1, <2>1, <2>2
<1>8. ASSUME NEW g \in Host, g # h
      PROVE  UploadsOK(g)' /\ ListOK(g)'
  BY <1>1, <1>2, <1>4, <1>8 DEF FieldInv, FieldTyped, UploadsOK, ListOK, Agrees
<1>9. QED
  BY <1>5, <1>6, <1>7, <1>8 DEF FieldInv

LEMMA RemoveImageField ==
  ASSUME FieldInv, NEW h \in Host, RemoveImage(h)
  PROVE  FieldInv'
<1>1. PICK a \in ToSet(images[h]) :
        /\ images' = [images EXCEPT ![h] = Without(images[h], a)]
        /\ meant' = [meant EXCEPT ![h] = @ \ {a}]
        /\ crossed' = [crossed EXCEPT ![h] = @ \cup IF uploads[h] = {} THEN {} ELSE {a}]
  BY DEF RemoveImage, SetImages, Cross
<1>2. UNCHANGED <<bound, uploads, used>>
  BY DEF RemoveImage
<1>3. images[h] \in Seq(used) /\ IsInjective(images[h])
  BY DEF FieldInv, FieldTyped, Lists
<1>4. /\ Without(images[h], a) \in Lists
      /\ ToSet(Without(images[h], a)) = ToSet(images[h]) \ {a}
  BY <1>3, WithoutOne DEF Lists
<1>5. FieldTyped'
  <2>1. a \in Asset
    BY <1>3 DEF FieldInv, FieldTyped, ToSet
  <2>2. QED
    BY <1>1, <1>2, <1>4, <2>1 DEF FieldInv, FieldTyped, Lists, Upload
<1>6. ListOK(h)'
  <2>1. /\ images'[h] = Without(images[h], a) /\ meant'[h] = meant[h] \ {a}
        /\ crossed'[h] = crossed[h] \cup IF uploads[h] = {} THEN {} ELSE {a}
    BY <1>1 DEF FieldInv, FieldTyped
  <2>2. QED
    BY <1>2, <1>4, <2>1 DEF FieldInv, ListOK, Agrees
<1>7. ASSUME NEW g \in Host, g # h
      PROVE  ListOK(g)'
  BY <1>1, <1>2, <1>7 DEF FieldInv, FieldTyped, ListOK, Agrees
<1>8. \A g \in Host : UploadsOK(g)'
  BY <1>2 DEF FieldInv, UploadsOK
<1>9. QED
  BY <1>5, <1>6, <1>7, <1>8 DEF FieldInv

-----------------------------------------------------------------------------
(* The rows, step by step.                                                 *)

HistoryGrows ==
  \A r \in Row :
    /\ Len(history[r]) \in Nat /\ Len(history'[r]) \in Nat
    /\ Len(history[r]) <= Len(history'[r])

LEMMA SameHistoryGrows ==
  ASSUME RowInv, UNCHANGED history
  PROVE  HistoryGrows
BY DEF HistoryGrows, RowInv, HistoryOK

\* What a step leaves alone keeps what is said of it.
LEMMA RowPartsStay ==
  ASSUME RowInv, used \subseteq used', HistoryGrows
  PROVE  /\ UNCHANGED history => HistoryOK'
         /\ UNCHANGED <<shown, read>> => ShownOK'
         /\ UNCHANGED <<seed, saving>> => EditorOK'
         /\ UNCHANGED panel => PanelOK'
         /\ UNCHANGED gets => GetsOK'
<1>1. \A r \in Row : \A n : Exists(r, n) => Exists(r, n)'
  BY DEF HistoryGrows, Exists
<1>2. Revised \subseteq Revised' /\ Save \subseteq Save'
  BY ListsGrow
<1>3. ASSUME UNCHANGED history
      PROVE  HistoryOK'
  BY <1>2, <1>3 DEF RowInv, HistoryOK
<1>4. ASSUME UNCHANGED <<shown, read>>
      PROVE  ShownOK'
  BY <1>1, <1>4 DEF RowInv, ShownOK
<1>5. ASSUME UNCHANGED <<seed, saving>>
      PROVE  EditorOK'
  BY <1>1, <1>2, <1>5 DEF RowInv, EditorOK
<1>6. ASSUME UNCHANGED panel
      PROVE  PanelOK'
  BY <1>6 DEF RowInv, PanelOK
<1>7. ASSUME UNCHANGED gets
      PROVE  GetsOK'
  BY <1>1, <1>7 DEF RowInv, GetsOK
<1>8. QED
  BY <1>3, <1>4, <1>5, <1>6, <1>7

LEMMA RowsStay ==
  ASSUME RowInv, used \subseteq used', UNCHANGED <<rowVars, read>>
  PROVE  RowInv'
BY SameHistoryGrows, RowPartsStay DEF RowInv, rowVars, editorVars, panelVars

LEMMA StartEditingRows ==
  ASSUME RowInv, NEW r \in Row, StartEditing(r), UNCHANGED read
  PROVE  RowInv'
<1>1. /\ seed' = [seed EXCEPT ![r] = shown[r]]
      /\ UNCHANGED <<used, history, shown, saving, panel, gets>>
  BY DEF StartEditing, panelVars
<1>2. EditorOK'
  BY <1>1 DEF RowInv, EditorOK, ShownOK, Save, Lists, Exists
<1>3. QED
  BY <1>1, <1>2, SameHistoryGrows, RowPartsStay DEF RowInv

LEMMA StopEditingRows ==
  ASSUME RowInv, NEW r \in Row, StopEditing(r), UNCHANGED read
  PROVE  RowInv'
<1>1. UNCHANGED <<used, history, shown, seed, saving, panel, gets>>
  BY DEF StopEditing, panelVars
<1>2. QED
  BY <1>1, SameHistoryGrows, RowPartsStay DEF RowInv

LEMMA SubmitRows ==
  ASSUME FieldInv, RowInv, NEW r \in Row, Submit(r), UNCHANGED read
  PROVE  RowInv'
<1> DEFINE call == [state |-> "sent", revision |-> shown[r], images |-> images[r], seed |-> seed[r]]
<1>1. /\ saving' = [saving EXCEPT ![r] = call]
      /\ UNCHANGED <<used, history, shown, seed, panel, gets>>
  BY DEF Submit, panelVars, fieldVars
<1>2. call \in Save /\ Exists(r, call.revision)
  BY CharacterRowAssumption DEF Save, FieldInv, FieldTyped, RowInv, ShownOK, EditorOK
<1> HIDE DEF call
<1>3. EditorOK'
  BY <1>1, <1>2 DEF RowInv, EditorOK, Save, Lists, Exists
<1>4. QED
  BY <1>1, <1>3, SameHistoryGrows, RowPartsStay DEF RowInv

\* A version is added behind the last one, and names it.
LEMMA VersionAppended ==
  ASSUME RowInv, NEW r \in Row, NEW v \in Revised, v.revision = Len(history[r]),
         UNCHANGED used, history' = [history EXCEPT ![r] = Append(@, v)]
  PROVE  HistoryOK' /\ HistoryGrows
<1>1. history[r] \in Seq(Revised) /\ Len(history[r]) \in Nat /\ Len(history[r]) >= 1
  BY DEF RowInv, HistoryOK
<1>2. /\ history'[r] \in Seq(Revised)
      /\ Len(history'[r]) = Len(history[r]) + 1
      /\ history'[r][Len(history[r]) + 1] = v
      /\ \A n \in 1..Len(history[r]) : history'[r][n] = history[r][n]
  BY <1>1 DEF RowInv, HistoryOK
<1>3. \A q \in Row : q # r => history'[q] = history[q]
  BY DEF RowInv, HistoryOK
<1>4. history' \in [Row -> Seq(Revised)] /\ Revised' = Revised
  BY <1>2 DEF RowInv, HistoryOK, Revised, Lists
<1>5. \A n \in 2..Len(history'[r]) : history'[r][n].revision = n - 1
  <2> SUFFICES ASSUME NEW n \in 2..Len(history'[r])
               PROVE  history'[r][n].revision = n - 1
    OBVIOUS
  <2>1. n \in 2..Len(history[r]) \/ n = Len(history[r]) + 1
    BY <1>1, <1>2
  <2>2. CASE n \in 2..Len(history[r])
    BY <1>1, <1>2, <2>2 DEF RowInv, HistoryOK
  <2>3. CASE n = Len(history[r]) + 1
    BY <1>1, <1>2, <2>3
  <2>4. QED
    BY <2>1, <2>2, <2>3
<1>6. HistoryOK'
  <2>1. ASSUME NEW q \in Row
        PROVE  /\ Len(history'[q]) >= 1
               /\ \A n \in 2..Len(history'[q]) : history'[q][n].revision = n - 1
    <3>1. CASE q = r
      BY <1>1, <1>2, <1>5, <3>1
    <3>2. CASE q # r
      BY <1>3, <3>2 DEF RowInv, HistoryOK
    <3>3. QED
      BY <3>1, <3>2
  <2>2. QED
    BY <1>4, <2>1 DEF HistoryOK
<1>7. HistoryGrows
  BY <1>1, <1>2, <1>3 DEF HistoryGrows, RowInv, HistoryOK
<1>8. QED
  BY <1>6, <1>7

LEMMA ServeRows ==
  ASSUME RowInv, NEW r \in Row, Serve(r), UNCHANGED read
  PROVE  RowInv'
<1>1. /\ UNCHANGED <<used, shown, seed, panel, gets>>
      /\ saving[r] # None
      /\ \/ /\ saving[r].revision = Len(history[r])
            /\ history' = [history EXCEPT ![r] = Append(@, SavedVersion(saving[r]))]
         \/ UNCHANGED history
  BY DEF Serve, panelVars, fieldVars
<1>2. PICK s \in {"written", "lost", "conflict", "failed"} :
        saving' = [saving EXCEPT ![r].state = s]
  BY DEF Serve
<1>3. saving[r] \in Save
  BY <1>1 DEF RowInv, EditorOK
<1>4. HistoryOK' /\ HistoryGrows
  <2>1. CASE UNCHANGED history
    BY <1>1, <2>1, SameHistoryGrows, RowPartsStay
  <2>2. CASE /\ saving[r].revision = Len(history[r])
             /\ history' = [history EXCEPT ![r] = Append(@, SavedVersion(saving[r]))]
    <3>1. /\ SavedVersion(saving[r]) \in Revised
          /\ SavedVersion(saving[r]).revision = saving[r].revision
      BY <1>3 DEF SavedVersion, Version, Revised, Save
    <3>2. QED
      BY <1>1, <2>2, <3>1, VersionAppended
  <2>3. QED
    BY <1>1, <2>1, <2>2
<1>5. EditorOK'
  <2>1. [saving[r] EXCEPT !.state = s] \in Save /\ [saving[r] EXCEPT !.state = s].revision = saving[r].revision
    BY <1>3 DEF Save
  <2>2. saving' = [saving EXCEPT ![r] = [saving[r] EXCEPT !.state = s]]
    BY <1>2
  <2>3. \A q \in Row : \A n : Exists(q, n) => Exists(q, n)'
    BY <1>4 DEF HistoryGrows, Exists
  <2>4. Save' = Save
    BY <1>1 DEF Save, Lists
  <2>5. saving' \in [Row -> Save \cup {None}]
    BY <2>1, <2>2 DEF RowInv, EditorOK
  <2>6. \A q \in Row : saving'[q] # None => Exists(q, saving'[q].revision)
    BY <1>1, <2>1, <2>2 DEF RowInv, EditorOK
  <2>7. QED
    BY <1>1, <2>3, <2>4, <2>5, <2>6 DEF RowInv, EditorOK
<1>6. QED
  BY <1>1, <1>4, <1>5, RowPartsStay DEF RowInv

LEMMA SaveEndsRows ==
  ASSUME RowInv, NEW r \in Row, Saved(r) \/ SaveRefused(r), UNCHANGED read
  PROVE  RowInv'
<1>1. /\ saving' = [saving EXCEPT ![r] = None]
      /\ UNCHANGED <<used, history, shown, seed, panel, gets>>
  BY DEF Saved, SaveRefused, panelVars, fieldVars
<1>2. EditorOK'
  BY <1>1 DEF RowInv, EditorOK, Save, Lists, Exists
<1>3. QED
  BY <1>1, <1>2, SameHistoryGrows, RowPartsStay DEF RowInv

LEMMA OthersAppendRows ==
  ASSUME RowInv, NEW r \in Row, OthersAppend(r), UNCHANGED read
  PROVE  RowInv'
<1> DEFINE now == Len(history[r])
<1>1. /\ UNCHANGED <<used, shown, seed, saving, panel, gets>>
      /\ \E im \in {StoredImages(r, now), <<>>} :
           history' = [history EXCEPT ![r] = Append(@, Version(im, now, now))]
  BY DEF OthersAppend, panelVars, editorVars, fieldVars
<1>2. PICK im \in {StoredImages(r, now), <<>>} :
        history' = [history EXCEPT ![r] = Append(@, Version(im, now, now))]
  BY <1>1
<1>3. now \in Nat /\ im \in Lists
  <2>1. history[r] \in Seq(Revised) /\ now \in 1..Len(history[r])
    BY DEF RowInv, HistoryOK
  <2>2. history[r][now] \in Revised
    BY <2>1
  <2>3. QED
    BY <2>1, <2>2, EmptyList DEF StoredImages, Revised
<1>4. Version(im, now, now) \in Revised /\ Version(im, now, now).revision = now
  BY <1>3 DEF Version, Revised
<1>5. HistoryOK' /\ HistoryGrows
  BY <1>1, <1>2, <1>4, VersionAppended
<1>6. QED
  BY <1>1, <1>5, RowPartsStay DEF RowInv

-----------------------------------------------------------------------------
(* The history panel of a row.                                             *)

LEMMA Joined ==
  ASSUME NEW S, NEW s \in Seq(S), NEW t \in Seq(S)
  PROVE  /\ s \o t \in Seq(S)
         /\ Len(s \o t) = Len(s) + Len(t)
         /\ \A i \in 1..(Len(s) + Len(t)) :
              (s \o t)[i] = IF i <= Len(s) THEN s[i] ELSE t[i - Len(s)]
OBVIOUS

LEMMA RemovedAt ==
  ASSUME NEW S, NEW s \in Seq(S), NEW i \in DOMAIN s
  PROVE  /\ RemoveAt(s, i) \in Seq(S)
         /\ \A j \in DOMAIN RemoveAt(s, i) : \E k \in DOMAIN s : RemoveAt(s, i)[j] = s[k]
<1> DEFINE left == SubSeq(s, 1, i - 1)
           right == SubSeq(s, i + 1, Len(s))
<1>1. /\ Len(s) \in Nat /\ DOMAIN s = 1..Len(s) /\ i \in 1..Len(s)
  OBVIOUS
<1>2. /\ left \in Seq(S) /\ Len(left) = i - 1
      /\ \A j \in 1..(i - 1) : left[j] = s[j]
  BY <1>1
<1>3. /\ right \in Seq(S) /\ Len(right) = Len(s) - i
      /\ \A j \in 1..(Len(s) - i) : right[j] = s[i + j]
  BY <1>1
<1> HIDE DEF left, right
<1> DEFINE t == left \o right
<1>4. /\ t \in Seq(S) /\ DOMAIN t = 1..(Len(left) + Len(right))
      /\ \A j \in 1..Len(left) : t[j] = left[j]
      /\ \A j \in 1..Len(right) : t[Len(left) + j] = right[j]
  <2>1. /\ t \in Seq(S) /\ Len(t) = Len(left) + Len(right)
        /\ \A j \in 1..(Len(left) + Len(right)) :
             t[j] = IF j <= Len(left) THEN left[j] ELSE right[j - Len(left)]
    BY <1>2, <1>3, Joined
  <2> HIDE DEF t
  <2>2. Len(left) \in Nat /\ Len(right) \in Nat
    BY <1>2, <1>3
  <2>3. \A j \in 1..Len(left) : t[j] = left[j]
    BY <2>1, <2>2
  <2>4. ASSUME NEW j \in 1..Len(right)
        PROVE  t[Len(left) + j] = right[j]
    <3>1. /\ Len(left) + j \in 1..(Len(left) + Len(right))
          /\ ~(Len(left) + j <= Len(left)) /\ (Len(left) + j) - Len(left) = j
      BY <2>2
    <3>2. QED
      BY <2>1, <3>1
  <2>5. DOMAIN t = 1..(Len(left) + Len(right))
    BY <2>1
  <2>6. QED
    BY <2>1, <2>3, <2>4, <2>5
<1> HIDE DEF t
<1>5. ASSUME NEW j \in DOMAIN t
      PROVE  \E k \in DOMAIN s : t[j] = s[k]
  <2>1. CASE j \in 1..(i - 1)
    BY <1>1, <1>2, <1>4, <2>1
  <2>2. CASE j \notin 1..(i - 1)
    <3> DEFINE m == j - (i - 1)
    <3>1. m \in 1..(Len(s) - i) /\ j = Len(left) + m /\ i + m \in 1..Len(s)
      BY <1>1, <1>2, <1>3, <1>4, <2>2
    <3> HIDE DEF m
    <3>2. t[j] = right[m] /\ right[m] = s[i + m]
      BY <1>3, <1>4, <3>1
    <3>3. QED
      BY <1>1, <3>1, <3>2
  <2>3. QED
    BY <2>1, <2>2
<1>6. RemoveAt(s, i) = t
  BY DEF RemoveAt, t, left, right
<1>7. QED
  BY <1>4, <1>5, <1>6

LEMMA CloseHistoryRows ==
  ASSUME RowInv, NEW r \in Row, CloseHistory(r), UNCHANGED <<used, read>>
  PROVE  RowInv'
<1>1. /\ panel' = [panel EXCEPT ![r] = Closed]
      /\ UNCHANGED <<history, shown, seed, saving, gets>>
  BY DEF CloseHistory, ShowPanel, editorVars
<1>2. Closed \in Panel /\ Closed.state # "read"
  BY DEF Closed, Panel
<1>3. PanelOK'
  BY <1>1, <1>2 DEF RowInv, PanelOK
<1>4. QED
  BY <1>1, <1>3, SameHistoryGrows, RowPartsStay DEF RowInv

LEMMA OpenHistoryRows ==
  ASSUME RowInv, NEW r \in Row, OpenHistory(r), UNCHANGED <<used, read>>
  PROVE  RowInv'
<1> DEFINE p == [Closed EXCEPT !.state = "loading"]
           g == [over |-> shown[r], versions |-> 0]
<1>1. /\ panel' = [panel EXCEPT ![r] = p]
      /\ gets' = [gets EXCEPT ![r] = Append(@, g)]
      /\ UNCHANGED <<history, shown, seed, saving>>
  BY DEF OpenHistory, ShowPanel, editorVars
<1>2. p \in Panel /\ p.state # "read"
  BY DEF Closed, Panel
<1>3. g \in Get /\ g.versions = 0 /\ Exists(r, g.over)
  BY DEF Get, RowInv, ShownOK
<1> HIDE DEF p, g
<1>4. PanelOK'
  BY <1>1, <1>2 DEF RowInv, PanelOK
<1>5. GetsOK'
  <2>1. gets[r] \in Seq(Get)
    BY DEF RowInv, GetsOK
  <2>2. /\ gets'[r] \in Seq(Get)
        /\ \A i \in DOMAIN gets'[r] : gets'[r][i] = g \/ (i \in DOMAIN gets[r] /\ gets'[r][i] = gets[r][i])
    BY <1>1, <1>3, <2>1 DEF RowInv, GetsOK
  <2>3. \A q \in Row : q # r => gets'[q] = gets[q]
    BY <1>1 DEF RowInv, GetsOK
  <2>4. \A q \in Row : \A n : Exists(q, n)' = Exists(q, n)
    BY <1>1 DEF Exists
  <2>5. gets' \in [Row -> Seq(Get)]
    BY <1>1, <2>2 DEF RowInv, GetsOK
  <2>6. ASSUME NEW q \in Row, NEW i \in DOMAIN gets'[q]
        PROVE  /\ Exists(q, gets'[q][i].over)
               /\ gets'[q][i].versions = 0 \/ gets'[q][i].over <= gets'[q][i].versions
    BY <1>3, <2>2, <2>3, <2>6 DEF RowInv, GetsOK
  <2>7. QED
    BY <2>4, <2>5, <2>6 DEF GetsOK
<1>6. QED
  BY <1>1, <1>4, <1>5, SameHistoryGrows, RowPartsStay DEF RowInv

\* The api reads every version there is, the one the panel is over included.
LEMMA ServeHistoryRows ==
  ASSUME RowInv, NEW r \in Row, ServeHistory(r), UNCHANGED <<used, read>>
  PROVE  RowInv'
<1>1. PICK i \in DOMAIN gets[r] : gets' = [gets EXCEPT ![r][i].versions = Len(history[r])]
  BY DEF ServeHistory
<1>2. UNCHANGED <<history, shown, seed, saving, panel>>
  BY DEF ServeHistory, editorVars
<1> DEFINE g == [gets[r][i] EXCEPT !.versions = Len(history[r])]
<1>3. gets[r] \in Seq(Get) /\ i \in 1..Len(gets[r]) /\ gets[r][i] \in Get
  BY DEF RowInv, GetsOK
<1>4. Len(history[r]) \in Nat /\ gets[r][i].over \in 1..Len(history[r])
  BY DEF RowInv, GetsOK, HistoryOK, Exists
<1>5. g \in Get /\ g.over = gets[r][i].over /\ g.versions = Len(history[r])
  BY <1>3, <1>4 DEF Get
<1>6. gets' = [gets EXCEPT ![r] = [gets[r] EXCEPT ![i] = g]]
  BY <1>1
<1> HIDE DEF g
<1>7. /\ gets'[r] = [gets[r] EXCEPT ![i] = g]
      /\ \A q \in Row : q # r => gets'[q] = gets[q]
  BY <1>6 DEF RowInv, GetsOK
<1>8. /\ gets'[r] \in Seq(Get)
      /\ DOMAIN gets'[r] = DOMAIN gets[r]
      /\ \A j \in DOMAIN gets[r] : gets'[r][j] = IF j = i THEN g ELSE gets[r][j]
  BY <1>3, <1>5, <1>7
<1>9. GetsOK'
  <2>1. gets' \in [Row -> Seq(Get)]
    BY <1>6, <1>7, <1>8 DEF RowInv, GetsOK
  <2>2. \A q \in Row : \A n : Exists(q, n)' = Exists(q, n)
    BY <1>2 DEF Exists
  <2>3. ASSUME NEW q \in Row, NEW j \in DOMAIN gets'[q]
        PROVE  /\ Exists(q, gets'[q][j].over)
               /\ gets'[q][j].versions = 0 \/ gets'[q][j].over <= gets'[q][j].versions
    <3>1. CASE q = r /\ j = i
      BY <1>4, <1>5, <1>8, <3>1 DEF Exists
    <3>2. CASE ~(q = r /\ j = i)
      <4>1. gets'[q][j] = gets[q][j] /\ j \in DOMAIN gets[q]
        BY <1>7, <1>8, <2>3, <3>2
      <4>2. QED
        BY <4>1 DEF RowInv, GetsOK
    <3>3. QED
      BY <3>1, <3>2
  <2>4. QED
    BY <2>1, <2>2, <2>3 DEF GetsOK
<1>10. QED
  BY <1>2, <1>9, SameHistoryGrows, RowPartsStay DEF RowInv

\* What is shown behind a version is every version before it.
LEMMA HistoryAnswersRows ==
  ASSUME RowInv, NEW r \in Row, HistoryAnswers(r), UNCHANGED <<used, read>>
  PROVE  RowInv'
<1>1. PICK i \in DOMAIN gets[r] :
        /\ gets' = [gets EXCEPT ![r] = RemoveAt(@, i)]
        /\ \/ /\ gets[r][i].versions # 0
              /\ panel' = [panel EXCEPT ![r] =
                   [state |-> "read", over |-> gets[r][i].over,
                    earlier |-> (1..gets[r][i].versions) \ {gets[r][i].over}]]
           \/ panel' = [panel EXCEPT ![r] = [Closed EXCEPT !.state = "failed"]]
           \/ UNCHANGED panel
  BY DEF HistoryAnswers, ShowPanel
<1>2. UNCHANGED <<history, shown, seed, saving>>
  BY DEF HistoryAnswers, editorVars
<1>3. gets[r] \in Seq(Get) /\ gets[r][i] \in Get
  BY DEF RowInv, GetsOK
<1>4. PanelOK'
  <2>1. CASE /\ gets[r][i].versions # 0
             /\ panel' = [panel EXCEPT ![r] =
                  [state |-> "read", over |-> gets[r][i].over,
                   earlier |-> (1..gets[r][i].versions) \ {gets[r][i].over}]]
    <3> DEFINE over == gets[r][i].over
               versions == gets[r][i].versions
               p == [state |-> "read", over |-> over, earlier |-> (1..versions) \ {over}]
    <3>1. over \in Nat /\ over >= 1 /\ versions \in Nat /\ over <= versions
      <4>1. over \in 1..Len(history[r]) /\ (versions = 0 \/ over <= versions)
        BY DEF RowInv, GetsOK, Exists
      <4>2. over \in Nat /\ versions \in Nat /\ versions # 0
        BY <1>3, <2>1 DEF Get
      <4>3. Len(history[r]) \in Nat
        BY DEF RowInv, HistoryOK
      <4> HIDE DEF over, versions
      <4>4. QED
        BY <4>1, <4>2, <4>3
    <3> HIDE DEF over, versions
    <3>2. Behind(over, (1..versions) \ {over})
      BY <3>1 DEF Behind
    <3>3. p \in Panel /\ p.over = over /\ p.earlier = (1..versions) \ {over}
      BY <3>1 DEF Panel
    <3>4. panel' = [panel EXCEPT ![r] = p]
      BY <2>1 DEF over, versions
    <3> HIDE DEF p
    <3>5. QED
      BY <3>2, <3>3, <3>4 DEF RowInv, PanelOK
  <2>2. CASE panel' = [panel EXCEPT ![r] = [Closed EXCEPT !.state = "failed"]]
    <3>1. [Closed EXCEPT !.state = "failed"] \in Panel /\ [Closed EXCEPT !.state = "failed"].state # "read"
      BY DEF Closed, Panel
    <3>2. QED
      BY <2>2, <3>1 DEF RowInv, PanelOK
  <2>3. CASE UNCHANGED panel
    BY <2>3 DEF RowInv, PanelOK
  <2>4. QED
    BY <1>1, <2>1, <2>2, <2>3
<1>5. GetsOK'
  <2>1. /\ RemoveAt(gets[r], i) \in Seq(Get)
        /\ \A j \in DOMAIN RemoveAt(gets[r], i) :
             \E k \in DOMAIN gets[r] : RemoveAt(gets[r], i)[j] = gets[r][k]
    BY <1>3, RemovedAt
  <2>2. /\ gets'[r] = RemoveAt(gets[r], i)
        /\ \A q \in Row : q # r => gets'[q] = gets[q]
    BY <1>1 DEF RowInv, GetsOK
  <2>3. gets' \in [Row -> Seq(Get)]
    BY <1>1, <2>1 DEF RowInv, GetsOK
  <2>4. \A q \in Row : \A n : Exists(q, n)' = Exists(q, n)
    BY <1>2 DEF Exists
  <2>5. ASSUME NEW q \in Row, NEW j \in DOMAIN gets'[q]
        PROVE  \E k \in DOMAIN gets[q] : gets'[q][j] = gets[q][k]
    BY <2>1, <2>2, <2>5
  <2>6. QED
    BY <2>3, <2>4, <2>5 DEF RowInv, GetsOK
<1>6. QED
  BY <1>2, <1>4, <1>5, SameHistoryGrows, RowPartsStay DEF RowInv

-----------------------------------------------------------------------------
(* The create form, step by step.                                          *)

FormOK(f) == SentOK(f) /\ OpenOK(f) /\ PendingOK(f) /\ CreatedOK(f)

SameField(f) ==
  /\ images'[f] = images[f]
  /\ uploads'[f] = uploads[f]
  /\ crossed'[f] = crossed[f]

LEMMA OtherFieldReseeded ==
  ASSUME FieldInv, NEW h \in Host, NEW list, Reseed(h, list),
         UNCHANGED uploads \/ Unmount(h), NEW g \in Host, g # h
  PROVE  SameField(g)
BY DEF FieldInv, FieldTyped, Reseed, Cross, SetImages, Unmount, SameField

LEMMA OtherFieldMoves ==
  ASSUME FieldInv, NEW h \in Host, ChooseFile(h) \/ UploadEnds(h) \/ RemoveImage(h),
         NEW g \in Host, g # h
  PROVE  SameField(g)
<1>1. CASE ChooseFile(h)
  BY <1>1 DEF FieldInv, FieldTyped, ChooseFile, SameField
<1>2. CASE UploadEnds(h)
  BY <1>2 DEF FieldInv, FieldTyped, UploadEnds, Cross, SetImages, SameField
<1>3. CASE RemoveImage(h)
  BY <1>3 DEF FieldInv, FieldTyped, RemoveImage, Cross, SetImages, SameField
<1>4. QED
  BY <1>1, <1>2, <1>3

LEMMA FormStays ==
  ASSUME FormInv, NEW f \in Form, SameField(f),
         created'[f] = created[f], creating'[f] = creating[f]
  PROVE  FormOK(f)'
BY DEF FormInv, FormOK, SentOK, OpenOK, PendingOK, CreatedOK, Open, Past, Inherits, Spent,
       Unseen, SameField

LEMMA FormTypesStay ==
  ASSUME FormInv, used \subseteq used', UNCHANGED formVars
  PROVE  FormTyped'
BY ListsGrow DEF FormInv, FormTyped, formVars

\* A step of a row leaves the forms alone.
LEMMA RowStepForms ==
  ASSUME FormInv, used \subseteq used', UNCHANGED formVars, \A f \in Form : SameField(f)
  PROVE  FormInv'
BY FormTypesStay, FormStays DEF FormInv, FormOK, formVars

\* A step of one form: it is enough to look at the types and at that form.
LEMMA OneForm ==
  ASSUME FormInv, NEW f \in Form, FormTyped', FormOK(f)',
         \A g \in Form : g # f =>
           /\ SameField(g)
           /\ created'[g] = created[g] /\ creating'[g] = creating[g]
  PROVE  FormInv'
<1>1. ASSUME NEW g \in Form, g # f
      PROVE  FormOK(g)'
  BY <1>1, FormStays
<1>2. QED
  BY <1>1 DEF FormInv, FormOK

\* What a character pins has been created, so a new asset is in none.
LEMMA SpentIsUsed ==
  ASSUME FieldInv, FormInv, NEW f \in Form
  PROVE  Spent(f) \subseteq used
<1>1. ASSUME NEW i \in DOMAIN created[f]
      PROVE  ToSet(created[f][i].images) \subseteq used
  <2>1. created[f] \in Seq(Character) /\ created[f][i] \in Character
    BY DEF FormInv, FormTyped
  <2>2. created[f][i].images \in Seq(used)
    BY <2>1 DEF Character, Lists
  <2>3. QED
    BY <2>2 DEF ToSet
<1>2. QED
  BY <1>1 DEF Spent

\* An image field moves by itself: what a form inherits and what is pending in it.
LEMMA ChooseFileForm ==
  ASSUME FieldInv, FormInv, NEW f \in Form, ChooseFile(f), UNCHANGED formVars
  PROVE  OpenOK(f)' /\ PendingOK(f)'
<1>1. PICK a \in bound.files[f] \ used :
        uploads' = [uploads EXCEPT ![f] =
          @ \cup {[asset |-> a, images |-> images[f], mounted |-> TRUE]}]
  BY DEF ChooseFile
<1>2. f \in Host /\ UNCHANGED <<images, crossed, created, creating>>
  BY CreateFormAssumption DEF ChooseFile, formVars
<1>3. \A u \in uploads'[f] : u \in uploads[f] \/ (u.asset = a /\ u.images = images[f])
  BY <1>1, <1>2 DEF FieldInv, FieldTyped
<1>4. OpenOK(f)'
  BY <1>2, <1>3 DEF FormInv, OpenOK, Open, Inherits, Past
<1>5. Unseen(f, a)
  <2>1. images[f] \in Seq(used)
    BY <1>2 DEF FieldInv, FieldTyped, Lists
  <2>2. ToSet(images[f]) \subseteq used
    BY <2>1 DEF ToSet
  <2>3. ASSUME creating[f] # None
        PROVE  ToSet(creating[f].images) \subseteq used
    BY <2>3 DEF FormInv, FormTyped, Creation, Lists, ToSet
  <2>4. QED
    BY <2>2, <2>3, SpentIsUsed DEF Unseen
<1>6. \A u \in uploads[f] : u.asset # a /\ a \notin ToSet(u.images)
  <2>1. \A u \in uploads[f] : u.asset \in used /\ u.images \in Seq(used)
    BY <1>2 DEF FieldInv, FieldTyped, Upload, Lists
  <2>2. QED
    BY <2>1 DEF ToSet
<1>7. PendingOK(f)'
  <2> SUFFICES ASSUME NEW u \in uploads'[f]
               PROVE  /\ Unseen(f, u.asset)
                      /\ \A v \in uploads'[f] :
                           u.asset \notin ToSet(v.images) /\ (v.asset = u.asset => v = u)
    BY <1>2 DEF PendingOK, Unseen, Spent
  <2>1. Unseen(f, u.asset)
    BY <1>3, <1>5 DEF FormInv, PendingOK
  <2>2. ASSUME NEW v \in uploads'[f]
        PROVE  u.asset \notin ToSet(v.images)
    BY <1>3, <1>5, <1>6, <2>1, <2>2 DEF FormInv, PendingOK, Unseen
  <2>3. ASSUME NEW v \in uploads'[f], v.asset = u.asset
        PROVE  v = u
    <3> DEFINE w == [asset |-> a, images |-> images[f], mounted |-> TRUE]
    <3>1. \A x \in uploads'[f] : x \in uploads[f] \/ x = w
      BY <1>1, <1>2 DEF FieldInv, FieldTyped
    <3>2. w.asset = a
      OBVIOUS
    <3> HIDE DEF w
    <3>3. CASE u \in uploads[f] /\ v \in uploads[f]
      BY <2>3, <3>3 DEF FormInv, PendingOK
    <3>4. QED
      BY <1>6, <2>3, <3>1, <3>2, <3>3
  <2>4. QED
    BY <2>1, <2>2, <2>3
<1>8. QED
  BY <1>4, <1>7

LEMMA UploadEndsForm ==
  ASSUME FieldInv, FormInv, NEW f \in Form, UploadEnds(f), UNCHANGED formVars
  PROVE  OpenOK(f)' /\ PendingOK(f)'
<1>1. f \in Host /\ UNCHANGED <<created, creating>>
  BY CreateFormAssumption DEF formVars
<1>2. PICK u \in uploads[f] :
        /\ uploads' = [uploads EXCEPT ![f] = @ \ {u}]
        /\ \/ images' = [images EXCEPT ![f] = Append(u.images, u.asset)]
           \/ UNCHANGED images
  BY DEF UploadEnds, SetImages
<1>3. crossed[f] \subseteq crossed'[f]
  BY <1>1 DEF UploadEnds, Cross, FieldInv, FieldTyped
<1>4. uploads'[f] = uploads[f] \ {u}
  BY <1>1, <1>2 DEF FieldInv, FieldTyped
<1>5. \/ ToSet(images'[f]) = ToSet(u.images) \cup {u.asset}
      \/ images'[f] = images[f]
  <2>1. ToSet(Append(u.images, u.asset)) = ToSet(u.images) \cup {u.asset}
    BY <1>1, UploadedList
  <2>2. QED
    BY <1>1, <1>2, <2>1 DEF FieldInv, FieldTyped
<1>6. u.asset \notin Spent(f)
  BY DEF FormInv, PendingOK, Unseen
<1>7. OpenOK(f)'
  <2> SUFFICES ASSUME Open(f), NEW i \in DOMAIN created[f], Past(f, i)
               PROVE  /\ ToSet(created[f][i].images) \cap ToSet(images'[f]) \subseteq crossed'[f]
                      /\ \A v \in uploads'[f] :
                           ToSet(created[f][i].images) \cap ToSet(v.images) \subseteq crossed'[f]
    BY <1>1 DEF OpenOK, Open, Inherits, Past
  <2>1. /\ ToSet(created[f][i].images) \cap ToSet(images[f]) \subseteq crossed[f]
        /\ \A v \in uploads[f] :
             ToSet(created[f][i].images) \cap ToSet(v.images) \subseteq crossed[f]
    BY DEF FormInv, OpenOK, Inherits
  <2>2. u.asset \notin ToSet(created[f][i].images)
    BY <1>6 DEF Spent
  <2>3. QED
    BY <1>3, <1>4, <1>5, <2>1, <2>2
<1>8. PendingOK(f)'
  <2> SUFFICES ASSUME NEW v \in uploads'[f]
               PROVE  v.asset \notin ToSet(images'[f])
    BY <1>1, <1>4 DEF FormInv, PendingOK, Unseen, Spent
  <2>1. v \in uploads[f] /\ v # u
    BY <1>4
  <2>2. v.asset # u.asset /\ v.asset \notin ToSet(u.images) /\ v.asset \notin ToSet(images[f])
    BY <2>1 DEF FormInv, PendingOK, Unseen
  <2>3. QED
    BY <1>5, <2>2
<1>9. QED
  BY <1>7, <1>8

LEMMA RemoveImageForm ==
  ASSUME FieldInv, FormInv, NEW f \in Form, RemoveImage(f), UNCHANGED formVars
  PROVE  OpenOK(f)' /\ PendingOK(f)'
<1>1. f \in Host /\ UNCHANGED <<created, creating, uploads>>
  BY CreateFormAssumption DEF RemoveImage, formVars
<1>2. crossed[f] \subseteq crossed'[f]
  BY <1>1 DEF RemoveImage, Cross, FieldInv, FieldTyped
<1>3. ToSet(images'[f]) \subseteq ToSet(images[f])
  <2>1. PICK a \in ToSet(images[f]) : images' = [images EXCEPT ![f] = Without(images[f], a)]
    BY DEF RemoveImage, SetImages
  <2>2. images[f] \in Seq(used) /\ IsInjective(images[f])
    BY <1>1 DEF FieldInv, FieldTyped, Lists
  <2>3. ToSet(Without(images[f], a)) = ToSet(images[f]) \ {a}
    BY <2>2, WithoutOne
  <2>4. images'[f] = Without(images[f], a)
    BY <1>1, <2>1 DEF FieldInv, FieldTyped
  <2>5. QED
    BY <2>3, <2>4
<1>4. OpenOK(f)'
  <2> SUFFICES ASSUME Open(f), NEW i \in DOMAIN created[f], Past(f, i)
               PROVE  /\ ToSet(created[f][i].images) \cap ToSet(images'[f]) \subseteq crossed'[f]
                      /\ \A v \in uploads[f] :
                           ToSet(created[f][i].images) \cap ToSet(v.images) \subseteq crossed'[f]
    BY <1>1 DEF OpenOK, Open, Inherits, Past
  <2>1. /\ ToSet(created[f][i].images) \cap ToSet(images[f]) \subseteq crossed[f]
        /\ \A v \in uploads[f] :
             ToSet(created[f][i].images) \cap ToSet(v.images) \subseteq crossed[f]
    BY DEF FormInv, OpenOK, Inherits
  <2>2. QED
    BY <1>2, <1>3, <2>1
<1>5. PendingOK(f)'
  BY <1>1, <1>3 DEF FormInv, PendingOK, Unseen, Spent
<1>6. QED
  BY <1>4, <1>5

LEMMA FormFieldStepForms ==
  ASSUME FieldInv, FormInv, NEW f \in Form, FormFieldStep(f)
  PROVE  FormInv'
<1>1. f \in Host /\ UNCHANGED formVars /\ UNCHANGED <<created, creating>>
  BY CreateFormAssumption DEF FormFieldStep, formVars
<1>2. \A g \in Form : g # f => SameField(g)
  BY <1>1, OtherFieldMoves, CreateFormAssumption DEF FormFieldStep
<1>3. used \subseteq used'
  BY DEF FormFieldStep, ChooseFile, UploadEnds, RemoveImage
<1>4. SentOK(f)' /\ CreatedOK(f)'
  BY <1>1 DEF FormInv, SentOK, CreatedOK, Inherits, Past
<1>5. OpenOK(f)' /\ PendingOK(f)'
  BY <1>1, ChooseFileForm, UploadEndsForm, RemoveImageForm DEF FormFieldStep
<1>6. FormTyped'
  BY <1>1, <1>3, FormTypesStay
<1>7. QED
  BY <1>1, <1>2, <1>4, <1>5, <1>6, OneForm DEF FormOK

LEMMA CreateSubmitForms ==
  ASSUME FieldInv, FormInv, NEW f \in Form, CreateSubmit(f)
  PROVE  FormInv'
<1> DEFINE call == [state |-> "sent", images |-> images[f], crossed |-> crossed[f]]
<1>1. /\ creating[f] = None
      /\ creating' = [creating EXCEPT ![f] = call]
      /\ UNCHANGED <<fieldVars, created>>
  BY DEF CreateSubmit
<1>2. call \in Creation /\ f \in Host
  BY CreateFormAssumption DEF Creation, FieldInv, FieldTyped
<1>3. /\ call.state = "sent" /\ call.images = images[f] /\ call.crossed = crossed[f]
  OBVIOUS
<1> HIDE DEF call
<1>4. creating'[f] = call /\ \A g \in Form : g # f => creating'[g] = creating[g]
  BY <1>1 DEF FormInv, FormTyped
<1>5. FormTyped'
  BY <1>1, <1>2 DEF FormInv, FormTyped, fieldVars, Creation, Character, Lists
<1>6. \A g \in Form : SameField(g)
  BY <1>1 DEF fieldVars, SameField
<1>7. CreatedOK(f)'
  BY <1>1 DEF FormInv, CreatedOK
<1>8. OpenOK(f)' /\ PendingOK(f)'
  BY <1>1, <1>3, <1>4 DEF FormInv, OpenOK, PendingOK, Open, Inherits, Past, Unseen, Spent, fieldVars
<1>9. SentOK(f)'
  BY <1>1, <1>3, <1>4 DEF FormInv, SentOK, OpenOK, Open, Inherits, Past
<1>10. QED
  BY <1>1, <1>4, <1>5, <1>6, <1>7, <1>8, <1>9, OneForm DEF FormOK

\* None is told from every call.
LEMMA CallIsNotNone ==
  ASSUME FieldInv, NEW call \in Creation
  PROVE  call # None
<1>1. /\ call = [state |-> call.state, images |-> call.images, crossed |-> call.crossed]
      /\ call.state \in {"sent", "written", "failed", "lost"}
      /\ call.crossed \in SUBSET Asset
      /\ call.images \in Seq(used)
  BY DEF Creation, Lists
<1>2. call.images \in Seq(Asset)
  BY <1>1 DEF FieldInv, FieldTyped
<1>3. QED
  BY <1>1, <1>2, CreateFormAssumption

\* A character is added behind the others: when it was told of or lost, all are past.
LEMMA CharacterAdded ==
  ASSUME FieldInv, FormInv, NEW f \in Form, NEW new \in Character,
         creating[f] # None, creating[f].state = "sent",
         new.images = creating[f].images, new.crossed = creating[f].crossed,
         created' = [created EXCEPT ![f] = Append(@, new)]
  PROVE  /\ created' \in [Form -> Seq(Character)]
         /\ CreatedOK(f)'
         /\ Spent(f)' = Spent(f) \cup ToSet(creating[f].images)
         /\ \A list, assets : new.told = "failed" /\ Inherits(f, list, assets)
                               => Inherits(f, list, assets)'
<1>1. created \in [Form -> Seq(Character)] /\ created[f] \in Seq(Character)
  BY DEF FormInv, FormTyped
<1> DEFINE m == Len(created[f])
<1>2. /\ m \in Nat /\ DOMAIN created[f] = 1..m /\ DOMAIN created'[f] = 1..(m + 1)
      /\ Len(created'[f]) = m + 1
      /\ created'[f][m + 1] = new
      /\ \A i \in 1..m : created'[f][i] = created[f][i]
  BY <1>1
<1>3. created' \in [Form -> Seq(Character)]
  <2>1. Append(created[f], new) \in Seq(Character)
    BY <1>1
  <2>2. QED
    BY <1>1, <2>1
<1> HIDE DEF m
<1>4. \A i \in 1..m : Past(f, i) \/ \A n \in i..m : created[f][n].told = "failed"
  BY DEF Past, m
<1>5. CreatedOK(f)'
  <2> SUFFICES ASSUME NEW i \in 1..(m + 1), NEW j \in 1..(m + 1), i < j
               PROVE  \/ \A n \in i..(j - 1) : created'[f][n].told = "failed"
                      \/ ToSet(created'[f][i].images) \cap ToSet(created'[f][j].images)
                           \subseteq created'[f][j].crossed
    BY <1>2 DEF CreatedOK
  <2>1. i \in 1..m /\ created'[f][i] = created[f][i]
    BY <1>2
  <2>2. CASE j \in 1..m
    <3>1. \A n \in i..(j - 1) : n \in 1..m
      BY <1>2, <2>2
    <3>2. QED
      BY <1>2, <2>1, <2>2, <3>1 DEF FormInv, CreatedOK
  <2>3. CASE j = m + 1
    <3>1. \A n \in i..(j - 1) : n \in i..m /\ n \in 1..m
      BY <1>2, <2>3
    <3>2. CASE Past(f, i)
      <4>1. ToSet(created[f][i].images) \cap ToSet(creating[f].images) \subseteq creating[f].crossed
        BY <1>2, <2>1, <3>2 DEF FormInv, SentOK, Inherits
      <4>2. QED
        BY <1>2, <2>1, <2>3, <4>1
    <3>3. CASE ~Past(f, i)
      BY <1>2, <1>4, <2>1, <3>1, <3>3
    <3>4. QED
      BY <3>2, <3>3
  <2>4. QED
    BY <1>2, <2>2, <2>3
<1>6. Spent(f)' = Spent(f) \cup ToSet(creating[f].images)
  <2>1. \A i \in 1..(m + 1) : i \in 1..m \/ i = m + 1
    BY <1>2
  <2>2. m + 1 \in 1..(m + 1) /\ \A i \in 1..m : i \in 1..(m + 1)
    BY <1>2
  <2>3. QED
    BY <1>2, <2>1, <2>2 DEF Spent
<1>7. ASSUME NEW list, NEW assets, new.told = "failed", Inherits(f, list, assets),
             NEW i \in 1..(m + 1), Past(f, i)'
      PROVE  ToSet(created'[f][i].images) \cap ToSet(list) \subseteq assets
  <2>1. PICK n \in i..(m + 1) : created'[f][n].told # "failed"
    BY <1>2, <1>7 DEF Past
  <2>2. n \in i..m /\ n \in 1..m /\ i \in 1..m
    BY <1>2, <1>7, <2>1
  <2>3. Past(f, i)
    BY <1>2, <2>1, <2>2 DEF Past, m
  <2>4. QED
    BY <1>2, <1>7, <2>2, <2>3 DEF Inherits
<1>8. QED
  BY <1>2, <1>3, <1>5, <1>6, <1>7 DEF Inherits

LEMMA ServeCreateForms ==
  ASSUME FieldInv, FormInv, NEW f \in Form, ServeCreate(f)
  PROVE  FormInv'
<1> DEFINE call == creating[f]
<1>1. /\ call # None /\ call.state = "sent" /\ call \in Creation
      /\ UNCHANGED fieldVars
  BY DEF ServeCreate, FormInv, FormTyped
<1>2. PICK s \in {"written", "failed", "lost"} :
        /\ creating' = [creating EXCEPT ![f].state = s]
        /\ \/ created' = [created EXCEPT ![f] = Append(@,
                [images |-> call.images, crossed |-> call.crossed, told |-> s])]
           \/ UNCHANGED created
  BY DEF ServeCreate
<1> DEFINE new == [images |-> call.images, crossed |-> call.crossed, told |-> s]
<1>3. /\ new \in Character
      /\ new.images = call.images /\ new.crossed = call.crossed /\ new.told = s
  BY <1>1 DEF Creation, Character
<1>4. /\ [call EXCEPT !.state = s] \in Creation
      /\ [call EXCEPT !.state = s].state = s
      /\ [call EXCEPT !.state = s].images = call.images
  BY <1>1 DEF Creation
<1>5. creating' = [creating EXCEPT ![f] = [call EXCEPT !.state = s]]
  BY <1>2
<1>6. UNCHANGED created \/ created' = [created EXCEPT ![f] = Append(@, new)]
  BY <1>2
<1> HIDE DEF call, new
<1>7. /\ creating'[f] = [call EXCEPT !.state = s]
      /\ \A g \in Form : g # f => creating'[g] = creating[g] /\ created'[g] = created[g]
  BY <1>5, <1>6 DEF FormInv, FormTyped
<1>8. creating'[f] # None /\ creating'[f].state = s /\ creating'[f].images = call.images
  BY <1>4, <1>7, CallIsNotNone
<1>9. \A g \in Form : SameField(g)
  BY <1>1 DEF fieldVars, SameField
<1>10. /\ UNCHANGED created \/ CreatedOK(f)'
       /\ created' \in [Form -> Seq(Character)]
       /\ Spent(f)' \subseteq Spent(f) \cup ToSet(call.images)
       /\ \A list, assets : s = "failed" /\ Inherits(f, list, assets) => Inherits(f, list, assets)'
  <2>1. CASE UNCHANGED created
    BY <2>1 DEF FormInv, FormTyped, Spent, Inherits, Past
  <2>2. CASE created' = [created EXCEPT ![f] = Append(@, new)]
    BY <1>1, <1>3, <2>2, CharacterAdded DEF call
  <2>3. QED
    BY <1>6, <2>1, <2>2
<1>11. CreatedOK(f)'
  BY <1>10 DEF FormInv, CreatedOK
<1>12. FormTyped'
  <2>1. used' = used
    BY <1>1 DEF fieldVars
  <2>2. Character' = Character /\ Creation' = Creation
    BY <2>1 DEF Character, Creation, Lists
  <2>3. creating' \in [Form -> Creation \cup {None}]
    BY <1>4, <1>5 DEF FormInv, FormTyped
  <2>4. QED
    BY <1>10, <2>2, <2>3 DEF FormTyped
<1>13. SentOK(f)'
  BY <1>8 DEF SentOK
<1>14. OpenOK(f)'
  <2>1. CASE s = "failed"
    <3>1. Open(f)
      BY <1>1 DEF Open, call
    <3>2. Inherits(f, images[f], crossed[f]) /\ \A u \in uploads[f] : Inherits(f, u.images, crossed[f])
      BY <3>1 DEF FormInv, OpenOK
    <3>3. UNCHANGED <<images, uploads, crossed>>
      BY <1>1 DEF fieldVars
    <3>4. Inherits(f, images[f], crossed[f])' /\ \A u \in uploads'[f] : Inherits(f, u.images, crossed[f])'
      BY <1>10, <2>1, <3>2, <3>3 DEF Inherits
    <3>5. QED
      BY <3>4 DEF OpenOK
  <2>2. CASE s # "failed"
    BY <1>2, <1>8, <2>2 DEF OpenOK, Open
  <2>3. QED
    BY <2>1, <2>2
<1>15. PendingOK(f)'
  <2>1. \A u \in uploads[f] : Unseen(f, u.asset)'
    BY <1>1, <1>8, <1>9, <1>10 DEF FormInv, PendingOK, Unseen, SameField, call
  <2>2. QED
    BY <1>9, <2>1 DEF FormInv, PendingOK, SameField
<1>16. QED
  BY <1>7, <1>9, <1>11, <1>12, <1>13, <1>14, <1>15, OneForm DEF FormOK

LEMMA CreateEndsForms ==
  ASSUME FieldInv, FormInv, NEW f \in Form, Created(f) \/ CreateFailed(f)
  PROVE  FormInv'
<1>1. /\ creating' = [creating EXCEPT ![f] = None]
      /\ UNCHANGED <<used, uploads, created>>
      /\ f \in Host
  BY CreateFormAssumption DEF Created, CreateFailed, fieldVars
<1>2. creating'[f] = None /\ \A g \in Form : g # f => creating'[g] = creating[g]
  BY <1>1 DEF FormInv, FormTyped
<1>3. FormTyped'
  BY <1>1 DEF FormInv, FormTyped, Creation, Character, Lists
<1>4. \A g \in Form : g # f => SameField(g)
  <2>1. CASE Created(f)
    BY <1>1, <2>1, OtherFieldReseeded, CreateFormAssumption DEF Created
  <2>2. CASE CreateFailed(f)
    BY <2>2 DEF CreateFailed, fieldVars, SameField
  <2>3. QED
    BY <2>1, <2>2
<1>5. SentOK(f)' /\ CreatedOK(f)'
  BY <1>1, <1>2 DEF FormInv, SentOK, CreatedOK
<1>6. CASE CreateFailed(f)
  <2>1. OpenOK(f)'
    BY <1>1, <1>6 DEF CreateFailed, fieldVars, FormInv, OpenOK, Open, Inherits, Past
  <2>2. PendingOK(f)'
    BY <1>1, <1>2, <1>6 DEF CreateFailed, fieldVars, FormInv, PendingOK, Unseen, Spent
  <2>3. QED
    BY <1>1, <1>2, <1>3, <1>4, <1>5, <2>1, <2>2, OneForm DEF FormOK
<1>7. CASE Created(f)
  <2>1. /\ images'[f] = <<>>
        /\ uploads[f] # {} => crossed'[f] = crossed[f] \cup ToSet(images[f])
    BY <1>1, <1>7, EmptyList DEF Created, Reseed, Cross, SetImages, FieldInv, FieldTyped
  <2>2. ASSUME NEW u \in uploads[f]
        PROVE  ToSet(u.images) \subseteq crossed'[f]
    <3>1. Agrees(f, u.images) /\ Agrees(f, images[f])
      BY <1>1 DEF FieldInv, ListOK
    <3>2. QED
      BY <2>1, <3>1 DEF Agrees
  <2>3. OpenOK(f)'
    BY <1>1, <2>1, <2>2, EmptyList DEF OpenOK, Inherits
  <2>4. PendingOK(f)'
    BY <1>1, <1>2, <2>1, EmptyList DEF FormInv, PendingOK, Unseen, Spent
  <2>5. QED
    BY <1>1, <1>2, <1>3, <1>4, <1>5, <2>3, <2>4, OneForm DEF FormOK
<1>8. QED
  BY <1>6, <1>7

-----------------------------------------------------------------------------
(* The page, action by action.                                             *)

\* Wherever a list is stored, the row can start its form over from it.
LEMMA StoredLists ==
  ASSUME RowInv, NEW r \in Row, NEW n \in 1..Len(history[r])
  PROVE  StoredImages(r, n) \in Lists
<1>1. history[r] \in Seq(Revised)
  BY DEF RowInv, HistoryOK
<1>2. history[r][n] \in Revised
  BY <1>1
<1>3. QED
  BY <1>2 DEF Revised, StoredImages

LEMMA InitInv == Init => Inv
<1> SUFFICES ASSUME Init
             PROVE  Inv
  OBVIOUS
<1>1. PICK im \in {<<>>} \cup {<<a>> : a \in UNION {bound.files[r] : r \in Row}} :
        /\ images = [h \in Host |-> IF h \in Row THEN im ELSE <<>>]
        /\ used = ToSet(im)
        /\ history = [r \in Row |-> <<Version(im, 0, 0)>>]
  BY DEF Init, RowInit
<1>2. bound \in Bounds /\ \A r \in Row : bound.files[r] \subseteq Asset
  BY FieldAssumption, CharacterRowAssumption DEF Init, RowInit
<1>3. im \in Lists /\ ToSet(im) \subseteq Asset
  <2>1. CASE im = <<>>
    BY <2>1, EmptyList
  <2>2. CASE \E a \in UNION {bound.files[r] : r \in Row} : im = <<a>>
    <3>1. PICK a \in UNION {bound.files[r] : r \in Row} : im = <<a>>
      BY <2>2
    <3>2. a \in Asset
      BY <1>2
    <3>3. ToSet(im) = {a}
      BY <3>1 DEF ToSet
    <3>4. QED
      BY <1>1, <3>1, <3>2, <3>3, OneEntryList
  <2>3. QED
    BY <2>1, <2>2
<1>4. FieldInv
  <2>1. /\ meant = [h \in Host |-> ToSet(images[h])]
        /\ crossed = [h \in Host |-> {}]
        /\ uploads = [h \in Host |-> {}]
    BY DEF Init, RowInit
  <2>2. \A h \in Host : images[h] \in Lists /\ ToSet(images[h]) \subseteq Asset
    BY <1>1, <1>3, EmptyList
  <2>3. FieldTyped
    BY <1>1, <1>2, <1>3, <2>1, <2>2, EmptyList DEF FieldTyped
  <2>4. QED
    BY <2>1, <2>3 DEF FieldInv, UploadsOK, ListOK, Agrees
<1>5. RowInv
  <2>1. /\ shown = [r \in Row |-> 1]
        /\ seed = [r \in Row |-> 1]
        /\ saving = [r \in Row |-> None]
        /\ panel = [r \in Row |-> Closed]
        /\ gets = [r \in Row |-> <<>>]
        /\ read = None
    BY DEF Init, RowInit
  <2>2. Version(im, 0, 0) \in Revised
    BY <1>3 DEF Version, Revised
  <2>3. \A r \in Row : history[r] \in Seq(Revised) /\ Len(history[r]) = 1
    BY <1>1, <2>2
  <2>4. HistoryOK
    BY <1>1, <2>3 DEF HistoryOK
  <2>5. /\ ShownOK
        /\ EditorOK
        /\ GetsOK
    <3>1. ShownOK
      <4>1. shown \in [Row -> Nat] /\ \A r \in Row : shown[r] = 1
        BY <2>1
      <4>2. \A r \in Row : Exists(r, shown[r])
        BY <2>3, <4>1 DEF Exists
      <4>3. QED
        BY <2>1, <4>1, <4>2 DEF ShownOK
    <3>2. EditorOK
      BY <2>1 DEF EditorOK
    <3>3. GetsOK
      BY <2>1 DEF GetsOK
    <3>4. QED
      BY <3>1, <3>2, <3>3
  <2>6. PanelOK
    BY <2>1 DEF PanelOK, Panel, Closed
  <2>7. QED
    BY <2>4, <2>5, <2>6 DEF RowInv
<1>6. FormInv
  <2>1. created = [f \in Form |-> <<>>] /\ creating = [f \in Form |-> None]
    BY DEF Init, FormInit
  <2>2. FormTyped
    BY <2>1 DEF FormTyped
  <2>3. \A f \in Form : CreatedOK(f) /\ SentOK(f) /\ OpenOK(f)
    BY <2>1 DEF CreatedOK, SentOK, OpenOK, Inherits
  <2>4. \A f \in Form : PendingOK(f)
    BY CreateFormAssumption DEF Init, RowInit, PendingOK
  <2>5. QED
    BY <2>2, <2>3, <2>4 DEF FormInv
<1>7. QED
  BY <1>4, <1>5, <1>6 DEF Inv

\* A row starts its form over: StartEditing, StopEditing and Saved.
LEMMA RowReseedField ==
  ASSUME FieldInv, RowInv, NEW r \in Row, StartEditing(r) \/ StopEditing(r) \/ Saved(r)
  PROVE  FieldInv' /\ used \subseteq used' /\ \A f \in Form : SameField(f)
<1>1. r \in Host /\ \A f \in Form : f \in Host /\ f # r
  BY CharacterRowAssumption, CreateFormAssumption, CastPageAssumption
<1>2. PICK n \in 1..Len(history[r]) : Reseed(r, StoredImages(r, n))
  <2>1. CASE StartEditing(r) \/ StopEditing(r)
    BY <2>1 DEF StartEditing, StopEditing, RowInv, ShownOK, Exists
  <2>2. CASE Saved(r)
    BY <2>2 DEF Saved, RowInv, EditorOK, Exists
  <2>3. QED
    BY <2>1, <2>2
<1>3. StoredImages(r, n) \in Lists
  BY StoredLists
<1>4. (UNCHANGED uploads \/ Unmount(r)) /\ UNCHANGED <<bound, used>>
  BY DEF StartEditing, StopEditing, Saved
<1>5. QED
  BY <1>1, <1>2, <1>3, <1>4, FieldReseeded, OtherFieldReseeded

LEMMA FieldStepField ==
  ASSUME FieldInv, NEW h \in Host, ChooseFile(h) \/ UploadEnds(h) \/ RemoveImage(h)
  PROVE  FieldInv' /\ used \subseteq used'
<1>1. CASE ChooseFile(h)
  BY <1>1, ChooseFileField
<1>2. CASE UploadEnds(h)
  BY <1>2, UploadEndsField DEF UploadEnds
<1>3. CASE RemoveImage(h)
  BY <1>3, RemoveImageField DEF RemoveImage
<1>4. QED
  BY <1>1, <1>2, <1>3

\* A step that leaves every image field as it is.
LEMMA FieldsUntouched ==
  ASSUME FieldInv, UNCHANGED fieldVars
  PROVE  FieldInv' /\ used \subseteq used' /\ \A f \in Form : SameField(f)
BY FieldStays DEF fieldVars, SameField

LEMMA RowActs ==
  ASSUME Inv, NEW r \in Row, RowStep(r) \/ ServeSave(r) \/ SaveEnds(r)
  PROVE  Inv'
<1>1. /\ FieldInv /\ RowInv /\ FormInv
      /\ UNCHANGED formVars /\ UNCHANGED read
  BY DEF Inv, RowStep, ServeSave, SaveEnds, pageVars
<1>2. SUFFICES FieldInv' /\ RowInv' /\ used \subseteq used' /\ \A f \in Form : SameField(f)
  BY <1>1, RowStepForms DEF Inv
<1>3. CASE StartEditing(r)
  BY <1>1, <1>3, RowReseedField, StartEditingRows
<1>4. CASE StopEditing(r)
  BY <1>1, <1>4, RowReseedField, StopEditingRows
<1>5. CASE Saved(r)
  BY <1>1, <1>5, RowReseedField, SaveEndsRows
<1>6. CASE RowFieldStep(r)
  <2>1. r \in Host /\ \A f \in Form : f \in Host /\ f # r
    BY CharacterRowAssumption, CreateFormAssumption, CastPageAssumption
  <2>2. (ChooseFile(r) \/ UploadEnds(r) \/ RemoveImage(r)) /\ UNCHANGED rowVars
    BY <1>6 DEF RowFieldStep
  <2>3. FieldInv' /\ used \subseteq used'
    BY <1>1, <2>1, <2>2, FieldStepField
  <2>4. \A f \in Form : SameField(f)
    BY <1>1, <2>1, <2>2, OtherFieldMoves
  <2>5. RowInv'
    BY <1>1, <2>2, <2>3, RowsStay
  <2>6. QED
    BY <2>3, <2>4, <2>5
<1>7. CASE Submit(r) \/ Serve(r) \/ SaveRefused(r) \/ OthersAppend(r)
  <2>1. UNCHANGED fieldVars
    BY <1>7 DEF Submit, Serve, SaveRefused, OthersAppend
  <2>2. RowInv'
    BY <1>1, <1>7, SubmitRows, ServeRows, SaveEndsRows, OthersAppendRows
  <2>3. QED
    BY <1>1, <2>1, <2>2, FieldsUntouched
<1>8. CASE OpenHistory(r) \/ CloseHistory(r) \/ ServeHistory(r) \/ HistoryAnswers(r)
  <2>1. UNCHANGED fieldVars /\ UNCHANGED used
    BY <1>8 DEF OpenHistory, CloseHistory, ServeHistory, HistoryAnswers, fieldVars
  <2>2. RowInv'
    BY <1>1, <1>8, <2>1, OpenHistoryRows, CloseHistoryRows, ServeHistoryRows, HistoryAnswersRows
  <2>3. QED
    BY <1>1, <2>1, <2>2, FieldsUntouched
<1>9. QED
  BY <1>3, <1>4, <1>5, <1>6, <1>7, <1>8 DEF RowStep, ServeSave, SaveEnds

LEMMA FormActs ==
  ASSUME Inv, NEW f \in Form, FormStep(f) \/ ServeCreation(f) \/ CreateEnds(f)
  PROVE  Inv'
<1>1. /\ FieldInv /\ RowInv /\ FormInv
      /\ UNCHANGED rowVars /\ UNCHANGED read
      /\ f \in Host
  BY CreateFormAssumption DEF Inv, FormStep, ServeCreation, CreateEnds, pageVars
<1>2. SUFFICES FieldInv' /\ FormInv' /\ used \subseteq used'
  BY <1>1, RowsStay DEF Inv
<1>3. CASE FormFieldStep(f)
  BY <1>1, <1>3, FieldStepField, FormFieldStepForms DEF FormFieldStep
<1>4. CASE CreateSubmit(f)
  BY <1>1, <1>4, FieldsUntouched, CreateSubmitForms DEF CreateSubmit
<1>5. CASE ServeCreate(f)
  BY <1>1, <1>5, FieldsUntouched, ServeCreateForms DEF ServeCreate
<1>6. CASE CreateFailed(f)
  BY <1>1, <1>6, FieldsUntouched, CreateEndsForms DEF CreateFailed
<1>7. CASE Created(f)
  <2>1. Reseed(f, <<>>) /\ UNCHANGED <<bound, uploads, used>>
    BY <1>7 DEF Created
  <2>2. FieldInv'
    BY <1>1, <2>1, EmptyList, FieldReseeded
  <2>3. FormInv'
    BY <1>1, <1>7, CreateEndsForms
  <2>4. QED
    BY <2>1, <2>2, <2>3
<1>8. QED
  BY <1>3, <1>4, <1>5, <1>6, <1>7 DEF FormStep, ServeCreation, CreateEnds

LEMMA ReloadActs ==
  ASSUME Inv, NEW r \in Row, Reload(r)
  PROVE  Inv'
<1>1. /\ FieldInv /\ RowInv /\ FormInv
      /\ UNCHANGED <<fieldVars, rowVars, formVars, read>>
  BY DEF Inv, Reload
<1>2. QED
  BY <1>1, FieldsUntouched, RowsStay, RowStepForms DEF Inv

\* A refresh reads the versions that are current, and shows them as they were.
LEMMA RefreshActs ==
  ASSUME Inv, ReadPage \/ ShowPage
  PROVE  Inv'
<1>1. /\ FieldInv /\ RowInv /\ FormInv
      /\ UNCHANGED <<fieldVars, history, editorVars, panelVars, formVars>>
  BY DEF Inv, ReadPage, ShowPage, rowVars
<1>2. FieldInv' /\ FormInv' /\ used \subseteq used'
  BY <1>1, FieldsUntouched, RowStepForms
<1>3. HistoryOK' /\ EditorOK' /\ PanelOK' /\ GetsOK'
  BY <1>1, <1>2, SameHistoryGrows, RowPartsStay DEF editorVars, panelVars
<1>4. ShownOK'
  <2>1. \A r \in Row : Len(history[r]) \in Nat /\ Len(history[r]) >= 1
    BY <1>1 DEF RowInv, HistoryOK
  <2>2. CASE ReadPage
    <3>1. PICK found \in BOOLEAN : read' = [Cast EXCEPT !.found = found]
      BY <2>2 DEF ReadPage
    <3>2. read'.shown = [r \in Row |-> Len(history[r])] /\ UNCHANGED <<shown, history>>
      BY <2>2, <3>1 DEF ReadPage, Cast, rowVars
    <3>3. QED
      BY <1>1, <2>1, <3>1, <3>2 DEF RowInv, ShownOK, Exists
  <2>3. CASE ShowPage
    BY <1>1, <2>3 DEF ShowPage, RowInv, ShownOK, Exists
  <2>4. QED
    BY <2>2, <2>3
<1>5. QED
  BY <1>2, <1>3, <1>4 DEF Inv, RowInv

\* Loaded again, the page forgets everything but what the api has.
LEMMA ReloadTabActs ==
  ASSUME Inv, ReloadTab
  PROVE  Inv'
<1>1. /\ FieldInv /\ RowInv /\ FormInv
      /\ UNCHANGED <<bound, used, history, created>>
  BY DEF Inv, ReloadTab
<1>2. Lists' = Lists
  BY <1>1 DEF Lists
<1>3. \A r \in Row : Len(history[r]) \in Nat /\ Len(history[r]) >= 1
  BY <1>1 DEF RowInv, HistoryOK
<1>4. /\ images' = [h \in Host |-> IF h \in Row THEN StoredImages(h, Len(history[h])) ELSE <<>>]
      /\ meant' = [h \in Host |-> ToSet(images'[h])]
      /\ crossed' = [h \in Host |-> {}]
      /\ uploads' = [h \in Host |-> {}]
  BY DEF ReloadTab
<1>5. FieldInv'
  <2>1. \A h \in Host : images'[h] \in Lists
    <3> SUFFICES ASSUME NEW h \in Host
                 PROVE  images'[h] \in Lists
      OBVIOUS
    <3>1. CASE h \in Row
      <4>1. Len(history[h]) \in 1..Len(history[h])
        BY <1>3, <3>1
      <4>2. QED
        BY <1>1, <1>4, <3>1, <4>1, StoredLists
    <3>2. CASE h \notin Row
      BY <1>4, <3>2, EmptyList
    <3>3. QED
      BY <3>1, <3>2
  <2>2. \A h \in Host : ToSet(images'[h]) \subseteq Asset
    BY <1>1, <2>1 DEF Lists, ToSet, FieldInv, FieldTyped
  <2>3. FieldTyped'
    BY <1>1, <1>2, <1>4, <2>1, <2>2 DEF FieldInv, FieldTyped
  <2>4. QED
    BY <1>4, <2>3 DEF FieldInv, UploadsOK, ListOK, Agrees
<1>6. RowInv'
  <2>1. used \subseteq used'
    BY <1>1
  <2>2. HistoryOK'
    BY <1>1, <2>1, SameHistoryGrows, RowPartsStay
  <2>3. shown' = [r \in Row |-> Len(history[r])] /\ read' = None
    BY DEF ReloadTab, Cast
  <2>4. ShownOK'
    BY <1>1, <1>3, <2>3 DEF ShownOK, Exists
  <2>5. EditorOK'
    BY <1>3, <2>3 DEF ReloadTab, EditorOK
  <2>6. PanelOK'
    BY DEF ReloadTab, PanelOK, Panel, Closed
  <2>7. GetsOK'
    BY DEF ReloadTab, GetsOK
  <2>8. QED
    BY <2>2, <2>4, <2>5, <2>6, <2>7 DEF RowInv
<1>7. FormInv'
  <2>1. creating' = [f \in Form |-> None]
    BY DEF ReloadTab
  <2>2. FormTyped'
    BY <1>1, <1>2, <2>1 DEF FormInv, FormTyped, Character, Creation
  <2>3. \A f \in Form : (SentOK(f) /\ CreatedOK(f))'
    BY <1>1, <2>1 DEF FormInv, SentOK, CreatedOK
  <2>4. \A f \in Form : ~(f \in Row) /\ f \in Host
    BY CreateFormAssumption, CastPageAssumption
  <2>5. \A f \in Form : images'[f] = <<>> /\ uploads'[f] = {}
    BY <1>4, <2>4
  <2>6. \A f \in Form : (OpenOK(f) /\ PendingOK(f))'
    BY <2>5, EmptyList DEF OpenOK, PendingOK, Inherits
  <2>7. QED
    BY <2>2, <2>3, <2>6 DEF FormInv
<1>8. QED
  BY <1>5, <1>6, <1>7 DEF Inv

LEMMA NextInv == Inv /\ [Next]_vars => Inv'
<1> SUFFICES ASSUME Inv, [Next]_vars
             PROVE  Inv'
  OBVIOUS
<1>1. CASE UNCHANGED vars
  <2>1. UNCHANGED <<fieldVars, rowVars, formVars, read>>
    BY <1>1 DEF vars, pageVars
  <2>2. QED
    BY <2>1, FieldsUntouched, RowsStay, RowStepForms DEF Inv
<1>2. CASE \E r \in Row : RowStep(r) \/ ServeSave(r) \/ SaveEnds(r) \/ Reload(r)
  BY <1>2, RowActs, ReloadActs
<1>3. CASE \E f \in Form : FormStep(f) \/ ServeCreation(f) \/ CreateEnds(f)
  BY <1>3, FormActs
<1>4. CASE ReadPage \/ ShowPage
  BY <1>4, RefreshActs
<1>5. CASE ReloadTab
  BY <1>5, ReloadTabActs
<1>6. QED
  BY <1>1, <1>2, <1>3, <1>4, <1>5 DEF Next

-----------------------------------------------------------------------------
(* The theorems.                                                           *)

(***************************************************************************)
(* The invariant the others follow from: what the image fields, the rows,  *)
(* the create form and the calls they await hold at any moment.            *)
(***************************************************************************)
THEOREM InvAlways == Spec => []Inv
BY InitInv, NextInv, PTL DEF Spec

(***************************************************************************)
(* For any number of files, rows and forms: the list a version states in   *)
(* full (handleFileChange, handleRemove) is what its author made of it,    *)
(* but for the images that came or went under an upload that did not know  *)
(* of it, and it lists none of them twice.                                 *)
(***************************************************************************)
THEOREM ListsAreMeant == Spec => []ListIsDeliberate
<1>1. Inv => ListIsDeliberate
  BY DEF Inv, FieldInv, FieldTyped, ListOK, Agrees, Lists, ListIsDeliberate
<1>2. QED
  BY <1>1, InvAlways, PTL

(***************************************************************************)
(* Whoever saves in between, and however many saves a row makes: a save    *)
(* (handleSubmit) from the version its form was opened on replaces only    *)
(* that one.                                                               *)
(***************************************************************************)
THEOREM SavesReplaceWhatWasRead == Spec => []OverwriteNeedsRefresh
<1>1. Inv => OverwriteNeedsRefresh
  BY DEF Inv, RowInv, HistoryOK, OverwriteNeedsRefresh
<1>2. QED
  BY <1>1, InvAlways, PTL

(***************************************************************************)
(* However many reads of a history are under way (toggleHistory), and in   *)
(* whatever order they answer: over the version on screen, the panel shows *)
(* every version behind it.                                                *)
(***************************************************************************)
THEOREM PanelsAreWhole == Spec => []HistoryGapsNeedRefresh
<1>1. Inv => HistoryGapsNeedRefresh
  BY DEF Inv, RowInv, PanelOK, Behind, HistoryGapsNeedRefresh
<1>2. QED
  BY <1>1, InvAlways, PTL

(***************************************************************************)
(* However many characters a form creates (handleSubmit), and whatever     *)
(* becomes of the answers: a character shares a photograph with an earlier *)
(* one only as its twin, the form having been told that the earlier one    *)
(* and all since had failed, or when an upload that was running while the  *)
(* form was emptied brought that very photograph back.                     *)
(***************************************************************************)
THEOREM InheritanceHasACause == Spec => []InheritanceIsExplained
<1>1. Inv => InheritanceIsExplained
  BY DEF Inv, FormInv, CreatedOK, InheritanceIsExplained
<1>2. QED
  BY <1>1, InvAlways, PTL
=============================================================================
