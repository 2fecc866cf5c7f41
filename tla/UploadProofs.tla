----------------------------- MODULE UploadProofs -----------------------------
(***************************************************************************)
(* Theorems about Upload, for any number of uploads, any lengths and any   *)
(* sizes of the buffer that satisfy UploadAssumption.                      *)
(*                                                                         *)
(* Reading ties what a session knows of its own upload, which is one       *)
(* position in the body, to the place its last piece ends in a file that   *)
(* others write to and empty; Begins says whose beginning a file can hold. *)
(***************************************************************************)
EXTENDS Upload, SequenceTheorems, TLAPS

(* The place of the last piece, if there is one.                           *)
LastOf(s) == {i \in PiecesOf(s) : \A j \in PiecesOf(s) : j <= i}

(* A piece begins where the upload's piece before it in the file ends.     *)
Ordered(s) ==
    \A i, j \in PiecesOf(s) :
        i < j /\ (\A k \in PiecesOf(s) : k <= i \/ j <= k)
            => file[name[s]][j].from = file[name[s]][i].to

HasLast(s) == PiecesOf(s) # {} => LastOf(s) # {}

(* A file holds uploads of its name, and the beginning of the first only.  *)
Begins(n) ==
    \A i \in DOMAIN file[n] :
        /\ name[file[n][i].session] = n
        /\ file[n][i].from = PartHead <=> i = 1

(* What the branch a session is in says of its position and its pieces.    *)
Reading(s) ==
    /\ mode[s] \in {"header", "first"} => at[s] = 0 /\ prev[s] = 0 /\ PiecesOf(s) = {}
    /\ mode[s] = "rest" =>
        /\ at[s] > PartHead
        /\ at[s] = Body(s) \/ (prev[s] = at[s] - (Buf - Keep) /\ at[s] < Cut(s) + Boundary)
        /\ file[name[s]] # <<>>
        /\ \A i \in LastOf(s) : file[name[s]][i].to = at[s]
    /\ mode[s] = "answered" =>
        /\ file[name[s]] # <<>>
        /\ \A i \in LastOf(s) : file[name[s]][i].to >= PartHead + size[s]

Ranges ==
    /\ name \in [Sessions -> Names]
    /\ size \in [Sessions -> Sizes]
    /\ at \in [Sessions -> Nat]
    /\ prev \in [Sessions -> Nat]
    /\ file \in [Names -> Seq(Piece)]

IInv ==
    /\ TypeOK
    /\ Ranges
    /\ \A n \in Names : Begins(n)
    /\ \A s \in Sessions : Ordered(s) /\ HasLast(s) /\ Reading(s)
    /\ DiesOnlyIfSplit

-----------------------------------------------------------------------------
LEMMA AppendFacts ==
    ASSUME NEW S, NEW seq \in Seq(S), NEW e \in S
    PROVE  /\ Append(seq, e) \in Seq(S)
           /\ Len(seq) \in Nat
           /\ DOMAIN seq = 1 .. Len(seq)
           /\ DOMAIN Append(seq, e) = 1 .. Len(seq) + 1
           /\ \A i \in 1 .. Len(seq) : Append(seq, e)[i] = seq[i]
           /\ Append(seq, e)[Len(seq) + 1] = e
           /\ Append(seq, e) # <<>>
BY AppendProperties, LenProperties

LEMMA Lengths ==
    ASSUME Ranges, NEW s \in Sessions
    PROVE  /\ Cut(s) \in Nat /\ Body(s) \in Nat /\ size[s] \in Nat /\ ContentEnd(s) \in Nat
           /\ Cut(s) = PartHead + size[s] + 4 /\ Body(s) = Cut(s) + Boundary + 4
           /\ ContentEnd(s) = Cut(s) - 3
           /\ at[s] \in Nat /\ prev[s] \in Nat /\ name[s] \in Names
           /\ Buf \in Nat /\ Keep \in Nat /\ Boundary \in Nat /\ PartHead \in Nat
           /\ Boundary > 0 /\ Keep < Buf /\ PartHead < Buf /\ Boundary + 4 <= Buf
           /\ PartHead > 0 /\ Keep > 0
<1>1. /\ Buf \in Nat /\ Keep \in Nat /\ Boundary \in Nat /\ PartHead \in Nat
      /\ Boundary > 0 /\ Keep < Buf /\ PartHead < Buf /\ Boundary + 4 <= Buf
      /\ PartHead > 0 /\ Keep > 0
  BY UploadAssumption
<1>2. size[s] \in Nat /\ at[s] \in Nat /\ prev[s] \in Nat /\ name[s] \in Names
  <2>1. Sizes \subseteq Nat
    BY UploadAssumption
  <2>2. QED BY <2>1 DEF Ranges
<1>3. QED BY <1>1, <1>2 DEF Cut, Body, ContentEnd

(* A read goes a whole buffer further, or to the end of the body.          *)
LEMMA ReadToFacts ==
    ASSUME Ranges, NEW s \in Sessions, at[s] <= Body(s)
    PROVE  /\ ReadTo(s) \in Nat
           /\ at[s] <= ReadTo(s) /\ ReadTo(s) <= Body(s)
           /\ ReadTo(s) = Body(s) \/ ReadTo(s) = at[s] + Buf
           /\ ReadTo(s) # Body(s) => ReadTo(s) = at[s] + Buf
BY Lengths DEF ReadTo

-----------------------------------------------------------------------------
(* What writing a piece does to the files: in the file of its name the     *)
(* piece becomes the last of its upload, and the other uploads' last       *)
(* pieces stay where they were unless the file was emptied.                *)
LEMMA SaveFacts ==
    ASSUME IInv, NEW s \in Sessions, mode[s] \in {"first", "rest"},
           NEW from \in Nat, NEW to \in Nat,
           mode[s] = "first" <=> from = PartHead,
           mode[s] = "rest" => from = at[s],
           Save(s, from, to), UNCHANGED <<name, size>>
    PROVE  /\ file' \in [Names -> Seq(Piece)]
           /\ \A n \in Names : Begins(n)'
           /\ \A t \in Sessions : Ordered(t)' /\ HasLast(t)'
           /\ file'[name[s]] # <<>>
           /\ \A i \in LastOf(s)' : file'[name[s]][i].to = to
           /\ \A t \in Sessions \ {s} :
                /\ PiecesOf(t) = {} => PiecesOf(t)' = {}
                /\ file[name[t]] # <<>> => file'[name[t]] # <<>>
                /\ \A i \in LastOf(t)' :
                    i \in LastOf(t) /\ file'[name[t]][i] = file[name[t]][i]
<1> DEFINE n == name[s]
           p == [session |-> s, from |-> from, to |-> to]
           base == IF mode[s] = "first" THEN <<>> ELSE file[n]
           k == Len(base)
           new == Append(base, p)
<1>1. /\ n \in Names /\ file \in [Names -> Seq(Piece)] /\ p \in Piece
      /\ name \in [Sessions -> Names] /\ name' = name
  BY DEF IInv, Ranges, Piece
<1>2. base \in Seq(Piece)
  <2>1. <<>> \in Seq(Piece) /\ file[n] \in Seq(Piece)
    BY <1>1, EmptySeq
  <2>2. QED BY <2>1
<1>3. /\ file' \in [Names -> Seq(Piece)]
      /\ file'[n] = new
      /\ \A m \in Names \ {n} : file'[m] = file[m]
  <2>1. new \in Seq(Piece) /\ file' = [file EXCEPT ![n] = new]
    BY <1>1, <1>2, AppendFacts DEF Save
  <2> HIDE DEF new, n
  <2>2. QED BY <1>1, <2>1
<1>4. /\ k \in Nat /\ DOMAIN base = 1 .. k /\ DOMAIN new = 1 .. k + 1
      /\ \A i \in 1 .. k : new[i] = base[i]
      /\ new[k + 1] = p /\ new # <<>>
  <2> HIDE DEF p, base
  <2>1. QED BY <1>1, <1>2, AppendFacts
<1>5. /\ mode[s] = "first" => k = 0 /\ PiecesOf(s) = {}
      /\ mode[s] = "rest" => base = file[n] /\ k > 0 /\ from > PartHead
  <2>1. CASE mode[s] = "first"
    BY <2>1, EmptySeq DEF IInv, Reading
  <2>2. CASE mode[s] = "rest"
    <3>1. file[n] # <<>> /\ at[s] > PartHead /\ base = file[n]
      BY <2>2 DEF IInv, Reading
    <3>2. k # 0
      BY <1>2, <3>1, EmptySeq
    <3>3. QED BY <1>4, <2>2, <3>1, <3>2
  <2>3. QED BY <2>1, <2>2
<1>6. /\ p.session = s /\ p.from = from /\ p.to = to
      /\ \A i \in 1 .. k : mode[s] = "rest" /\ i \in DOMAIN file[n] /\ new[i] = file[n][i]
      /\ mode[s] = "rest" => DOMAIN file[n] = 1 .. k
      /\ \A i : i \in 1 .. k + 1 <=> i \in 1 .. k \/ i = k + 1
      /\ k + 1 = 1 <=> mode[s] = "first"
  <2>1. p.session = s /\ p.from = from /\ p.to = to
    OBVIOUS
  <2> HIDE DEF p, n, new
  <2>2. QED BY <1>4, <1>5, <2>1
<1> HIDE DEF n, p, base, k, new
<1>7. \A m \in Names : Begins(m)'
  <2> SUFFICES ASSUME NEW m \in Names PROVE Begins(m)'
    OBVIOUS
  <2>1. Begins(m) /\ Begins(n)
    BY <1>1 DEF IInv
  <2>2. CASE m # n
    BY <1>1, <1>3, <2>1, <2>2 DEF Begins
  <2>3. CASE m = n
    <3>1. \A i \in 1 .. k : name[new[i].session] = n /\ (new[i].from = PartHead <=> i = 1)
      BY <1>6, <2>1 DEF Begins
    <3>2. name[p.session] = n /\ (p.from = PartHead <=> k + 1 = 1)
      BY <1>6 DEF n
    <3>3. \A i \in 1 .. k + 1 : name[new[i].session] = n /\ (new[i].from = PartHead <=> i = 1)
      BY <1>4, <1>6, <3>1, <3>2
    <3>4. QED BY <1>1, <1>3, <1>4, <2>3, <3>3 DEF Begins
  <2>4. QED BY <2>2, <2>3
<1>8. PiecesOf(s)' = PiecesOf(s) \cup {k + 1} /\ \A i \in PiecesOf(s) : i \in 1 .. k
  <2>1. PiecesOf(s)' = {i \in 1 .. k + 1 : new[i].session = s}
    BY <1>1, <1>3, <1>4 DEF PiecesOf, n
  <2>2. PiecesOf(s) = {i \in 1 .. k : new[i].session = s}
    <3>1. CASE mode[s] = "first"
      BY <1>5, <1>4, <3>1
    <3>2. CASE mode[s] = "rest"
      BY <1>6, <3>2 DEF PiecesOf, n
    <3>3. QED BY <3>1, <3>2
  <2>3. QED BY <1>4, <1>6, <2>1, <2>2
<1>9. ASSUME NEW t \in Sessions \ {s}
      PROVE  \/ PiecesOf(t)' = {}
             \/ /\ PiecesOf(t)' = PiecesOf(t)
                /\ \A i \in PiecesOf(t) : file'[name[t]][i] = file[name[t]][i]
  <2>1. CASE name[t] # n
    <3>1. file'[name[t]] = file[name[t]]
      BY <1>1, <1>3, <2>1
    <3>2. QED BY <1>1, <3>1 DEF PiecesOf
  <2>2. CASE name[t] = n
    <3>1. PiecesOf(t)' = {i \in 1 .. k + 1 : new[i].session = t}
      BY <1>1, <1>3, <1>4, <2>2 DEF PiecesOf
    <3>2. PiecesOf(t)' = {i \in 1 .. k : new[i].session = t}
      BY <1>4, <1>6, <3>1
    <3>3. CASE mode[s] = "first"
      BY <1>5, <3>2, <3>3
    <3>4. CASE mode[s] = "rest"
      <4>1. PiecesOf(t) = {i \in 1 .. k : file[n][i].session = t}
        BY <1>6, <2>2, <3>4 DEF PiecesOf
      <4>2. QED BY <1>3, <1>6, <2>2, <3>2, <4>1
    <3>5. QED BY <3>3, <3>4
  <2>3. QED BY <2>1, <2>2

<1>10. \A t \in Sessions \ {s} :
         /\ Ordered(t)' /\ HasLast(t)'
         /\ PiecesOf(t) = {} => PiecesOf(t)' = {}
         /\ \A i \in LastOf(t)' : i \in LastOf(t) /\ file'[name[t]][i] = file[name[t]][i]
  <2> SUFFICES ASSUME NEW t \in Sessions \ {s}
               PROVE  /\ Ordered(t)' /\ HasLast(t)'
                      /\ PiecesOf(t) = {} => PiecesOf(t)' = {}
                      /\ \A i \in LastOf(t)' :
                           i \in LastOf(t) /\ file'[name[t]][i] = file[name[t]][i]
    OBVIOUS
  <2>1. Ordered(t) /\ HasLast(t)
    BY DEF IInv
  <2>2. CASE PiecesOf(t)' = {}
    <3>1. LastOf(t)' = {}
      BY <2>2 DEF LastOf
    <3>2. QED BY <2>2, <3>1 DEF Ordered, HasLast
  <2>3. CASE /\ PiecesOf(t)' = PiecesOf(t)
             /\ \A i \in PiecesOf(t) : file'[name[t]][i] = file[name[t]][i]
    <3>1. LastOf(t)' = LastOf(t)
      BY <2>3 DEF LastOf
    <3>2. HasLast(t)'
      BY <2>1, <2>3, <3>1 DEF HasLast
    <3>3. Ordered(t)'
      BY <1>1, <2>1, <2>3 DEF Ordered
    <3>4. QED BY <2>3, <3>1, <3>2, <3>3 DEF LastOf
  <2>4. QED BY <1>9, <2>2, <2>3
<1>11. \A t \in Sessions \ {s} : file[name[t]] # <<>> => file'[name[t]] # <<>>
  BY <1>3, <1>4, <1>1 DEF Ranges
<1>12. LastOf(s)' = {k + 1}
  <2>1. \A j \in PiecesOf(s)' : j <= k + 1
    BY <1>4, <1>8
  <2>2. \A i \in PiecesOf(s) : ~(k + 1 <= i)
    BY <1>4, <1>8
  <2>3. k + 1 <= k + 1
    BY <1>4
  <2>4. QED BY <1>8, <2>1, <2>2, <2>3 DEF LastOf
<1>13. \A i \in LastOf(s)' : file'[name[s]][i].to = to
  BY <1>3, <1>4, <1>6, <1>12 DEF n
<1>14. Ordered(s)'
  <2> SUFFICES ASSUME NEW i \in PiecesOf(s)', NEW j \in PiecesOf(s)', i < j,
                      \A l \in PiecesOf(s)' : l <= i \/ j <= l
               PROVE  new[j].from = new[i].to
    BY <1>1, <1>3 DEF Ordered, n
  <2>1. i \in PiecesOf(s) /\ i \in 1 .. k
    BY <1>4, <1>8
  <2>2. mode[s] = "rest" /\ new[i] = file[n][i]
    BY <1>6, <2>1
  <2>3. CASE j = k + 1
    <3>1. \A l \in PiecesOf(s) : l <= i
      BY <1>4, <1>8, <2>3
    <3>2. i \in LastOf(s)
      BY <2>1, <3>1 DEF LastOf
    <3>3. file[n][i].to = at[s]
      BY <2>2, <3>2 DEF IInv, Reading, n
    <3>4. QED BY <1>4, <1>6, <2>2, <2>3, <3>3
  <2>4. CASE j \in PiecesOf(s)
    <3>1. new[j] = file[n][j]
      BY <1>6, <1>8, <2>4
    <3>2. file[n][j].from = file[n][i].to
      BY <1>8, <2>1, <2>4 DEF IInv, Ordered, n
    <3>3. QED BY <2>2, <3>1, <3>2
  <2>5. QED BY <1>8, <2>3, <2>4
<1>15. HasLast(s)'
  BY <1>12 DEF HasLast
<1>16. file'[name[s]] # <<>>
  BY <1>3, <1>4 DEF n
<1>17. QED
  BY <1>3, <1>7, <1>10, <1>11, <1>13, <1>14, <1>15, <1>16

-----------------------------------------------------------------------------
LEMMA InitIInv == Init => IInv
<1> SUFFICES ASSUME Init PROVE IInv
  OBVIOUS
<1>1. /\ <<>> \in Seq(Piece) /\ DOMAIN <<>> = {}
      /\ Sizes \subseteq Nat /\ Boundary \in Nat /\ PartHead \in Nat
  BY EmptySeq, UploadAssumption
<1>2. Ranges
  BY <1>1 DEF Init, Ranges
<1>3. \A s \in Sessions : PiecesOf(s) = {}
  BY <1>1, <1>2 DEF Init, PiecesOf, Ranges
<1>4. \A s \in Sessions : Ordered(s) /\ HasLast(s) /\ Reading(s)
  BY <1>3 DEF Init, Ordered, HasLast, Reading
<1>5. \A n \in Names : Begins(n)
  BY <1>1 DEF Init, Begins
<1>6. TypeOK
  <2>1. \A s \in Sessions : prev[s] <= at[s] /\ at[s] <= Body(s)
    <3> SUFFICES ASSUME NEW s \in Sessions PROVE prev[s] <= at[s] /\ at[s] <= Body(s)
      OBVIOUS
    <3>1. Body(s) \in Nat
      BY <1>2, Lengths
    <3>2. QED BY <3>1 DEF Init
  <2>2. QED BY <1>1, <2>1 DEF Init, TypeOK, Modes
<1>7. DiesOnlyIfSplit
  BY DEF Init, DiesOnlyIfSplit
<1>8. QED BY <1>2, <1>4, <1>5, <1>6, <1>7 DEF IInv

(* Steps that leave the files alone.                                       *)
LEMMA FilesKept ==
    ASSUME IInv, UNCHANGED <<name, size, file>>
    PROVE  /\ \A n \in Names : Begins(n)'
           /\ \A s \in Sessions :
                /\ Ordered(s)' /\ HasLast(s)'
                /\ PiecesOf(s)' = PiecesOf(s) /\ LastOf(s)' = LastOf(s)
<1>1. \A s : PiecesOf(s)' = PiecesOf(s)
  BY DEF PiecesOf
<1>2. \A s : LastOf(s)' = LastOf(s)
  BY <1>1 DEF LastOf
<1>3. QED BY <1>1, <1>2 DEF IInv, Begins, Ordered, HasLast

(* Reading of the uploads a step is not about.                             *)
LEMMA ReadingKept ==
    ASSUME IInv, NEW t \in Sessions,
           UNCHANGED <<name, size>>, mode'[t] = mode[t], at'[t] = at[t], prev'[t] = prev[t],
           PiecesOf(t) = {} => PiecesOf(t)' = {},
           file[name[t]] # <<>> => file'[name[t]] # <<>>,
           \A i \in LastOf(t)' : i \in LastOf(t) /\ file'[name[t]][i] = file[name[t]][i]
    PROVE  Reading(t)'
<1>1. Cut(t)' = Cut(t) /\ Body(t)' = Body(t)
  BY DEF Cut, Body
<1>2. Reading(t)
  BY DEF IInv
<1>3. (mode[t] \in {"header", "first"} => at[t] = 0 /\ prev[t] = 0 /\ PiecesOf(t) = {})'
  BY <1>2 DEF Reading
<1>4. (mode[t] = "answered" =>
        /\ file[name[t]] # <<>>
        /\ \A i \in LastOf(t) : file[name[t]][i].to >= PartHead + size[t])'
  BY <1>2 DEF Reading
<1>5. (mode[t] = "rest" =>
        /\ at[t] > PartHead
        /\ at[t] = Body(t) \/ (prev[t] = at[t] - (Buf - Keep) /\ at[t] < Cut(t) + Boundary)
        /\ file[name[t]] # <<>>
        /\ \A i \in LastOf(t) : file[name[t]][i].to = at[t])'
  BY <1>1, <1>2 DEF Reading
<1>6. QED BY <1>3, <1>4, <1>5 DEF Reading

(* What a step that saves a piece leaves to show.                          *)
LEMMA SaveStep ==
    ASSUME IInv, NEW s \in Sessions, up, mode[s] \in {"first", "rest"},
           NEW from \in Nat, NEW to \in Nat,
           mode[s] = "first" <=> from = PartHead,
           mode[s] = "rest" => from = at[s],
           Save(s, from, to), UNCHANGED <<name, size, early, up>>,
           NEW m \in {"rest", "answered"}, NEW a \in Nat, NEW v \in Nat,
           mode' = [mode EXCEPT ![s] = m],
           at' = [at EXCEPT ![s] = a], prev' = [prev EXCEPT ![s] = v],
           v <= a, a <= Body(s),
           m = "rest" =>
               /\ a > PartHead /\ to = a
               /\ a = Body(s) \/ (v = a - (Buf - Keep) /\ a < Cut(s) + Boundary),
           m = "answered" => to >= PartHead + size[s]
    PROVE  IInv'
<1>1. /\ file' \in [Names -> Seq(Piece)]
      /\ \A n \in Names : Begins(n)'
      /\ \A t \in Sessions : Ordered(t)' /\ HasLast(t)'
      /\ file'[name[s]] # <<>>
      /\ \A i \in LastOf(s)' : file'[name[s]][i].to = to
      /\ \A t \in Sessions \ {s} :
           /\ PiecesOf(t) = {} => PiecesOf(t)' = {}
           /\ file[name[t]] # <<>> => file'[name[t]] # <<>>
           /\ \A i \in LastOf(t)' :
               i \in LastOf(t) /\ file'[name[t]][i] = file[name[t]][i]
  BY SaveFacts
<1>2. /\ mode \in [Sessions -> Modes] /\ at \in [Sessions -> Nat] /\ prev \in [Sessions -> Nat]
      /\ mode'[s] = m /\ at'[s] = a /\ prev'[s] = v
      /\ \A t \in Sessions \ {s} :
           mode'[t] = mode[t] /\ at'[t] = at[t] /\ prev'[t] = prev[t]
  BY DEF IInv, TypeOK, Ranges
<1>3. Ranges'
  BY <1>1, <1>2 DEF IInv, Ranges
<1>4. \A t : Cut(t)' = Cut(t) /\ Body(t)' = Body(t)
  BY DEF Cut, Body
<1>5. TypeOK'
  <2>1. mode' \in [Sessions -> Modes]
    BY <1>2 DEF Modes
  <2>2. \A t \in Sessions : prev'[t] <= at'[t] /\ at'[t] <= Body(t)'
    BY <1>2, <1>4 DEF IInv, TypeOK
  <2>3. QED BY <1>1, <2>1, <2>2 DEF IInv, TypeOK
<1>6. \A t \in Sessions \ {s} : Reading(t)'
  BY <1>1, <1>2, ReadingKept
<1>7. Reading(s)'
  BY <1>1, <1>2, <1>4 DEF Reading
<1>8. DiesOnlyIfSplit'
  BY DEF DiesOnlyIfSplit
<1>9. QED
  BY <1>1, <1>3, <1>5, <1>6, <1>7, <1>8 DEF IInv

-----------------------------------------------------------------------------
(* The first read of a body: substr(1000) cannot throw, since a short read *)
(* is the whole body and the boundary is in it.                            *)
LEMMA FirstStep ==
    ASSUME IInv, NEW s \in Sessions, First(s)
    PROVE  IInv'
<1> DEFINE r == ReadTo(s)
           c == Cut(s)
           b == Body(s)
<1>1. /\ Ranges /\ up /\ mode[s] = "first" /\ at[s] = 0 /\ prev[s] = 0
      /\ UNCHANGED <<name, size, early>>
      /\ mode[s] \in {"first", "rest"}
  BY DEF IInv, Reading, First, Reads
<1>2. /\ c \in Nat /\ b \in Nat /\ size[s] \in Nat /\ ContentEnd(s) \in Nat
      /\ c = PartHead + size[s] + 4 /\ b = c + Boundary + 4
      /\ ContentEnd(s) = c - 3
      /\ Buf \in Nat /\ Keep \in Nat /\ Boundary \in Nat /\ PartHead \in Nat
      /\ Keep < Buf /\ PartHead < Buf /\ PartHead > 0
  BY <1>1, Lengths
<1>3. /\ r \in Nat /\ r <= b /\ (r = b \/ r = Buf) /\ (r # b => r = Buf)
  BY <1>1, <1>2, ReadToFacts
<1>4. /\ Found(s, 0, r) <=> c + Boundary <= r
      /\ prev \in [Sessions -> Nat]
  BY <1>1, <1>2 DEF Found, Ranges
<1> HIDE DEF r, c, b
<1>5. CASE Found(s, 0, r)
  <2>1. Finish(s, PartHead, ContentEnd(s))
    BY <1>5 DEF First, r
  <2>2. /\ Save(s, PartHead, ContentEnd(s)) /\ UNCHANGED up
        /\ mode' = [mode EXCEPT ![s] = "answered"]
        /\ at' = [at EXCEPT ![s] = r]
        /\ prev' = [prev EXCEPT ![s] = 0]
    BY <1>1, <1>4, <2>1 DEF Finish, r
  <2>3. 0 <= r /\ ContentEnd(s) >= PartHead + size[s] /\ 0 \in Nat
    BY <1>2, <1>3
  <2>4. r <= Body(s)
    BY <1>3 DEF b
  <2>5. "answered" \in {"rest", "answered"} /\ "answered" # "rest"
    OBVIOUS
  <2>6. mode[s] # "rest"
    BY <1>1
  <2>7. QED BY <1>1, <1>2, <1>3, <2>2, <2>3, <2>4, <2>5, <2>6, SaveStep
<1>6. CASE ~Found(s, 0, r)
  <2>1. GoOn(s, PartHead)
    BY <1>6 DEF First, r
  <2>2. r = Buf /\ r < c + Boundary
    BY <1>2, <1>3, <1>4, <1>6
  <2>3. /\ Save(s, PartHead, r) /\ UNCHANGED up
        /\ mode' = [mode EXCEPT ![s] = "rest"]
        /\ at' = [at EXCEPT ![s] = r]
        /\ prev' = [prev EXCEPT ![s] = Keep]
    <3>1. ~(r < at[s] + Keep) /\ at[s] + Keep = Keep
      BY <1>1, <1>2, <2>2
    <3>2. QED BY <2>1, <3>1 DEF GoOn, r
  <2>4. Keep <= r /\ r > PartHead /\ Keep = r - (Buf - Keep)
    BY <1>2, <2>2
  <2>5. r <= Body(s) /\ r < Cut(s) + Boundary
    BY <1>3, <2>2 DEF b, c
  <2>6. "rest" \in {"rest", "answered"} /\ "rest" # "answered" /\ mode[s] # "rest"
    BY <1>1
  <2>7. QED BY <1>1, <1>2, <1>3, <2>3, <2>4, <2>5, <2>6, SaveStep
<1>7. QED BY <1>5, <1>6

(* A later read.  The boundary is in it, or in what was kept and in it, or *)
(* it is a whole buffer of content - or it is the end of the body, and the *)
(* boundary began before what was kept.                                    *)
LEMMA RestStep ==
    ASSUME IInv, NEW s \in Sessions, Rest(s)
    PROVE  IInv'
<1> DEFINE r == ReadTo(s)
           c == Cut(s)
           b == Body(s)
           a == at[s]
<1>1. /\ Ranges /\ up /\ mode[s] = "rest" /\ a < b
      /\ UNCHANGED <<name, size, early>>
      /\ mode[s] \in {"first", "rest"}
  BY DEF IInv, Rest, Reads
<1>2. /\ c \in Nat /\ b \in Nat /\ size[s] \in Nat /\ ContentEnd(s) \in Nat
      /\ c = PartHead + size[s] + 4 /\ b = c + Boundary + 4
      /\ ContentEnd(s) = c - 3
      /\ Buf \in Nat /\ Keep \in Nat /\ Boundary \in Nat /\ PartHead \in Nat
      /\ Keep < Buf /\ PartHead < Buf /\ PartHead > 0 /\ Boundary + 4 <= Buf
      /\ a \in Nat /\ prev[s] \in Nat
  BY <1>1, Lengths
<1>3. /\ r \in Nat /\ a <= r /\ r <= b /\ (r = b \/ r = a + Buf) /\ (r # b => r = a + Buf)
  BY <1>1, <1>2, ReadToFacts
<1>4. /\ a > PartHead /\ prev[s] <= a
      /\ prev[s] = a - (Buf - Keep) /\ a < c + Boundary
  BY <1>1, <1>2, SMTT(20) DEF IInv, TypeOK, Reading
<1>5. /\ Found(s, a, r) <=> a <= c /\ c + Boundary <= r
      /\ Found(s, prev[s], r) <=> prev[s] <= c /\ c + Boundary <= r
      /\ prev' = prev => prev' = [prev EXCEPT ![s] = prev[s]]
  BY <1>1 DEF Found, Ranges
<1>6. a # PartHead /\ mode[s] # "first" /\ a = at[s]
  BY <1>1, <1>2, <1>4
<1> HIDE DEF r, c, b
<1>7. ASSUME NEW to \in Nat, Finish(s, at[s], to), to >= PartHead + size[s]
      PROVE  IInv'
  <2>1. /\ Save(s, at[s], to) /\ UNCHANGED up
        /\ mode' = [mode EXCEPT ![s] = "answered"]
        /\ at' = [at EXCEPT ![s] = r]
        /\ prev' = [prev EXCEPT ![s] = prev[s]]
    BY <1>5, <1>7 DEF Finish, r
  <2>2. prev[s] <= r /\ at[s] \in Nat
    BY <1>2, <1>3, <1>4
  <2>3. r <= Body(s)
    BY <1>3 DEF b
  <2>4. "answered" \in {"rest", "answered"} /\ "answered" # "rest"
    OBVIOUS
  <2>5. QED BY <1>1, <1>2, <1>3, <1>6, <1>7, <2>1, <2>2, <2>3, <2>4, SaveStep
<1>8. CASE Found(s, a, r)
  <2> DEFINE to == IF ContentEnd(s) < at[s] THEN ReadTo(s) ELSE ContentEnd(s)
  <2>1. Finish(s, at[s], to)
    BY <1>8 DEF Rest, r
  <2>2. to \in Nat /\ to >= PartHead + size[s]
    BY <1>2, <1>3, <1>5, <1>8 DEF r
  <2> HIDE DEF to
  <2>3. QED BY <1>7, <2>1, <2>2
<1>9. CASE ~Found(s, a, r) /\ Found(s, prev[s], r)
  <2>1. Finish(s, at[s], at[s])
    BY <1>9 DEF Rest, r
  <2>2. at[s] \in Nat /\ at[s] >= PartHead + size[s]
    BY <1>2, <1>5, <1>9
  <2>3. QED BY <1>7, <2>1, <2>2
<1>10. CASE ~Found(s, a, r) /\ ~Found(s, prev[s], r)
  <2>1. GoOn(s, at[s])
    BY <1>10 DEF Rest, r
  <2>2. CASE r < at[s] + Keep
    <3>1. UNCHANGED <<name, size, early, mode, at, prev, file>> /\ up' = FALSE
      BY <1>1, <2>1, <2>2 DEF GoOn, r
    <3>2. c < at[s] - (Buf - Keep)
      <4>1. r = b
        BY <1>2, <1>3, <2>2
      <4>2. ~(prev[s] <= c)
        BY <1>2, <1>5, <1>10, <4>1
      <4>3. QED BY <1>2, <1>4, <4>2
    <3>3. DiesOnlyIfSplit'
      BY <1>1, <1>4, <3>1, <3>2 DEF DiesOnlyIfSplit, Cut, c
    <3>4. /\ \A n \in Names : Begins(n)'
          /\ \A t \in Sessions :
               /\ Ordered(t)' /\ HasLast(t)'
               /\ PiecesOf(t)' = PiecesOf(t) /\ LastOf(t)' = LastOf(t)
      BY <3>1, FilesKept
    <3>5. \A t \in Sessions : Reading(t)'
      BY <3>1, <3>4, ReadingKept
    <3>6. TypeOK' /\ Ranges'
      BY <3>1 DEF IInv, TypeOK, Ranges, Body, Cut
    <3>7. QED BY <3>3, <3>4, <3>5, <3>6 DEF IInv
  <2>3. CASE ~(r < at[s] + Keep)
    <3>1. /\ Save(s, at[s], r) /\ UNCHANGED up
          /\ mode' = [mode EXCEPT ![s] = "rest"]
          /\ at' = [at EXCEPT ![s] = r]
          /\ prev' = [prev EXCEPT ![s] = at[s] + Keep]
      BY <2>1, <2>3 DEF GoOn, r
    <3>2. at[s] + Keep <= r /\ r > PartHead /\ at[s] + Keep \in Nat
      BY <1>2, <1>3, <1>4, <2>3
    <3>3. r = b \/ (at[s] + Keep = r - (Buf - Keep) /\ r < c + Boundary)
      <4>1. CASE r # b
        <5>1. at[s] + Keep = r - (Buf - Keep)
          BY <1>2, <1>3, <4>1
        <5>2. r < c + Boundary
          BY <1>2, <1>3, <1>5, <1>10, <4>1
        <5>3. QED BY <5>1, <5>2
      <4>2. QED BY <4>1
    <3>4. /\ r <= Body(s)
          /\ r = Body(s) \/ (at[s] + Keep = r - (Buf - Keep) /\ r < Cut(s) + Boundary)
      BY <1>3, <3>3 DEF b, c
    <3>5. "rest" \in {"rest", "answered"} /\ "rest" # "answered"
      OBVIOUS
    <3>6. QED BY <1>1, <1>2, <1>3, <1>6, <3>1, <3>2, <3>4, <3>5, SaveStep
  <2>4. QED BY <2>2, <2>3
<1>11. QED BY <1>8, <1>9, <1>10

(* Steps that write nothing.                                               *)
LEMMA QuietStep ==
    ASSUME IInv,
           \/ Download \/ UNCHANGED vars
           \/ \E s \in Sessions : Header(s) \/ Break(s)
    PROVE  IInv'
<1>1. UNCHANGED <<name, size, file, at, prev>>
  BY DEF Download, vars, Header, Break, Reads
<1>2. /\ \A n \in Names : Begins(n)'
      /\ \A t \in Sessions :
           /\ Ordered(t)' /\ HasLast(t)'
           /\ PiecesOf(t)' = PiecesOf(t) /\ LastOf(t)' = LastOf(t)
  BY <1>1, FilesKept
<1>3. CASE Download \/ UNCHANGED vars
  <2>1. mode' = mode /\ ((up' = up /\ early' = early) \/ (up' = FALSE /\ early' = TRUE))
    BY <1>3 DEF Download, vars
  <2>2. \A t \in Sessions : Reading(t)'
    BY <1>1, <1>2, <2>1, ReadingKept
  <2>3. TypeOK' /\ Ranges'
    BY <1>1, <2>1 DEF IInv, TypeOK, Ranges, Body, Cut
  <2>4. DiesOnlyIfSplit'
    BY <1>1, <2>1 DEF IInv, DiesOnlyIfSplit, Cut
  <2>5. QED BY <1>2, <2>2, <2>3, <2>4 DEF IInv
<1>4. ASSUME NEW s \in Sessions, Header(s) \/ Break(s) PROVE IInv'
  <2>1. PICK m \in {"first", "gone"} :
          /\ mode' = [mode EXCEPT ![s] = m]
          /\ m = "first" => mode[s] = "header"
    BY <1>4 DEF Header, Break, Reads
  <2>2. up /\ up' = up /\ early' = early
    BY <1>4 DEF Header, Break, Reads
  <2>3. mode' \in [Sessions -> Modes] /\ mode'[s] = m
        /\ \A t \in Sessions \ {s} : mode'[t] = mode[t]
    BY <2>1 DEF IInv, TypeOK, Modes
  <2>4. \A t \in Sessions \ {s} : Reading(t)'
    BY <1>1, <1>2, <2>3, ReadingKept
  <2>5. Reading(s)'
    <3>1. Reading(s)
      BY DEF IInv
    <3>2. QED BY <1>1, <1>2, <2>1, <2>3, <3>1 DEF Reading
  <2>6. TypeOK' /\ Ranges'
    BY <1>1, <2>2, <2>3 DEF IInv, TypeOK, Ranges, Body, Cut
  <2>7. DiesOnlyIfSplit'
    BY <2>2 DEF DiesOnlyIfSplit
  <2>8. QED BY <1>2, <2>4, <2>5, <2>6, <2>7 DEF IInv
<1>5. QED BY <1>3, <1>4

LEMMA StepIInv == IInv /\ [Next]_vars => IInv'
BY FirstStep, RestStep, QuietStep DEF Next, Read

(* What the file server keeps: the strengthened invariant.                 *)
THEOREM Inductive == Spec => []IInv
BY InitIInv, StepIInv, PTL DEF Spec

(* The positions of a session stay in the body it reads, and files hold    *)
(* pieces.                                                                 *)
THEOREM TypeCorrect == Spec => []TypeOK
<1>1. IInv => TypeOK
  BY DEF IInv
<1>2. QED BY Inductive, <1>1, PTL

(* However uploads of one name interleave and cut each other off, what a   *)
(* file holds of each is one range of its body, in order, after the        *)
(* beginning of the one that began last.                                   *)
THEOREM FilesAreOrdered == Spec => []PiecesInOrder
<1>1. IInv => PiecesInOrder
  <2>1. IInv => \A n \in Names : \A i \in DOMAIN file[n] : file[n][i].from = PartHead <=> i = 1
    BY DEF IInv, Begins
  <2>2. IInv => \A s \in Sessions : Ordered(s)
    BY DEF IInv
  <2>3. QED BY <2>1, <2>2 DEF PiecesInOrder, Ordered
<1>2. QED BY Inductive, <1>1, PTL

(* do_read loses nothing of an upload that it answered and that no later   *)
(* one cut off, wherever the reads split its boundary.                     *)
THEOREM AnswersAreWhole == Spec => []AnsweredWhole
<1>1. IInv => AnsweredWhole
  <2> SUFFICES ASSUME IInv, NEW s \in Sessions, mode[s] = "answered",
                      Head(file[name[s]]).session = s
               PROVE  /\ file[name[s]][1].from = PartHead
                      /\ \E i \in PiecesOf(s) :
                           /\ \A j \in PiecesOf(s) : j <= i
                           /\ file[name[s]][i].to >= PartHead + size[s]
    BY DEF AnsweredWhole
  <2>1. /\ Reading(s) /\ HasLast(s) /\ Begins(name[s]) /\ name[s] \in Names
        /\ file[name[s]] \in Seq(Piece)
    BY DEF IInv, Ranges
  <2>2. file[name[s]] # <<>>
    BY <2>1 DEF Reading
  <2>3. 1 \in DOMAIN file[name[s]] /\ Head(file[name[s]]) = file[name[s]][1]
    BY <2>1, <2>2, LenProperties, HeadTailProperties
  <2>4. 1 \in PiecesOf(s)
    BY <2>3 DEF PiecesOf
  <2>5. PICK i : i \in LastOf(s)
    BY <2>1, <2>4 DEF HasLast
  <2>6. file[name[s]][i].to >= PartHead + size[s]
    BY <2>1, <2>5 DEF Reading
  <2>7. file[name[s]][1].from = PartHead
    BY <2>1, <2>3 DEF Begins
  <2>8. QED BY <2>5, <2>6, <2>7 DEF LastOf
<1>2. QED BY Inductive, <1>1, PTL

(* The process ends only for a download before anything was uploaded or    *)
(* for a boundary that began before what previousRead keeps of a read.     *)
THEOREM DiesOnlyForASplit == Spec => []DiesOnlyIfSplit
<1>1. IInv => DiesOnlyIfSplit
  BY DEF IInv
<1>2. QED BY Inductive, <1>1, PTL
=============================================================================
