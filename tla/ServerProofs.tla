---------------------------- MODULE ServerProofs ----------------------------
(***************************************************************************)
(* Theorems about Server: the keys a whitelist is read to hold, for every  *)
(* text of it, and what a server's key file keeps over the lives of its    *)
(* process, for any number of lives, key pairs and addresses.              *)
(*                                                                         *)
(* The first part reads the two files, by induction over their lines; the  *)
(* second follows the process.                                             *)
(***************************************************************************)
EXTENDS Server, Loops

-----------------------------------------------------------------------------
(* The whitelist of another server, as CheckServerSignature reads it.      *)
Texts == Keys \cup Remarks \cup Markers

LEMMA TextFacts ==
    /\ BeginPublic \in Texts /\ EndPublic \in Texts /\ BeginPrivate \in Texts /\ EndPrivate \in Texts
    /\ BeginPublic # EndPublic /\ BeginPublic # BeginPrivate /\ BeginPublic # EndPrivate
    /\ EndPublic # BeginPrivate /\ EndPublic # EndPrivate
    /\ \A k \in Keys : k \in Texts /\ k # NoPrint /\ k \notin Markers
    /\ \A k \in Keys : k # BeginPublic /\ k # EndPublic /\ k # BeginPrivate /\ k # EndPrivate
BY ServerAssumption DEF Texts, Markers, BeginPublic, EndPublic, BeginPrivate, EndPrivate

(* The first block of a text.                                              *)
FirstBlock(s, b, k) ==
    /\ b \in DOMAIN s /\ b + 2 \in DOMAIN s
    /\ s[b] = BeginPublic /\ s[b + 1] = k /\ s[b + 2] = EndPublic
    /\ \A j \in DOMAIN s : s[j] = BeginPublic => b <= j

LEMMA FingerprintOf ==
    ASSUME NEW s \in Seq(Texts)
    PROVE  /\ CreateFingerprint(s) \in Keys \cup {NoPrint}
           /\ \A k \in Keys : CreateFingerprint(s) = k <=> \E b \in Nat : FirstBlock(s, b, k)
<1> DEFINE n == Len(s)
           begins == {i \in DOMAIN s : s[i] = BeginPublic}
           Has(i) == /\ \A j \in begins : i <= j
                     /\ i + 2 \in DOMAIN s
                     /\ s[i + 1] \in Keys
                     /\ s[i + 2] = EndPublic
           first == CHOOSE i \in begins : \A j \in begins : i <= j
<1>1. n \in Nat /\ DOMAIN s = 1 .. n
  OBVIOUS
<1>2. ASSUME NEW i \in begins, \A j \in begins : i <= j PROVE first = i
  BY <1>1, <1>2
<1>3. CASE \E i \in begins : Has(i)
  <2>1. PICK i \in begins : Has(i)
    BY <1>3
  <2>2. first = i
    BY <1>2, <2>1
  <2>3. CreateFingerprint(s) = s[i + 1]
    BY <1>3, <2>2 DEF CreateFingerprint
  <2>4. i \in Nat /\ FirstBlock(s, i, s[i + 1])
    BY <1>1, <2>1 DEF FirstBlock
  <2>5. ASSUME NEW k \in Keys, NEW b \in Nat, FirstBlock(s, b, k) PROVE s[i + 1] = k
    <3>1. b \in begins /\ b <= i /\ i <= b
      BY <1>1, <2>1, <2>5 DEF FirstBlock
    <3>2. b = i
      BY <1>1, <3>1
    <3>3. QED BY <2>5, <3>2 DEF FirstBlock
  <2>6. QED BY <2>1, <2>3, <2>4, <2>5
<1>4. CASE ~\E i \in begins : Has(i)
  <2>1. CreateFingerprint(s) = NoPrint
    BY <1>4 DEF CreateFingerprint
  <2>2. ASSUME NEW k \in Keys, NEW b \in Nat, FirstBlock(s, b, k) PROVE FALSE
    <3>1. b \in begins /\ Has(b)
      BY <1>1, <2>2 DEF FirstBlock
    <3>2. QED BY <1>4, <3>1
  <2>3. QED BY <2>1, <2>2, TextFacts
<1>5. QED BY <1>3, <1>4

(* What has been read after some lines: the text since the last end marker *)
(* and the fingerprints so far.                                            *)
Readings == [key : Seq(Texts), prints : SUBSET (Keys \cup {NoPrint})]

LEMMA WhitelistLineType ==
    ASSUME NEW r \in Readings, NEW line \in Texts
    PROVE  /\ WhitelistLine(r, line) \in Readings
           /\ line = EndPublic =>
                /\ WhitelistLine(r, line).key = <<>>
                /\ WhitelistLine(r, line).prints =
                       r.prints \cup {CreateFingerprint(Append(r.key, line))}
           /\ line # EndPublic =>
                /\ WhitelistLine(r, line).key = Append(r.key, line)
                /\ WhitelistLine(r, line).prints = r.prints
<1>1. Append(r.key, line) \in Seq(Texts)
  BY DEF Readings
<1>2. CreateFingerprint(Append(r.key, line)) \in Keys \cup {NoPrint}
  BY <1>1, FingerprintOf
<1>3. CASE line = EndPublic
  BY <1>2, <1>3 DEF WhitelistLine, Readings
<1>4. CASE line # EndPublic
  BY <1>1, <1>4 DEF WhitelistLine, Readings
<1>5. QED BY <1>3, <1>4

(* The loop over the lines of the whitelist.                               *)
LEMMA WhitelistLoop ==
    ASSUME NEW w \in Seq(Texts)
    PROVE  \E got :
             /\ got[0] = [key |-> <<>>, prints |-> {}]
             /\ \A i \in 0 .. Len(w) : got[i] \in Readings
             /\ \A i \in 1 .. Len(w) : got[i] = WhitelistLine(got[i - 1], w[i])
             /\ WhitelistedPrints(w) = got[Len(w)].prints
<1> DEFINE n == Len(w)
           base == [key |-> <<>>, prints |-> {}]
           Is(f) == f = [i \in 0 .. n |-> IF i = 0 THEN base ELSE WhitelistLine(f[i - 1], w[i])]
           F == CHOOSE f : Is(f)
           G == [p \in (1 .. n) \X Readings |-> WhitelistLine(p[2], w[p[1]])]
<1>1. n \in Nat /\ \A i \in 1 .. n : w[i] \in Texts
  OBVIOUS
<1>2. base \in Readings
  BY DEF Readings
<1>3. G \in [(1 .. n) \X Readings -> Readings]
  BY <1>1, WhitelistLineType
<1>4. \A i \in 1 .. n : \A r \in Readings : G[<<i, r>>] = WhitelistLine(r, w[i])
  OBVIOUS
<1> HIDE DEF G, base
<1>5. \E f : Is(f)
  <2>1. PICK f \in [0 .. n -> Readings] : Loop(n, base, G, f)
    BY <1>1, <1>2, <1>3, LoopExists
  <2>2. ASSUME NEW i \in 1 .. n PROVE f[i] = WhitelistLine(f[i - 1], w[i])
    <3>1. f[i] = G[<<i, f[i - 1]>>] /\ f[i - 1] \in Readings
      BY <1>1, <2>1 DEF Loop
    <3>2. QED BY <1>4, <3>1
  <2>3. f[0] = base
    BY <2>1 DEF Loop
  <2>4. Is(f)
    BY <1>1, <2>2, <2>3
  <2>5. QED BY <2>4
<1>6. Is(F)
  <2> HIDE DEF Is
  <2>1. QED BY <1>5
<1>7. F[0] = base /\ \A i \in 1 .. n : F[i] = WhitelistLine(F[i - 1], w[i])
  <2> HIDE DEF F
  <2>1. F = [i \in 0 .. n |-> IF i = 0 THEN base ELSE WhitelistLine(F[i - 1], w[i])]
    BY <1>6
  <2> HIDE DEF Is
  <2>2. QED BY <1>1, <2>1
<1>8. WhitelistedPrints(w) = F[n].prints
  BY Zenon DEF WhitelistedPrints, base
<1> HIDE DEF F
<1>9. \A i \in 1 .. n : F[i - 1] \in Readings => F[i] = G[<<i, F[i - 1]>>]
  BY <1>4, <1>7
<1>10. \A i \in 0 .. n : F[i] \in Readings
  <2>1. n \in Nat
    BY <1>1
  <2>2. F[0] = base
    BY <1>7
  <2> HIDE DEF n
  <2>3. QED BY <2>1, <1>2, <1>3, <2>2, <1>9, LoopStays, ZenonT(120)
<1>11. QED BY <1>7, <1>8, <1>10 DEF base

(* k is written in the first i lines of w: in a block of its own, which no *)
(* block left open above it swallows.                                      *)
Block(w, b, k) ==
    /\ w[b] = BeginPublic /\ w[b + 1] = k /\ w[b + 2] = EndPublic
    /\ \A j \in 1 .. b - 1 : w[j] = BeginPublic =>
           \E m \in 1 .. b - 1 : m > j /\ w[m] = EndPublic

Written(w, i, k) == \E b \in 1 .. i - 2 : Block(w, b, k)

(* One of the first i lines is an end marker that ends no key.             *)
Ends(w, i, k) == i - 2 \in 1 .. i - 2 /\ Block(w, i - 2, k)

EndsNone(w, i) ==
    \E e \in 1 .. i : w[e] = EndPublic /\ \A k \in Keys : ~Ends(w, e, k)

(* What has been read of the first i lines is the text since the last end  *)
(* marker, and the keys that are written in them, or that there is none.   *)
ReadSoFar(w, i, r) ==
    /\ \E e \in 0 .. i :
         /\ e = 0 \/ w[e] = EndPublic
         /\ \A j \in e + 1 .. i : w[j] # EndPublic
         /\ Len(r.key) = i - e
         /\ \A j \in 1 .. i - e : r.key[j] = w[e + j]
    /\ \A k \in Keys : k \in r.prints <=> Written(w, i, k)
    /\ NoPrint \in r.prints <=> EndsNone(w, i)

(* A line that ends no key adds to the text, and no key.                   *)
LEMMA ReadOn ==
    ASSUME NEW w \in Seq(Texts), NEW i \in 0 .. Len(w) - 1, NEW r \in Readings,
           ReadSoFar(w, i, r), w[i + 1] # EndPublic
    PROVE  ReadSoFar(w, i + 1, WhitelistLine(r, w[i + 1]))
<1> DEFINE x == w[i + 1]
           q == WhitelistLine(r, x)
<1>1. x \in Texts /\ i \in Nat
  OBVIOUS
<1>2. q.key = Append(r.key, x) /\ q.prints = r.prints
  BY <1>1, WhitelistLineType
<1>3. r.key \in Seq(Texts)
  BY DEF Readings
<1>4. PICK e \in 0 .. i :
         /\ e = 0 \/ w[e] = EndPublic
         /\ \A j \in e + 1 .. i : w[j] # EndPublic
         /\ Len(r.key) = i - e
         /\ \A j \in 1 .. i - e : r.key[j] = w[e + j]
  BY DEF ReadSoFar
<1> HIDE DEF q
<1>5. Len(q.key) = i + 1 - e
  BY <1>2, <1>3, <1>4
<1>6. ASSUME NEW j \in 1 .. i + 1 - e PROVE q.key[j] = w[e + j]
  <2>1. CASE j \in 1 .. i - e
    <3>1. q.key[j] = r.key[j]
      BY <1>2, <1>3, <1>4, <2>1
    <3>2. QED BY <1>4, <2>1, <3>1
  <2>2. CASE j = i + 1 - e
    <3>1. Append(r.key, x)[Len(r.key) + 1] = x
      <4> HIDE DEF x
      <4>1. QED BY <1>1, <1>3, AppendProperties
    <3>2. j = Len(r.key) + 1 /\ w[e + j] = x
      BY <1>1, <1>4, <2>2
    <3>3. QED
      <4> HIDE DEF x
      <4>1. QED BY <1>2, <3>1, <3>2
  <2>3. QED BY <2>1, <2>2
<1>7. \A j \in e + 1 .. i + 1 : w[j] # EndPublic
  BY <1>4
<1>8. ASSUME NEW k \in Keys PROVE Written(w, i + 1, k) <=> Written(w, i, k)
  <2>1. ASSUME NEW b \in 1 .. i + 1 - 2, Block(w, b, k) PROVE b \in 1 .. i - 2
    <3>1. w[b + 2] = EndPublic
      BY <2>1 DEF Block
    <3>2. QED BY <3>1
  <2>2. QED BY <2>1 DEF Written
<1>9. \A k \in Keys : k \in q.prints <=> Written(w, i + 1, k)
  BY <1>2, <1>8 DEF ReadSoFar
<1>10. e \in 0 .. i + 1
  OBVIOUS
<1>11. NoPrint \in q.prints <=> EndsNone(w, i + 1)
  <2>1. \A j : j \in 1 .. i + 1 /\ w[j] = EndPublic <=> j \in 1 .. i /\ w[j] = EndPublic
    OBVIOUS
  <2>2. QED BY <1>2, <2>1 DEF ReadSoFar, EndsNone
<1> HIDE DEF x
<1> HIDE DEF q
<1>12. ASSUME NEW n, n = i + 1 PROVE ReadSoFar(w, n, q)
  <2>1. \E f \in 0 .. n :
          /\ f = 0 \/ w[f] = EndPublic
          /\ \A j \in f + 1 .. n : w[j] # EndPublic
          /\ Len(q.key) = n - f
          /\ \A j \in 1 .. n - f : q.key[j] = w[f + j]
    BY <1>4, <1>5, <1>6, <1>7, <1>10, <1>12
  <2>2. \A k \in Keys : k \in q.prints <=> Written(w, n, k)
    BY <1>9, <1>12, Zenon
  <2>3. NoPrint \in q.prints <=> EndsNone(w, n)
    BY <1>11, <1>12, Zenon
  <2>4. QED BY <2>1, <2>2, <2>3, Zenon DEF ReadSoFar
<1>13. QED BY <1>12, Zenon DEF q, x

(* A line that ends a key starts the text afresh and adds the key it ends, *)
(* if that is written.                                                     *)
LEMMA ReadEnd ==
    ASSUME NEW w \in Seq(Texts), NEW i \in 0 .. Len(w) - 1, NEW r \in Readings,
           ReadSoFar(w, i, r), w[i + 1] = EndPublic
    PROVE  ReadSoFar(w, i + 1, WhitelistLine(r, w[i + 1]))
<1> DEFINE x == w[i + 1]
           q == WhitelistLine(r, x)
           s == Append(r.key, x)
<1>1. x \in Texts /\ i \in Nat /\ r.key \in Seq(Texts)
  BY DEF Readings
<1>2. q.key = <<>> /\ q.prints = r.prints \cup {CreateFingerprint(s)}
  BY <1>1, WhitelistLineType
<1>4. PICK e \in 0 .. i :
         /\ e = 0 \/ w[e] = EndPublic
         /\ \A j \in e + 1 .. i : w[j] # EndPublic
         /\ Len(r.key) = i - e
         /\ \A j \in 1 .. i - e : r.key[j] = w[e + j]
  BY DEF ReadSoFar
<1>5. /\ s \in Seq(Texts) /\ Len(s) = i + 1 - e /\ DOMAIN s = 1 .. i + 1 - e
      /\ \A j \in 1 .. i + 1 - e : s[j] = w[e + j]
  BY <1>1, <1>4
<1> HIDE DEF q, s
<1>6. ASSUME NEW k \in Keys
      PROVE  CreateFingerprint(s) = k <=> i - 1 \in 1 .. i - 1 /\ Block(w, i - 1, k)
  <2>1. ASSUME NEW b \in Nat, FirstBlock(s, b, k)
        PROVE  i - 1 \in 1 .. i - 1 /\ Block(w, i - 1, k)
    <3>1. b \in 1 .. i - 1 - e /\ w[e + b] = BeginPublic /\ w[e + b + 1] = k
                               /\ w[e + b + 2] = EndPublic
      BY <1>5, <2>1 DEF FirstBlock
    <3>2. e + b + 2 = i + 1
      <4>1. ~(e + b + 2 \in e + 1 .. i)
        BY <1>4, <3>1
      <4>2. QED BY <3>1, <4>1
    <3>3. ASSUME NEW j \in 1 .. i - 1 - 1, w[j] = BeginPublic
          PROVE  \E m \in 1 .. i - 1 - 1 : m > j /\ w[m] = EndPublic
      <4>1. CASE j > e
        <5>1. j - e \in DOMAIN s /\ s[j - e] = BeginPublic
          BY <1>5, <3>3, <4>1
        <5>2. b <= j - e
          BY <2>1, <5>1 DEF FirstBlock
        <5>3. QED BY <3>2, <5>2
      <4>2. CASE ~(j > e)
        <5>1. e # 0 /\ w[e] = EndPublic
          BY <1>4, <4>2
        <5>2. j # e
          BY <3>3, <5>1, TextFacts
        <5>3. e \in 1 .. i - 1 - 1
          BY <3>1, <3>2, <5>1
        <5>4. QED BY <4>2, <5>1, <5>2, <5>3
      <4>3. QED BY <4>1, <4>2
    <3>4. QED BY <3>1, <3>2, <3>3 DEF Block
  <2>2. ASSUME i - 1 \in 1 .. i - 1, Block(w, i - 1, k)
        PROVE  \E b \in Nat : FirstBlock(s, b, k)
    <3>1. /\ w[i - 1] = BeginPublic /\ w[i] = k
          /\ \A j \in 1 .. i - 2 : w[j] = BeginPublic =>
                \E m \in 1 .. i - 2 : m > j /\ w[m] = EndPublic
      BY <1>1, <2>2 DEF Block
    <3>2. e # i /\ e # i - 1
      BY <1>4, <2>2, <3>1, TextFacts
    <3>3. i - 1 - e \in 1 .. i - 1 - e /\ e < i - 1
      BY <2>2, <3>2
    <3>4. ASSUME NEW j \in DOMAIN s, s[j] = BeginPublic PROVE i - 1 - e <= j
      <4> SUFFICES ASSUME j < i - 1 - e PROVE FALSE
        BY <1>5
      <4>1. e + j \in 1 .. i - 2 /\ w[e + j] = BeginPublic
        BY <1>5, <3>4
      <4>2. PICK m \in 1 .. i - 2 : m > e + j /\ w[m] = EndPublic
        BY <3>1, <4>1
      <4>3. m \in e + 1 .. i
        BY <1>5, <4>2
      <4>4. QED BY <1>4, <4>2, <4>3
    <3>5. /\ i - 1 - e \in DOMAIN s /\ i - 1 - e + 2 \in DOMAIN s
          /\ s[i - 1 - e] = BeginPublic /\ s[i - 1 - e + 1] = k
          /\ s[i - 1 - e + 2] = EndPublic
      BY <1>5, <3>1, <3>3
    <3>6. FirstBlock(s, i - 1 - e, k)
      BY <3>4, <3>5 DEF FirstBlock
    <3>7. QED BY <3>3, <3>6
  <2>3. QED BY <1>5, <2>1, <2>2, FingerprintOf
<1>7. ASSUME NEW k \in Keys PROVE k \in q.prints <=> Written(w, i + 1, k)
  <2>1. Written(w, i + 1, k) <=> Written(w, i, k) \/ (i - 1 \in 1 .. i - 1 /\ Block(w, i - 1, k))
    <3>1. \A b : b \in 1 .. i + 1 - 2 <=> b \in 1 .. i - 2 \/ (b = i - 1 /\ i - 1 \in 1 .. i - 1)
      OBVIOUS
    <3>2. QED BY <3>1 DEF Written
  <2>2. k \in q.prints <=> k \in r.prints \/ CreateFingerprint(s) = k
    BY <1>2
  <2>3. QED BY <1>6, <2>1, <2>2 DEF ReadSoFar
<1>8. /\ i + 1 \in 0 .. i + 1
      /\ \A j \in i + 1 + 1 .. i + 1 : w[j] # EndPublic
      /\ Len(q.key) = i + 1 - (i + 1)
      /\ \A j \in 1 .. i + 1 - (i + 1) : q.key[j] = w[i + 1 + j]
  BY <1>2
<1>9. NoPrint \in q.prints <=> EndsNone(w, i + 1)
  <2>1. CreateFingerprint(s) = NoPrint <=> \A k \in Keys : CreateFingerprint(s) # k
    BY <1>5, FingerprintOf, TextFacts
  <2>2. (i + 1) - 2 = i - 1
    OBVIOUS
  <2>3. \A k \in Keys : CreateFingerprint(s) = k <=> Ends(w, i + 1, k)
    BY <1>6, <2>2 DEF Ends
  <2>4. \A j : j \in 1 .. i + 1 <=> j \in 1 .. i \/ j = i + 1
    OBVIOUS
  <2>5. EndsNone(w, i + 1) <=> EndsNone(w, i) \/ \A k \in Keys : ~Ends(w, i + 1, k)
    BY <2>4 DEF EndsNone
  <2>6. QED BY <1>2, <2>1, <2>3, <2>5 DEF ReadSoFar
<1> HIDE DEF x
<1>10. ReadSoFar(w, i + 1, q)
  BY <1>1, <1>7, <1>8, <1>9 DEF ReadSoFar
<1>11. QED BY <1>10 DEF q, x

(* Of all the whitelist holds, the keys that are written in it are read,   *)
(* and an end marker that ends none.                                       *)
LEMMA WhitelistReads ==
    ASSUME NEW w \in Seq(Texts)
    PROVE  /\ \A k \in Keys : k \in WhitelistedPrints(w) <=> Written(w, Len(w), k)
           /\ NoPrint \in WhitelistedPrints(w) <=> EndsNone(w, Len(w))
<1> DEFINE n == Len(w)
<1>1. PICK got :
        /\ got[0] = [key |-> <<>>, prints |-> {}]
        /\ \A i \in 0 .. n : got[i] \in Readings
        /\ \A i \in 1 .. n : got[i] = WhitelistLine(got[i - 1], w[i])
        /\ WhitelistedPrints(w) = got[n].prints
  BY WhitelistLoop
<1> DEFINE T == {i \in 0 .. n : ReadSoFar(w, i, got[i])}
<1>2. n \in Nat
  OBVIOUS
<1>3. 0 \in T
  <2>1. got[0].key = <<>> /\ got[0].prints = {}
    <3>1. got[0] = [key |-> <<>>, prints |-> {}]
      BY <1>1
    <3>2. QED BY <3>1
  <2>2. \A q \in Keys : ~Written(w, 0, q)
    BY DEF Written
  <2>3. ReadSoFar(w, 0, got[0])
    <3>1. /\ \A q \in Keys : q \in got[0].prints <=> Written(w, 0, q)
          /\ NoPrint \in got[0].prints <=> EndsNone(w, 0)
      BY <2>1, <2>2 DEF EndsNone
    <3>2. /\ 0 \in 0 .. 0 /\ \A j \in 0 + 1 .. 0 : w[j] # EndPublic
          /\ Len(got[0].key) = 0 - 0
          /\ \A j \in 1 .. 0 - 0 : got[0].key[j] = w[0 + j]
      BY <2>1
    <3>3. QED BY <3>1, <3>2 DEF ReadSoFar
  <2>4. QED BY <1>2, <2>3
<1>4. ASSUME NEW i \in 1 .. n, i - 1 \in T PROVE i \in T
  <2>1. /\ i - 1 \in 0 .. n - 1 /\ (i - 1) + 1 = i
        /\ got[i - 1] \in Readings /\ ReadSoFar(w, i - 1, got[i - 1])
        /\ got[i] = WhitelistLine(got[i - 1], w[i])
    BY <1>1, <1>2, <1>4
  <2>2. PICK j \in 0 .. n - 1 : j = i - 1
    BY <2>1
  <2>3. ReadSoFar(w, j + 1, WhitelistLine(got[j], w[j + 1]))
    BY <2>1, <2>2, ReadOn, ReadEnd
  <2>4. QED BY <2>1, <2>2, <2>3
<1>5. \A i \in 0 .. n : i \in T
  <2> HIDE DEF T
  <2>1. QED BY <1>2, <1>3, <1>4, RoundInduction
<1>6. ReadSoFar(w, n, got[n])
  BY <1>2, <1>5
<1>7. QED BY <1>1, <1>6 DEF ReadSoFar

(* A key stays written below what is added to the whitelist, ...           *)
LEMMA WrittenStays ==
    ASSUME NEW w \in Seq(Texts), NEW v \in Seq(Texts), NEW k \in Keys,
           Written(w, Len(w), k)
    PROVE  Written(w \o v, Len(w \o v), k)
<1> DEFINE u == w \o v
<1>1. /\ Len(w) \in Nat /\ Len(u) \in Nat /\ Len(w) <= Len(u)
      /\ \A i \in 1 .. Len(w) : u[i] = w[i]
  OBVIOUS
<1>2. PICK b \in 1 .. Len(w) - 2 : Block(w, b, k)
  BY DEF Written
<1> HIDE DEF u
<1>3. Block(u, b, k)
  <2>1. u[b] = w[b] /\ u[b + 1] = w[b + 1] /\ u[b + 2] = w[b + 2]
    BY <1>1
  <2>2. \A j \in 1 .. b - 1 : u[j] = w[j]
    BY <1>1
  <2>3. QED BY <1>2, <2>1, <2>2 DEF Block
<1>4. b \in 1 .. Len(u) - 2
  BY <1>1
<1>5. Written(u, Len(u), k)
  BY <1>3, <1>4 DEF Written
<1>6. QED BY <1>5 DEF u

(* ... and one copied below a text that leaves no block open is written.   *)
LEMMA WrittenWhenCopied ==
    ASSUME NEW w \in Seq(Texts), NEW k \in Keys, Closed(w)
    PROVE  Written(w \o PublicPem(k), Len(w \o PublicPem(k)), k)
<1> DEFINE u == w \o PublicPem(k)
           n == Len(w)
<1>1. PublicPem(k) \in Seq(Texts) /\ Len(PublicPem(k)) = 3
  BY TextFacts DEF PublicPem
<1>2. /\ n \in Nat /\ DOMAIN w = 1 .. n /\ Len(u) = n + 3
      /\ \A i \in 1 .. n : u[i] = w[i]
      /\ u[n + 1] = BeginPublic /\ u[n + 2] = k /\ u[n + 3] = EndPublic
  BY <1>1 DEF PublicPem
<1> HIDE DEF u, n
<1>3. Block(u, n + 1, k)
  BY <1>2 DEF Block, Closed
<1>4. Written(u, n + 3, k)
  BY <1>2, <1>3 DEF Written
<1>5. QED BY <1>2, <1>4 DEF u

LEMMA BlockIs ==
    ASSUME NEW w \in Seq(Texts), NEW k \in Keys, NEW b \in 1 .. Len(w) - 2
    PROVE  BlockAt(w, b, k) <=> Block(w, b, k)
<1> DEFINE n == Len(w)
<1>1. n \in Nat
  OBVIOUS
<1> SUFFICES /\ SubSeq(w, b, b + 2) = PublicPem(k)
                   <=> w[b] = BeginPublic /\ w[b + 1] = k /\ w[b + 2] = EndPublic
             /\ Closed(SubSeq(w, 1, b - 1))
                   <=> \A j \in 1 .. b - 1 : w[j] = BeginPublic =>
                           \E m \in 1 .. b - 1 : m > j /\ w[m] = EndPublic
  BY DEF BlockAt, Block
<1>2. /\ SubSeq(w, b, b + 2) \in Seq(Texts) /\ Len(SubSeq(w, b, b + 2)) = 3
      /\ SubSeq(w, b, b + 2)[1] = w[b] /\ SubSeq(w, b, b + 2)[2] = w[b + 1]
      /\ SubSeq(w, b, b + 2)[3] = w[b + 2]
  <2>1. \A i \in b .. b + 2 : w[i] \in Texts
    BY <1>1
  <2>2. /\ SubSeq(w, b, b + 2) \in Seq(Texts)
        /\ Len(SubSeq(w, b, b + 2)) = b + 2 - b + 1
        /\ \A i \in 1 .. b + 2 - b + 1 : SubSeq(w, b, b + 2)[i] = w[b + i - 1]
    BY <1>1, <2>1, SubSeqProperties
  <2>3. QED BY <1>1, <2>2
<1>3. /\ SubSeq(w, 1, b - 1) \in Seq(Texts) /\ Len(SubSeq(w, 1, b - 1)) = b - 1
      /\ DOMAIN SubSeq(w, 1, b - 1) = 1 .. b - 1
      /\ \A j \in 1 .. b - 1 : SubSeq(w, 1, b - 1)[j] = w[j]
  BY <1>1, SubSeqProperties
<1> DEFINE p == SubSeq(w, b, b + 2)
           c == SubSeq(w, 1, b - 1)
<1>4. /\ PublicPem(k) \in Seq(Texts) /\ Len(PublicPem(k)) = 3
      /\ PublicPem(k)[1] = BeginPublic /\ PublicPem(k)[2] = k /\ PublicPem(k)[3] = EndPublic
  BY TextFacts DEF PublicPem
<1> HIDE DEF p, c
<1>5. p = PublicPem(k) <=> p[1] = BeginPublic /\ p[2] = k /\ p[3] = EndPublic
  <2> DEFINE pem == PublicPem(k)
  <2> HIDE DEF pem
  <2>1. ASSUME p[1] = pem[1], p[2] = pem[2], p[3] = pem[3] PROVE p = pem
    <3>1. \A i \in 1 .. 3 : p[i] = pem[i]
      BY <2>1
    <3>2. QED BY <1>2, <1>4, <3>1, SeqEqual DEF p, pem
  <2>2. QED BY <1>4, <2>1 DEF pem
<1>6. QED BY <1>2, <1>3, <1>5, ZenonT(120) DEF p, c, Closed

LEMMA ListedIsWritten ==
    ASSUME Lines(whitelist) \in Seq(Texts)
    PROVE  /\ \A k \in Keys :
                  Listed(k) <=> Written(Lines(whitelist), Len(Lines(whitelist)), k)
           /\ Garbled <=> EndsNone(Lines(whitelist), Len(Lines(whitelist)))
<1> DEFINE w == Lines(whitelist)
<1>1. w \in Seq(Texts) /\ Len(w) \in Nat /\ DOMAIN w = 1 .. Len(w)
  OBVIOUS
<1> HIDE DEF w
<1>2. \A k \in Keys : Listed(k) <=> Written(w, Len(w), k)
  BY <1>1, BlockIs DEF Listed, Written, w
<1>3. ASSUME NEW i \in 1 .. Len(w), NEW k \in Keys
      PROVE  (i > 2 => ~BlockAt(w, i - 2, k)) <=> ~Ends(w, i, k)
  <2>1. CASE i > 2
    <3>1. i - 2 \in 1 .. Len(w) - 2 /\ i - 2 \in 1 .. i - 2
      BY <1>1, <2>1
    <3>2. QED BY <1>1, <2>1, <3>1, BlockIs DEF Ends
  <2>2. CASE ~(i > 2)
    BY <2>2 DEF Ends
  <2>3. QED BY <2>1, <2>2
<1>4. Garbled <=> EndsNone(w, Len(w))
  BY <1>1, <1>3 DEF Garbled, EndsNone, w
<1>5. QED BY <1>2, <1>4 DEF w

-----------------------------------------------------------------------------
(* The key file, as GetRSAKeys writes it and reads it back.                *)
KeyText(k) == PublicPem(k) \o PrivatePem(k)

LEMMA ThreeAndThree ==
    ASSUME NEW a \in Seq(Texts), NEW c \in Seq(Texts), Len(a) = 3, Len(c) = 3
    PROVE  /\ a \o c \in Seq(Texts) /\ Len(a \o c) = 6 /\ a \o c # <<>>
           /\ \A i \in 1 .. 3 : (a \o c)[i] = a[i]
           /\ \A i \in 1 .. 3 : (a \o c)[3 + i] = c[i]
           /\ SubSeq(a \o c, 1, 3) = a
<1>1. /\ a \o c \in Seq(Texts) /\ Len(a \o c) = 6
      /\ \A i \in 1 .. 3 : (a \o c)[i] = a[i]
      /\ \A i \in 1 .. 3 : (a \o c)[3 + i] = c[i]
  <2>1. /\ a \o c \in Seq(Texts)
        /\ Len(a \o c) = Len(a) + Len(c)
        /\ \A i \in 1 .. Len(a) + Len(c) :
               (a \o c)[i] = IF i <= Len(a) THEN a[i] ELSE c[i - Len(a)]
    BY ConcatProperties
  <2>2. \A i \in 1 .. 3 : (a \o c)[3 + i] = c[i]
    <3> TAKE i \in 1 .. 3
    <3>1. 3 + i \in 1 .. Len(a) + Len(c) /\ ~(3 + i <= Len(a)) /\ 3 + i - Len(a) = i
      OBVIOUS
    <3>2. QED BY <2>1, <3>1
  <2>3. QED BY <2>1, <2>2
<1>2. PICK t \in Seq(Texts) : t = a \o c
  BY <1>1
<1>3. /\ Len(t) = 6
      /\ \A i \in 1 .. 3 : t[i] = a[i]
      /\ \A i \in 1 .. 3 : t[3 + i] = c[i]
  BY <1>1, <1>2
<1>4. t # <<>>
  BY <1>3
<1>5. SubSeq(t, 1, 3) = a
  <2>1. \A i \in 1 .. 3 : t[i] \in Texts
    BY <1>3, SMTT(20)
  <2>2. /\ SubSeq(t, 1, 3) \in Seq(Texts) /\ Len(SubSeq(t, 1, 3)) = 3
        /\ \A i \in 1 .. 3 : SubSeq(t, 1, 3)[i] = t[1 + i - 1]
    BY <2>1, SubSeqProperties
  <2>3. PICK u \in Seq(Texts) : u = SubSeq(t, 1, 3)
    BY <2>2
  <2>4. Len(u) = 3 /\ \A i \in 1 .. 3 : u[i] = a[i]
    BY <1>3, <2>2, <2>3
  <2>5. u = a
    BY <2>4, SeqEqual
  <2>6. QED BY <2>3, <2>5
<1>6. QED BY <1>2, <1>3, <1>4, <1>5

LEMMA PemFacts ==
    ASSUME NEW k \in Keys
    PROVE  /\ PublicPem(k) \in Seq(Texts) /\ Len(PublicPem(k)) = 3
           /\ PublicPem(k)[1] = BeginPublic /\ PublicPem(k)[2] = k
           /\ PublicPem(k)[3] = EndPublic /\ PublicPem(k) # <<>>
           /\ PrivatePem(k) \in Seq(Texts) /\ Len(PrivatePem(k)) = 3
           /\ PrivatePem(k)[1] = BeginPrivate /\ PrivatePem(k)[2] = k
           /\ PrivatePem(k)[3] = EndPrivate
BY TextFacts DEF PublicPem, PrivatePem

LEMMA KeyTextFacts ==
    ASSUME NEW k \in Keys
    PROVE  /\ KeyText(k) \in Seq(Texts) /\ Len(KeyText(k)) = 6 /\ KeyText(k) # <<>>
           /\ KeyText(k)[1] = BeginPublic /\ KeyText(k)[2] = k
           /\ KeyText(k)[3] = EndPublic /\ KeyText(k)[4] = BeginPrivate
           /\ KeyText(k)[5] = k /\ KeyText(k)[6] = EndPrivate
           /\ ToSet(KeyText(k)) \subseteq Keys \cup Markers
           /\ SubSeq(KeyText(k), 1, 3) = PublicPem(k)
<1>1. PICK a \in Seq(Texts) : a = PublicPem(k)
  BY PemFacts
<1>2. PICK c \in Seq(Texts) : c = PrivatePem(k)
  BY PemFacts
<1>3. /\ Len(a) = 3 /\ Len(c) = 3
      /\ a[1] = BeginPublic /\ a[2] = k /\ a[3] = EndPublic
      /\ c[1] = BeginPrivate /\ c[2] = k /\ c[3] = EndPrivate
  BY <1>1, <1>2, PemFacts
<1>4. a \o c \in Seq(Texts) /\ KeyText(k) = a \o c
  BY <1>1, <1>2 DEF KeyText
<1>5. PICK t \in Seq(Texts) : t = KeyText(k)
  BY <1>4
<1>6. /\ Len(t) = 6 /\ t # <<>> /\ SubSeq(t, 1, 3) = a
      /\ \A i \in 1 .. 3 : t[i] = a[i]
      /\ \A i \in 1 .. 3 : t[3 + i] = c[i]
  BY <1>3, <1>4, <1>5, ThreeAndThree
<1>7. t[1] = a[1] /\ t[2] = a[2] /\ t[3] = a[3]
  BY <1>6
<1>8. t[4] = c[1] /\ t[5] = c[2] /\ t[6] = c[3]
  <2>1. t[3 + 1] = c[1] /\ t[3 + 2] = c[2] /\ t[3 + 3] = c[3]
    BY <1>6
  <2>2. QED BY <2>1
<1>9. ToSet(t) \subseteq Keys \cup Markers
  <2>1. \A i \in 1 .. 6 : t[i] \in Keys \cup Markers
    <3>1. \A i \in 1 .. 6 : i = 1 \/ i = 2 \/ i = 3 \/ i = 4 \/ i = 5 \/ i = 6
      OBVIOUS
    <3>2. {BeginPublic, k, EndPublic, BeginPrivate, EndPrivate} \subseteq Keys \cup Markers
      BY DEF Markers
    <3>3. QED BY <1>3, <1>7, <1>8, <3>1, <3>2
  <2>2. DOMAIN t = 1 .. 6
    BY <1>6
  <2>3. QED BY <2>1, <2>2 DEF ToSet
<1>10. QED BY <1>1, <1>3, <1>5, <1>6, <1>7, <1>8, <1>9

LEMMA ThreeLines ==
    ASSUME NEW x, NEW y, NEW z
    PROVE  Append(Append(Append(<<>>, x), y), z) = <<x, y, z>>
<1> DEFINE S == {x, y, z}
           a == Append(<<>>, x)
           c == Append(a, y)
           d == Append(c, z)
<1>1. x \in S /\ y \in S /\ z \in S /\ <<>> \in Seq(S) /\ Len(<<>>) = 0
  OBVIOUS
<1>2. <<x, y, z>> \in Seq(S)
  OBVIOUS
<1> HIDE DEF S
<1>3. a \in Seq(S) /\ Len(a) = 1 /\ a[1] = x
  BY <1>1, AppendProperties
<1> HIDE DEF a
<1>4. c \in Seq(S) /\ Len(c) = 2 /\ c[1] = x /\ c[2] = y
  BY <1>1, <1>3, AppendProperties
<1> HIDE DEF c
<1>5. d \in Seq(S) /\ Len(d) = 3 /\ d[1] = x /\ d[2] = y /\ d[3] = z
  <2>1. PICK f \in Seq(S) : f = c
    BY <1>4
  <2>2. Len(f) = 2 /\ f[1] = x /\ f[2] = y
    BY <1>4, <2>1
  <2>3. /\ Append(f, z) \in Seq(S) /\ Len(Append(f, z)) = Len(f) + 1
        /\ \A i \in 1 .. Len(f) : Append(f, z)[i] = f[i]
        /\ Append(f, z)[Len(f) + 1] = z
    BY <1>1, <2>1, AppendProperties
  <2>4. 1 \in 1 .. Len(f) /\ 2 \in 1 .. Len(f) /\ Len(f) + 1 = 3
    BY <2>2
  <2>5. Len(Append(f, z)) = 3 /\ Append(f, z)[3] = z
    <3> DEFINE v == Append(f, z)
               l == Len(f) + 1
    <3>1. Len(v) = l /\ v[l] = z /\ l = 3
      BY <2>3, <2>4
    <3> HIDE DEF v, l
    <3>2. Len(v) = 3 /\ v[3] = z
      BY <3>1
    <3>3. QED BY <3>2 DEF v
  <2>6. Append(f, z)[1] = x /\ Append(f, z)[2] = y
    BY <2>2, <2>3, <2>4, Zenon
  <2>7. QED BY <2>1, <2>3, <2>5, <2>6
<1> HIDE DEF d
<1>6. PICK e \in Seq(S) : e = d
  BY <1>5
<1>7. Len(e) = 3 /\ e[1] = x /\ e[2] = y /\ e[3] = z
  BY <1>5, <1>6
<1>8. e = <<x, y, z>>
  <2>1. PICK u \in Seq(S) : u = <<x, y, z>>
    BY <1>2
  <2>2. Len(u) = 3 /\ u[1] = x /\ u[2] = y /\ u[3] = z
    BY <2>1
  <2>3. \A i \in 1 .. 3 : i = 1 \/ i = 2 \/ i = 3
    OBVIOUS
  <2>4. \A i \in 1 .. 3 : e[i] = u[i]
    BY <1>7, <2>2, <2>3, Zenon
  <2>5. e = u
    BY <1>7, <2>2, <2>4, SeqEqual
  <2>6. QED BY <2>1, <2>5
<1>9. QED BY <1>6, <1>8 DEF a, c, d

(* A line of it, by what it is and whether a key is being read.            *)
LEMMA PublicLineIs ==
    ASSUME NEW key, NEW x
    PROVE  /\ \A on \in BOOLEAN :
                /\ x = BeginPublic => PublicLine([on |-> on, key |-> key], x)
                                        = [on |-> TRUE, key |-> Append(key, x)]
                /\ x = EndPublic => PublicLine([on |-> on, key |-> key], x)
                                        = [on |-> FALSE, key |-> Append(key, x)]
           /\ x # BeginPublic /\ x # EndPublic =>
                /\ PublicLine([on |-> TRUE, key |-> key], x)
                       = [on |-> TRUE, key |-> Append(key, x)]
                /\ PublicLine([on |-> FALSE, key |-> key], x)
                       = [on |-> FALSE, key |-> key]
BY TextFacts DEF PublicLine

(* The loop over the lines of the key file.                                *)
LEMMA PublicKeyLoop ==
    ASSUME NEW s \in Seq(Texts)
    PROVE  \E got :
             /\ got[0] = [on |-> FALSE, key |-> <<>>]
             /\ \A i \in 1 .. Len(s) : got[i] = PublicLine(got[i - 1], s[i])
             /\ PublicKeyIn(s) = got[Len(s)].key
<1> DEFINE n == Len(s)
           base == [on |-> FALSE, key |-> <<>>]
           Gots == [on : BOOLEAN, key : Seq(Texts)]
           Is(f) == f = [i \in 0 .. n |-> IF i = 0 THEN base ELSE PublicLine(f[i - 1], s[i])]
           F == CHOOSE f : Is(f)
           G == [p \in (1 .. n) \X Gots |-> PublicLine(p[2], s[p[1]])]
<1>1. n \in Nat /\ \A i \in 1 .. n : s[i] \in Texts
  OBVIOUS
<1>2. base \in Gots
  OBVIOUS
<1>3. ASSUME NEW r \in Gots, NEW x \in Texts PROVE PublicLine(r, x) \in Gots
  <2>1. Append(r.key, x) \in Seq(Texts)
    OBVIOUS
  <2>2. [on |-> TRUE, key |-> Append(r.key, x)] \in Gots
    BY <2>1
  <2>3. [on |-> FALSE, key |-> Append(r.key, x)] \in Gots
    BY <2>1
  <2>4. [r EXCEPT !.key = Append(@, x)] \in Gots
    BY <2>1
  <2>5. QED BY <2>2, <2>3, <2>4 DEF PublicLine
<1> HIDE DEF Gots
<1>4. G \in [(1 .. n) \X Gots -> Gots]
  BY <1>1, <1>3
<1>5. \A i \in 1 .. n : \A r \in Gots : G[<<i, r>>] = PublicLine(r, s[i])
  OBVIOUS
<1> HIDE DEF G, base
<1>6. \E f : Is(f)
  <2>1. PICK f \in [0 .. n -> Gots] : Loop(n, base, G, f)
    BY <1>1, <1>2, <1>4, LoopExists
  <2>2. ASSUME NEW i \in 1 .. n PROVE f[i] = PublicLine(f[i - 1], s[i])
    <3>1. f[i] = G[<<i, f[i - 1]>>] /\ f[i - 1] \in Gots
      BY <1>1, <2>1 DEF Loop
    <3>2. QED BY <1>5, <3>1
  <2>3. f[0] = base
    BY <2>1 DEF Loop
  <2>4. Is(f)
    BY <1>1, <2>2, <2>3
  <2>5. QED BY <2>4
<1>7. Is(F)
  <2> HIDE DEF Is
  <2>1. QED BY <1>6
<1>8. F[0] = base /\ \A i \in 1 .. n : F[i] = PublicLine(F[i - 1], s[i])
  <2> HIDE DEF F
  <2>1. F = [i \in 0 .. n |-> IF i = 0 THEN base ELSE PublicLine(F[i - 1], s[i])]
    BY <1>7
  <2> HIDE DEF Is
  <2>2. QED BY <1>1, <2>1
<1>9. PublicKeyIn(s) = F[n].key
  BY Zenon DEF PublicKeyIn, base
<1> HIDE DEF F
<1>10. QED BY <1>8, <1>9 DEF base

(* What a life writes into its key file is what the next one reads; an     *)
(* empty file gives no key.                                                *)
LEMMA KeysReadBack ==
    /\ PublicKeyIn(<<>>) = <<>>
    /\ \A k \in Keys : PublicKeyIn(KeyText(k)) = PublicPem(k)
<1>1. PublicKeyIn(<<>>) = <<>>
  <2> DEFINE e == <<>>
  <2>1. e \in Seq(Texts) /\ Len(e) = 0
    OBVIOUS
  <2> HIDE DEF e
  <2>2. PICK got : got[0] = [on |-> FALSE, key |-> <<>>] /\ PublicKeyIn(e) = got[Len(e)].key
    BY <2>1, PublicKeyLoop
  <2>3. PublicKeyIn(e) = <<>>
    BY <2>1, <2>2
  <2>4. QED BY <2>3 DEF e
<1>2. ASSUME NEW k \in Keys PROVE PublicKeyIn(KeyText(k)) = PublicPem(k)
  <2> DEFINE t == KeyText(k)
  <2>1. /\ t \in Seq(Texts) /\ Len(t) = 6
        /\ t[1] = BeginPublic /\ t[2] = k /\ t[3] = EndPublic
        /\ t[4] = BeginPrivate /\ t[5] = k /\ t[6] = EndPrivate
    BY KeyTextFacts
  <2>2. k # BeginPublic /\ k # EndPublic
    BY TextFacts
  <2> HIDE DEF t
  <2>3. PICK got :
          /\ got[0] = [on |-> FALSE, key |-> <<>>]
          /\ \A i \in 1 .. 6 : got[i] = PublicLine(got[i - 1], t[i])
          /\ PublicKeyIn(t) = got[6].key
    BY <2>1, PublicKeyLoop
  <2>4. /\ got[1] = PublicLine(got[0], t[1]) /\ got[2] = PublicLine(got[1], t[2])
        /\ got[3] = PublicLine(got[2], t[3]) /\ got[4] = PublicLine(got[3], t[4])
        /\ got[5] = PublicLine(got[4], t[5]) /\ got[6] = PublicLine(got[5], t[6])
    BY <2>3
  <2> DEFINE a1 == Append(<<>>, BeginPublic)
             a2 == Append(a1, k)
             a3 == Append(a2, EndPublic)
  <2>5. got[1] = [on |-> TRUE, key |-> a1]
    <3>1. PublicLine([on |-> FALSE, key |-> <<>>], BeginPublic) = [on |-> TRUE, key |-> a1]
      BY PublicLineIs, Zenon
    <3>2. QED BY <2>1, <2>3, <2>4, <3>1, Zenon
  <2> HIDE DEF a1
  <2>6. got[2] = [on |-> TRUE, key |-> a2]
    <3>1. PublicLine([on |-> TRUE, key |-> a1], k) = [on |-> TRUE, key |-> a2]
      BY <2>2, PublicLineIs, Zenon
    <3>2. QED BY <2>1, <2>4, <2>5, <3>1, Zenon
  <2> HIDE DEF a2
  <2>7. got[3] = [on |-> FALSE, key |-> a3]
    <3>1. PublicLine([on |-> TRUE, key |-> a2], EndPublic) = [on |-> FALSE, key |-> a3]
      BY PublicLineIs, Zenon
    <3>2. QED BY <2>1, <2>4, <2>6, <3>1, Zenon
  <2> HIDE DEF a3
  <2>8. \A x : x # BeginPublic /\ x # EndPublic => PublicLine(got[3], x) = got[3]
    BY <2>7, PublicLineIs, Zenon
  <2>9. t[4] # BeginPublic /\ t[4] # EndPublic /\ t[5] # BeginPublic
           /\ t[5] # EndPublic /\ t[6] # BeginPublic /\ t[6] # EndPublic
    BY <2>1, <2>2, TextFacts, Zenon
  <2>10. got[6] = got[3]
    BY <2>4, <2>8, <2>9, Zenon
  <2>11. a3 = PublicPem(k)
    BY ThreeLines DEF a1, a2, a3, PublicPem
  <2>12. PublicKeyIn(t) = PublicPem(k)
    BY <2>3, <2>7, <2>10, <2>11
  <2>13. QED BY <2>12 DEF t
<1>3. QED BY <1>1, <1>2

(* The fingerprint of a key, and of none.                                  *)
LEMMA FingerprintOfPem ==
    /\ \A k \in Keys : CreateFingerprint(PublicPem(k)) = k
    /\ CreateFingerprint(<<>>) = NoPrint
<1>1. ASSUME NEW k \in Keys PROVE CreateFingerprint(PublicPem(k)) = k
  <2> DEFINE a == PublicPem(k)
  <2>1. /\ a \in Seq(Texts) /\ DOMAIN a = 1 .. 3
        /\ a[1] = BeginPublic /\ a[2] = k /\ a[3] = EndPublic
    BY TextFacts DEF PublicPem
  <2> HIDE DEF a
  <2>2. FirstBlock(a, 1, k)
    BY <2>1 DEF FirstBlock
  <2>3. CreateFingerprint(a) = k
    BY <2>1, <2>2, FingerprintOf
  <2>4. QED BY <2>3 DEF a
<1>2. CreateFingerprint(<<>>) = NoPrint
  BY DEF CreateFingerprint
<1>3. QED BY <1>1, <1>2

(* The loop over the lines of Server List.txt dials one server a line at   *)
(* most.                                                                   *)
LEMMA DialledType ==
    ASSUME NEW file \in Seq(Dests), socketList = <<>>
    PROVE  Dialled(file) \in Seq(Dests) /\ Len(Dialled(file)) <= Len(file)
<1> DEFINE n == Len(file)
           Is(f) == f = [i \in 0 .. n |->
                           IF i = 0 THEN socketList ELSE ConnectToServer(f[i - 1], file[i])]
           F == CHOOSE f : Is(f)
           Lists == Seq(Dests)
           G == [p \in (1 .. n) \X Lists |-> ConnectToServer(p[2], file[p[1]])]
<1>1. n \in Nat /\ \A i \in 1 .. n : file[i] \in Dests
  OBVIOUS
<1>2. socketList \in Lists
  OBVIOUS
<1>3. \A r \in Lists : \A d \in Dests :
         ConnectToServer(r, d) \in Lists /\ Len(ConnectToServer(r, d)) <= Len(r) + 1
  BY DEF ConnectToServer
<1>4. G \in [(1 .. n) \X Lists -> Lists]
  BY <1>1, <1>3
<1>5. \A i \in 1 .. n : \A r \in Lists : G[<<i, r>>] = ConnectToServer(r, file[i])
  OBVIOUS
<1>14. \A r \in Lists : Len(r) \in Nat
  OBVIOUS
<1>15. Len(socketList) = 0
  OBVIOUS
<1> HIDE DEF G, Lists
<1>6. \E f : Is(f)
  <2>1. PICK f \in [0 .. n -> Lists] : Loop(n, socketList, G, f)
    BY <1>1, <1>2, <1>4, LoopExists
  <2>2. ASSUME NEW i \in 1 .. n PROVE f[i] = ConnectToServer(f[i - 1], file[i])
    <3>1. f[i] = G[<<i, f[i - 1]>>]
      BY <2>1 DEF Loop
    <3>2. f[i - 1] \in Lists
      BY <1>1
    <3>3. QED BY <1>5, <3>1, <3>2
  <2>3. f[0] = socketList
    BY <2>1 DEF Loop
  <2>4. Is(f)
    BY <1>1, <2>2, <2>3
  <2>5. QED BY <2>4
<1>7. Is(F)
  <2> HIDE DEF Is
  <2>1. QED BY <1>6
<1>8. F[0] = socketList /\ \A i \in 1 .. n : F[i] = ConnectToServer(F[i - 1], file[i])
  <2> HIDE DEF F
  <2>1. F = [i \in 0 .. n |-> IF i = 0 THEN socketList ELSE ConnectToServer(F[i - 1], file[i])]
    BY <1>7
  <2> HIDE DEF Is
  <2>2. QED BY <1>1, <2>1
<1>9. Dialled(file) = F[n]
  BY Zenon DEF Dialled
<1> HIDE DEF F
<1> DEFINE T == {i \in 0 .. n : F[i] \in Lists /\ Len(F[i]) <= i}
<1>10. 0 \in T
  BY <1>1, <1>2, <1>8, <1>15
<1>11. ASSUME NEW i \in 1 .. n, i - 1 \in T PROVE i \in T
  <2>1. F[i - 1] \in Lists /\ Len(F[i - 1]) <= i - 1 /\ Len(F[i - 1]) \in Nat
    BY <1>11, <1>14
  <2>2. F[i] \in Lists /\ Len(F[i]) <= Len(F[i - 1]) + 1 /\ Len(F[i]) \in Nat
    BY <1>1, <1>3, <1>8, <1>14, <2>1
  <2>3. QED BY <2>1, <2>2
<1>12. \A i \in 0 .. n : i \in T
  <2> HIDE DEF T
  <2>1. QED BY <1>1, <1>10, <1>11, RoundInduction
<1>13. QED BY <1>1, <1>9, <1>12 DEF Lists

-----------------------------------------------------------------------------
(* The process.  What is known of the files, of the life that runs, and of *)
(* the whitelist its keys are copied to.                                   *)
Types ==
    /\ pc \in PCs
    /\ ip \in Ips \cup {Blank}
    /\ pc = "port" => address \in Ips
    /\ pc \in {"keys", "saving", "host", "list", "console", "returned"} =>
           address \in Ips \X Ports
    /\ pc # "console" => socketList = <<>>
    /\ socketList \in Seq(Dests) /\ Len(socketList) <= MaxSockets
    /\ starts \in 0 .. MaxStarts
    /\ starts = 0 => pc = "off" /\ DOMAIN keyFiles = {} /\ enrolled = {}
    /\ whitelist # Absent => whitelist \in Seq(Texts)
    /\ torn \subseteq DOMAIN keyFiles
    /\ DOMAIN keyFiles \subseteq (Ips \cup {Blank}) \X Ports

(* A key file is whole or empty, and empty only while it is saved or when  *)
(* a life left it so.                                                      *)
FilesWhole ==
    \A f \in DOMAIN keyFiles :
        \/ \E k \in Keys : keyFiles[f] = KeyText(k)
        \/ /\ keyFiles[f] = <<>>
           /\ f \in torn \/ (pc = "saving" /\ f = KeyFile)

SavingIts ==
    pc = "saving" => /\ KeyFile \in DOMAIN keyFiles
                     /\ keyFiles[KeyFile] = <<>>
                     /\ \E k \in Keys : publicKey = PublicPem(k)

(* A life whose keys are settled has those of its file, if it has one, and *)
(* without a file it has none only if it could not generate any.           *)
KeysOfFile ==
    Settled =>
        \/ \E k \in Keys :
             /\ publicKey = PublicPem(k)
             /\ KeyFile \in DOMAIN keyFiles => keyFiles[KeyFile] = KeyText(k)
        \/ /\ publicKey = <<>>
           /\ KeyFile \in DOMAIN keyFiles => keyFiles[KeyFile] = <<>>
           /\ KeyFile \notin DOMAIN keyFiles => failed

MemoryType ==
    /\ publicKey = <<>> \/ \E k \in Keys : publicKey = PublicPem(k)
    /\ failed \in BOOLEAN

EnrolledWritten ==
    \A f \in enrolled :
        /\ f \in DOMAIN keyFiles
        /\ whitelist # Absent
        /\ \E k \in Keys : keyFiles[f] = KeyText(k) /\ Written(whitelist, Len(whitelist), k)

IInv ==
    /\ Types
    /\ MemoryType
    /\ FilesWhole
    /\ SavingIts
    /\ KeysOfFile
    /\ EnrolledWritten

LEMMA InitIInv == Init => IInv
<1> SUFFICES ASSUME Init PROVE IInv
  OBVIOUS
<1>1. Types
  BY ServerAssumption DEF Init, Types, PCs
<1>2. MemoryType /\ FilesWhole /\ SavingIts /\ KeysOfFile /\ EnrolledWritten
  BY DEF Init, MemoryType, FilesWhole, SavingIts, KeysOfFile, Settled, EnrolledWritten
<1>3. QED BY <1>1, <1>2 DEF IInv

(* Steps that leave the files alone and settle no keys.                    *)
LEMMA FilesKept ==
    ASSUME IInv, UNCHANGED <<keyFiles, whitelist, enrolled, torn, failed>>,
           pc # "saving", pc' # "saving", MemoryType',
           Settled' => Settled /\ UNCHANGED <<publicKey, ip, address>>,
           Types'
    PROVE  IInv'
<1>1. FilesWhole'
  <2> SUFFICES ASSUME NEW f \in DOMAIN keyFiles
               PROVE  \/ \E k \in Keys : keyFiles[f] = KeyText(k)
                      \/ keyFiles[f] = <<>> /\ f \in torn
    BY DEF FilesWhole
  <2>1. QED BY DEF IInv, FilesWhole
<1>2. SavingIts'
  BY DEF SavingIts
<1>3. KeysOfFile'
  <2> SUFFICES ASSUME Settled' PROVE KeysOfFile'
    BY DEF KeysOfFile
  <2>1. Settled /\ KeyFile' = KeyFile /\ publicKey' = publicKey
    BY DEF KeyFile
  <2>2. QED BY <2>1 DEF IInv, KeysOfFile
<1>4. EnrolledWritten'
  BY DEF IInv, EnrolledWritten
<1>5. QED BY <1>1, <1>2, <1>3, <1>4 DEF IInv

LEMMA StartStep ==
    ASSUME IInv, NEW file \in PropertyFiles, Start(file)
    PROVE  IInv'
<1>1. /\ pc = "off" /\ starts < MaxStarts /\ starts' = starts + 1
      /\ UNCHANGED <<publicKey, socketList, keyFiles, whitelist, enrolled, torn, failed>>
  BY DEF Start, history
<1>2. starts \in 0 .. MaxStarts /\ starts' \in 1 .. MaxStarts
  BY <1>1, ServerAssumption DEF IInv, Types
<1>3. /\ pc' \in {"off", "address", "port"} /\ ip' \in Ips \cup {Blank}
      /\ pc' = "port" => address' \in Ips
  <2>1. CASE file = Absent
    BY <1>1, <2>1 DEF Start, IInv, Types
  <2>2. CASE file # Absent
    <3> DEFINE line == IF file = <<>> THEN Blank ELSE Last(file)
    <3>1. file \in Seq(Ips \cup {Blank})
      BY <2>2, ServerAssumption
    <3>2. file # <<>> => file[Len(file)] \in Ips \cup {Blank}
      BY <3>1
    <3>3. line \in Ips \cup {Blank}
      BY <3>2 DEF Last
    <3>4. /\ ip' = line /\ address' = line
          /\ pc' = IF line = Blank THEN "address" ELSE "port"
      BY <2>2 DEF Start
    <3> HIDE DEF line
    <3>5. QED BY <3>3, <3>4
  <2>3. QED BY <2>1, <2>2
<1>4. Types'
  BY <1>1, <1>2, <1>3 DEF IInv, Types, PCs
<1>5. MemoryType'
  BY <1>1 DEF IInv, MemoryType
<1>6. pc' # "saving" /\ ~Settled'
  BY <1>3 DEF Settled
<1>7. QED BY <1>1, <1>4, <1>5, <1>6, FilesKept

LEMMA PromptStep ==
    ASSUME IInv,
           \/ \E typed \in Ips : TypeAddress(typed)
           \/ \E port \in Ports : TypePort(port)
    PROVE  IInv'
<1>1. /\ UNCHANGED <<ip, publicKey, socketList, starts, keyFiles, whitelist, enrolled, torn, failed>>
      /\ pc \in {"address", "port"}
      /\ \/ pc' = "port" /\ address' \in Ips
         \/ pc' = "keys" /\ address' \in Ips \X Ports
  <2>1. CASE \E typed \in Ips : TypeAddress(typed)
    BY <2>1 DEF TypeAddress, At, history
  <2>2. CASE \E port \in Ports : TypePort(port)
    BY <2>2 DEF TypePort, At, history, IInv, Types
  <2>3. QED BY <2>1, <2>2
<1>2. Types'
  BY <1>1 DEF IInv, Types, PCs
<1>3. MemoryType'
  BY <1>1 DEF IInv, MemoryType
<1>4. pc # "saving" /\ pc' # "saving" /\ ~Settled'
  BY <1>1 DEF Settled
<1>5. QED BY <1>1, <1>2, <1>3, <1>4, FilesKept

(* A settled life goes on: its threads start, it dials, and it dials on    *)
(* command.                                                                *)
LEMMA GoOnStep ==
    ASSUME IInv,
           \/ StartThreads
           \/ \E file \in ListFiles : ReadList(file)
           \/ \E command \in Commands : Command(command)
    PROVE  IInv'
<1>1. /\ UNCHANGED <<ip, address, publicKey, starts, keyFiles, whitelist, enrolled, torn, failed>>
      /\ pc \in {"host", "list", "console"} /\ pc' \in {"list", "console", "returned"}
      /\ pc' # "console" => socketList' = <<>>
      /\ socketList' \in Seq(Dests) /\ Len(socketList') <= MaxSockets
  <2>1. CASE StartThreads
    BY <2>1 DEF StartThreads, At, memory, history, IInv, Types
  <2>2. ASSUME NEW file \in ListFiles, ReadList(file)
        PROVE  <1>1!1 /\ <1>1!2 /\ <1>1!3 /\ <1>1!4
    <3>1. UNCHANGED <<ip, address, publicKey, starts, keyFiles, whitelist, enrolled, torn, failed>> /\ pc = "list"
      BY <2>2 DEF ReadList, history
    <3>2. socketList = <<>>
      BY <3>1 DEF IInv, Types
    <3>3. CASE file = Absent
      BY <2>2, <3>1, <3>2, <3>3 DEF ReadList, IInv, Types
    <3>4. CASE file # Absent
      <4>1. file \in Seq(Dests) /\ Len(file) <= MaxSockets
        BY <3>4, ServerAssumption
      <4>2. Dialled(file) \in Seq(Dests) /\ Len(Dialled(file)) <= Len(file)
        BY <3>2, <4>1, DialledType
      <4>3. pc' = "console" /\ socketList' = Dialled(file)
        BY <2>2, <3>4 DEF ReadList
      <4>4. Len(file) \in Nat /\ Len(Dialled(file)) \in Nat /\ MaxSockets \in Nat
        BY <4>1, <4>2, ServerAssumption
      <4>5. Len(socketList') <= MaxSockets
        BY <4>1, <4>2, <4>3, <4>4
      <4>6. QED BY <3>1, <4>2, <4>3, <4>5
    <3>5. QED BY <3>3, <3>4
  <2>3. ASSUME NEW command \in Commands, Command(command)
        PROVE  <1>1!1 /\ <1>1!2 /\ <1>1!3 /\ <1>1!4
    <3>1. /\ UNCHANGED <<pc, ip, address, publicKey, starts, keyFiles, whitelist, enrolled, torn, failed>>
          /\ pc = "console" /\ Len(socketList) < MaxSockets
          /\ socketList' = ConnectToServer(socketList, Section(command, 2))
      BY <2>3 DEF Command, history
    <3>2. Section(command, 2) \in Dests /\ MaxSockets \in Nat
      BY ServerAssumption
    <3>3. socketList \in Seq(Dests)
      BY DEF IInv, Types
    <3>4. socketList' \in Seq(Dests) /\ Len(socketList') <= MaxSockets
      BY <3>1, <3>2, <3>3 DEF ConnectToServer
    <3>5. QED BY <3>1, <3>4
  <2>4. QED BY <2>1, <2>2, <2>3
<1>2. Types'
  BY <1>1 DEF IInv, Types, PCs
<1>3. MemoryType'
  BY <1>1 DEF IInv, MemoryType
<1>4. pc # "saving" /\ pc' # "saving" /\ Settled
  BY <1>1 DEF Settled
<1>5. QED BY <1>1, <1>2, <1>3, <1>4, FilesKept

LEMMA ReadKeysStep == IInv /\ ReadKeys => IInv'
<1> SUFFICES ASSUME IInv, ReadKeys PROVE IInv'
  OBVIOUS
<1>1. /\ pc = "keys" /\ pc' = "host" /\ KeyFile \in DOMAIN keyFiles
      /\ publicKey' = PublicKeyIn(keyFiles[KeyFile])
      /\ UNCHANGED <<ip, address, socketList, starts, keyFiles, whitelist, enrolled, torn, failed>>
  BY DEF ReadKeys, At, history
<1>2. KeyFile' = KeyFile
  BY <1>1 DEF KeyFile
<1>3. Types'
  BY <1>1 DEF IInv, Types, PCs
<1>4. \/ \E k \in Keys : keyFiles[KeyFile] = KeyText(k) /\ publicKey' = PublicPem(k)
      \/ keyFiles[KeyFile] = <<>> /\ publicKey' = <<>>
  BY <1>1, KeysReadBack DEF IInv, FilesWhole
<1>5. MemoryType' /\ KeysOfFile'
  BY <1>1, <1>2, <1>4 DEF IInv, MemoryType, KeysOfFile
<1>6. FilesWhole' /\ SavingIts' /\ EnrolledWritten'
  BY <1>1, <1>2 DEF IInv, FilesWhole, SavingIts, EnrolledWritten
<1>7. QED BY <1>3, <1>5, <1>6 DEF IInv

(* The steps of GetRSAKeys that write the key file, with the text it gets. *)
LEMMA FileWritten ==
    ASSUME IInv, NEW text,
           keyFiles' = WithFile(KeyFile, text),
           UNCHANGED <<ip, address, socketList, starts, whitelist, enrolled>>,
           pc \in {"keys", "saving"}, pc' \in {"saving", "host"},
           torn' = torn \/ torn' = torn \cup {KeyFile},
           KeyFile \in enrolled => text = keyFiles[KeyFile]
    PROVE  /\ Types' /\ EnrolledWritten' /\ KeyFile' = KeyFile
           /\ KeyFile \in DOMAIN keyFiles' /\ keyFiles'[KeyFile] = text
           /\ \A f \in DOMAIN keyFiles' : f # KeyFile =>
                  f \in DOMAIN keyFiles /\ keyFiles'[f] = keyFiles[f]
           /\ torn \subseteq torn'
<1>1. /\ DOMAIN keyFiles' = DOMAIN keyFiles \cup {KeyFile}
      /\ \A f \in DOMAIN keyFiles' : keyFiles'[f] = IF f = KeyFile THEN text ELSE keyFiles[f]
  BY DEF WithFile
<1>2. KeyFile' = KeyFile
  BY DEF KeyFile
<1>3. KeyFile \in (Ips \cup {Blank}) \X Ports
  <2>1. address \in Ips \X Ports /\ ip \in Ips \cup {Blank}
    BY DEF IInv, Types
  <2>2. address[2] \in Ports
    BY <2>1
  <2>3. QED BY <2>1, <2>2 DEF KeyFile
<1>4. Types'
  <2> HIDE DEF KeyFile
  <2>1. torn' \subseteq DOMAIN keyFiles' /\ DOMAIN keyFiles' \subseteq (Ips \cup {Blank}) \X Ports
    BY <1>1, <1>3 DEF IInv, Types
  <2>2. starts # 0 /\ pc' \in PCs /\ pc' # "console" /\ pc' # "port"
    BY DEF IInv, Types, PCs
  <2>3. socketList' = <<>> /\ socketList' = socketList /\ address \in Ips \X Ports
    BY DEF IInv, Types
  <2>4. QED BY <2>1, <2>2, <2>3 DEF IInv, Types
<1>5. EnrolledWritten'
  BY <1>1 DEF IInv, EnrolledWritten
<1>6. torn \subseteq torn'
  OBVIOUS
<1>7. QED BY <1>1, <1>2, <1>4, <1>5, <1>6

LEMMA CreateKeysStep ==
    ASSUME IInv, NEW k \in Keys, CreateKeys(k)
    PROVE  IInv'
<1>1. /\ pc = "keys" /\ pc' = "saving" /\ KeyFile \notin DOMAIN keyFiles
      /\ publicKey' = PublicPem(k) /\ keyFiles' = WithFile(KeyFile, <<>>)
      /\ UNCHANGED <<ip, address, socketList, starts, whitelist, enrolled, torn, failed>>
  BY DEF CreateKeys, At, history
<1>2. KeyFile \notin enrolled
  BY <1>1 DEF IInv, EnrolledWritten
<1>3. /\ Types' /\ EnrolledWritten' /\ KeyFile' = KeyFile
      /\ KeyFile \in DOMAIN keyFiles' /\ keyFiles'[KeyFile] = <<>>
      /\ \A f \in DOMAIN keyFiles' : f # KeyFile =>
             f \in DOMAIN keyFiles /\ keyFiles'[f] = keyFiles[f]
  BY <1>1, <1>2, FileWritten
<1>4. FilesWhole'
  BY <1>1, <1>3 DEF IInv, FilesWhole
<1>5. MemoryType' /\ SavingIts' /\ KeysOfFile'
  BY <1>1, <1>3 DEF IInv, MemoryType, SavingIts, KeysOfFile, Settled
<1>6. QED BY <1>3, <1>4, <1>5 DEF IInv

LEMMA SaveKeysStep == IInv /\ SaveKeys => IInv'
<1> SUFFICES ASSUME IInv, SaveKeys PROVE IInv'
  OBVIOUS
<1>1. PICK k \in Keys : publicKey = PublicPem(k)
  BY DEF IInv, SavingIts, SaveKeys, At
<1>2. publicKey \o PrivatePem(publicKey[2]) = KeyText(k)
  <2>1. publicKey[2] = k
    BY <1>1, PemFacts
  <2>2. QED BY <1>1, <2>1 DEF KeyText
<1>3. /\ pc = "saving" /\ pc' = "host" /\ keyFiles' = WithFile(KeyFile, KeyText(k))
      /\ UNCHANGED <<ip, address, publicKey, socketList, starts, whitelist, enrolled, torn, failed>>
  BY <1>2 DEF SaveKeys, At, memory, history
<1>4. KeyFile \notin enrolled
  <2>1. keyFiles[KeyFile] = <<>>
    BY <1>3 DEF IInv, SavingIts
  <2>2. QED BY <2>1, KeyTextFacts DEF IInv, EnrolledWritten
<1>5. /\ Types' /\ EnrolledWritten' /\ KeyFile' = KeyFile
      /\ KeyFile \in DOMAIN keyFiles' /\ keyFiles'[KeyFile] = KeyText(k)
      /\ \A f \in DOMAIN keyFiles' : f # KeyFile =>
             f \in DOMAIN keyFiles /\ keyFiles'[f] = keyFiles[f]
  BY <1>3, <1>4, FileWritten
<1>6. FilesWhole'
  BY <1>3, <1>5 DEF IInv, FilesWhole
<1>7. MemoryType' /\ SavingIts' /\ KeysOfFile'
  BY <1>1, <1>3, <1>5 DEF IInv, MemoryType, SavingIts, KeysOfFile
<1>8. QED BY <1>5, <1>6, <1>7 DEF IInv

LEMMA KeepKeysStep ==
    ASSUME IInv, NEW k \in Keys, KeepKeysInMemory(k)
    PROVE  IInv'
<1>1. /\ pc = "keys" /\ pc' = "host" /\ KeyFile \notin DOMAIN keyFiles
      /\ publicKey' = PublicPem(k)
      /\ UNCHANGED <<ip, address, socketList, starts, keyFiles, whitelist, enrolled, torn, failed>>
  BY DEF KeepKeysInMemory, At, history
<1>2. KeyFile' = KeyFile
  BY <1>1 DEF KeyFile
<1>3. Types'
  BY <1>1 DEF IInv, Types, PCs
<1>4. MemoryType' /\ KeysOfFile'
  BY <1>1, <1>2 DEF IInv, MemoryType, KeysOfFile
<1>5. FilesWhole' /\ SavingIts' /\ EnrolledWritten'
  BY <1>1, <1>2 DEF IInv, FilesWhole, SavingIts, EnrolledWritten
<1>6. QED BY <1>3, <1>4, <1>5 DEF IInv

LEMMA FailStep == IInv /\ FailToGenerate => IInv'
<1> SUFFICES ASSUME IInv, FailToGenerate PROVE IInv'
  OBVIOUS
<1>1. /\ pc = "keys" /\ pc' = "host" /\ KeyFile \notin DOMAIN keyFiles
      /\ publicKey' = <<>> /\ failed' = TRUE
      /\ \/ keyFiles' = WithFile(KeyFile, <<>>) /\ torn' = torn \cup {KeyFile}
         \/ UNCHANGED <<keyFiles, torn>>
      /\ UNCHANGED <<ip, address, socketList, starts, whitelist, enrolled>>
  BY DEF FailToGenerate, At
<1>2. KeyFile \notin enrolled
  BY <1>1 DEF IInv, EnrolledWritten
<1>3. MemoryType' /\ SavingIts'
  BY <1>1 DEF MemoryType, SavingIts
<1>4. CASE keyFiles' = WithFile(KeyFile, <<>>) /\ torn' = torn \cup {KeyFile}
  <2>1. /\ Types' /\ EnrolledWritten' /\ KeyFile' = KeyFile
        /\ KeyFile \in DOMAIN keyFiles' /\ keyFiles'[KeyFile] = <<>>
        /\ \A f \in DOMAIN keyFiles' : f # KeyFile =>
               f \in DOMAIN keyFiles /\ keyFiles'[f] = keyFiles[f]
    BY <1>1, <1>2, <1>4, FileWritten
  <2>2. FilesWhole' /\ KeysOfFile'
    BY <1>1, <1>4, <2>1 DEF IInv, FilesWhole, KeysOfFile
  <2>3. QED BY <1>3, <2>1, <2>2 DEF IInv
<1>5. CASE UNCHANGED <<keyFiles, torn>>
  <2>1. KeyFile' = KeyFile
    BY <1>1 DEF KeyFile
  <2>2. Types'
    BY <1>1, <1>5 DEF IInv, Types, PCs
  <2>3. FilesWhole' /\ KeysOfFile' /\ EnrolledWritten'
    BY <1>1, <1>5, <2>1 DEF IInv, FilesWhole, KeysOfFile, EnrolledWritten
  <2>4. QED BY <1>3, <2>2, <2>3 DEF IInv
<1>6. QED BY <1>1, <1>4, <1>5

(* The process ends, whatever it was at.                                   *)
LEMMA EndStep == IInv /\ (Kill \/ ThreadFaults) => IInv'
<1> SUFFICES ASSUME IInv, Kill \/ ThreadFaults PROVE IInv'
  OBVIOUS
<1>1. /\ pc' = "off" /\ ip' = Blank /\ address' = Blank /\ publicKey' = <<>>
      /\ socketList' = <<>> /\ UNCHANGED <<starts, keyFiles, whitelist, enrolled>>
      /\ torn' = IF pc = "saving" THEN torn \cup {KeyFile} ELSE torn
      /\ failed' = FALSE
  <2>1. CASE Kill
    BY <2>1 DEF Kill, End
  <2>2. CASE ThreadFaults
    <3>1. socketList # <<>>
      BY <2>2 DEF ThreadFaults
    <3>2. pc = "console"
      BY <3>1 DEF IInv, Types
    <3>3. QED BY <2>2, <3>2 DEF ThreadFaults, End
  <2>3. QED BY <2>1, <2>2
<1>2. Types'
  <2>1. torn' \subseteq DOMAIN keyFiles
    BY <1>1 DEF IInv, Types, SavingIts
  <2>2. socketList' \in Seq(Dests) /\ Len(socketList') = 0
    BY <1>1
  <2>3. MaxSockets \in Nat
    BY ServerAssumption
  <2>4. QED BY <1>1, <2>1, <2>2, <2>3 DEF IInv, Types, PCs
<1>3. FilesWhole'
  BY <1>1 DEF IInv, FilesWhole
<1>4. MemoryType' /\ SavingIts' /\ KeysOfFile' /\ EnrolledWritten'
  BY <1>1 DEF IInv, MemoryType, SavingIts, KeysOfFile, Settled, EnrolledWritten
<1>5. QED BY <1>2, <1>3, <1>4 DEF IInv

-----------------------------------------------------------------------------
(* The whitelist.                                                          *)
LEMMA LinesType == Types => Lines(whitelist) \in Seq(Texts)
BY DEF Types, Lines

LEMMA TextIsPresent ==
    ASSUME NEW v \in Seq(Texts)
    PROVE  v # Absent
BY ServerAssumption DEF Texts

LEMMA EditStep ==
    ASSUME IInv, NEW line \in Keys \cup Remarks \cup {BeginPublic, EndPublic}, EditWhitelist(line)
    PROVE  IInv'
<1>1. /\ starts = 0 /\ whitelist' = Append(Lines(whitelist), line)
      /\ UNCHANGED <<pc, ip, address, publicKey, socketList, starts, keyFiles, enrolled, torn, failed>>
  BY DEF EditWhitelist, memory, history
<1>2. line \in Texts
  BY DEF Texts, Markers
<1>3. whitelist' \in Seq(Texts)
  BY <1>1, <1>2, LinesType DEF IInv
<1>4. Types'
  BY <1>1, <1>3 DEF IInv, Types
<1>5. EnrolledWritten'
  BY <1>1 DEF IInv, Types, EnrolledWritten
<1>6. MemoryType' /\ FilesWhole' /\ SavingIts' /\ KeysOfFile'
  BY <1>1 DEF IInv, MemoryType, FilesWhole, SavingIts, KeysOfFile, Settled, KeyFile
<1>7. QED BY <1>4, <1>5, <1>6 DEF IInv

LEMMA EnrollStep ==
    ASSUME IInv, NEW file \in DOMAIN keyFiles, Enroll(file)
    PROVE  IInv'
<1> DEFINE w == Lines(whitelist)
<1>1. /\ keyFiles[file] # <<>> /\ Closed(w)
      /\ whitelist' = w \o SubSeq(keyFiles[file], 1, 3)
      /\ enrolled' = enrolled \cup {file}
      /\ UNCHANGED <<pc, ip, address, publicKey, socketList, starts, keyFiles, torn, failed>>
  BY DEF Enroll, memory
<1>2. PICK k \in Keys : keyFiles[file] = KeyText(k)
  BY <1>1 DEF IInv, FilesWhole
<1>3. whitelist' = w \o PublicPem(k)
  BY <1>1, <1>2, KeyTextFacts
<1>4. w \in Seq(Texts) /\ PublicPem(k) \in Seq(Texts)
  BY LinesType, PemFacts DEF IInv
<1>5. whitelist' \in Seq(Texts) /\ whitelist' # Absent
  <2>1. w \o PublicPem(k) \in Seq(Texts)
    BY <1>4
  <2>2. whitelist' \in Seq(Texts)
    BY <1>3, <2>1
  <2>3. QED BY <2>2, TextIsPresent
<1>6. Types'
  BY <1>1, <1>5 DEF IInv, Types
<1>7. EnrolledWritten'
  <2> SUFFICES ASSUME NEW f \in enrolled'
               PROVE  /\ f \in DOMAIN keyFiles
                      /\ \E q \in Keys : /\ keyFiles[f] = KeyText(q)
                                         /\ Written(whitelist', Len(whitelist'), q)
    BY <1>1, <1>5 DEF EnrolledWritten
  <2>1. CASE f = file
    BY <1>1, <1>2, <1>3, <1>4, <2>1, WrittenWhenCopied
  <2>2. CASE f \in enrolled
    <3>1. PICK q \in Keys : /\ keyFiles[f] = KeyText(q)
                            /\ Written(whitelist, Len(whitelist), q)
                            /\ whitelist # Absent /\ f \in DOMAIN keyFiles
      BY <2>2 DEF IInv, EnrolledWritten
    <3>2. w = whitelist
      BY <3>1 DEF Lines
    <3>3. Written(whitelist', Len(whitelist'), q)
      BY <1>3, <1>4, <3>1, <3>2, WrittenStays
    <3>4. QED BY <3>1, <3>3
  <2>3. QED BY <1>1, <2>1, <2>2
<1>8. MemoryType' /\ FilesWhole' /\ SavingIts' /\ KeysOfFile'
  BY <1>1 DEF IInv, MemoryType, FilesWhole, SavingIts, KeysOfFile, Settled, KeyFile
<1>9. QED BY <1>6, <1>7, <1>8 DEF IInv

LEMMA StepIInv == IInv /\ [Next]_vars => IInv'
<1> SUFFICES ASSUME IInv, [Next]_vars PROVE IInv'
  OBVIOUS
<1>1. CASE UNCHANGED vars
  BY <1>1 DEF vars, memory, history, IInv, Types, MemoryType, FilesWhole, SavingIts,
              KeysOfFile, Settled, KeyFile, EnrolledWritten
<1>2. CASE StartServer
  <2>1. CASE GetRSAKeys
    BY <2>1, ReadKeysStep, CreateKeysStep, KeepKeysStep, SaveKeysStep, FailStep DEF GetRSAKeys
  <2>2. QED BY <1>2, <2>1, StartStep, PromptStep, GoOnStep DEF StartServer
<1>3. CASE Kill \/ ThreadFaults
  BY <1>3, EndStep
<1>4. CASE Operator
  BY <1>4, EditStep, EnrollStep DEF Operator
<1>5. QED BY <1>1, <1>2, <1>3, <1>4 DEF Next

(* What the files of a server and the whitelist of another keep over all   *)
(* the lives of its process.                                               *)
THEOREM Inductive == Spec => []IInv
BY InitIInv, StepIInv, PTL DEF Spec

(* The members and the files of a server hold what they may hold.          *)
THEOREM TypeCorrect == Spec => []TypeOK
<1>1. IInv => TypeOK
  <2> SUFFICES ASSUME IInv PROVE TypeOK
    OBVIOUS
  <2>1. \A f \in DOMAIN keyFiles : ToSet(keyFiles[f]) \subseteq Keys \cup Markers
    BY KeyTextFacts DEF IInv, FilesWhole, ToSet
  <2>2. whitelist # Absent => ToSet(whitelist) \subseteq Keys \cup Remarks \cup Markers
    BY DEF IInv, Types, Texts, ToSet
  <2>3. enrolled \cup torn \subseteq DOMAIN keyFiles
    BY DEF IInv, Types, EnrolledWritten
  <2>4. /\ publicKey \in {<<>>} \cup {PublicPem(k) : k \in Keys}
        /\ failed \in BOOLEAN
    BY DEF IInv, MemoryType
  <2>5. QED BY <2>1, <2>2, <2>3, <2>4 DEF IInv, Types, TypeOK
<1>2. QED BY <1>1, Inductive, PTL

(* Of every text an operator may write into a whitelist, exactly the keys  *)
(* in blocks of their own are accepted, and a server without a key exactly *)
(* when a block cannot be read.                                            *)
THEOREM WhitelistStaysExact == Spec => []WhitelistExact
<1>1. IInv => WhitelistExact
  <2> SUFFICES ASSUME IInv, whitelist # Absent
               PROVE  /\ \A k \in Keys : CheckServerSignature(k) <=> Listed(k)
                      /\ CheckServerSignature(NoPrint) <=> Garbled
    BY DEF WhitelistExact
  <2>1. Lines(whitelist) = whitelist /\ whitelist \in Seq(Texts)
    BY DEF Lines, IInv, Types
  <2>2. /\ \A k \in Keys : Listed(k) <=> Written(whitelist, Len(whitelist), k)
        /\ Garbled <=> EndsNone(whitelist, Len(whitelist))
    BY <2>1, ListedIsWritten
  <2>3. /\ \A k \in Keys :
               k \in WhitelistedPrints(whitelist) <=> Written(whitelist, Len(whitelist), k)
        /\ NoPrint \in WhitelistedPrints(whitelist) <=> EndsNone(whitelist, Len(whitelist))
    BY <2>1, WhitelistReads
  <2>4. QED BY <2>2, <2>3 DEF CheckServerSignature
<1>2. QED BY <1>1, Inductive, PTL

(* A server whose key was copied to the whitelist of another is accepted   *)
(* there in every later life that uses the key file.                       *)
THEOREM RecognisedAlways == Spec => []RecognisedForEver
<1>1. IInv => RecognisedForEver
  <2> SUFFICES ASSUME IInv, Settled, KeyFile \in enrolled
               PROVE  CheckServerSignature(CreateFingerprint(publicKey))
    BY DEF RecognisedForEver, Signature
  <2>1. PICK k \in Keys : /\ keyFiles[KeyFile] = KeyText(k)
                          /\ Written(whitelist, Len(whitelist), k)
                          /\ whitelist # Absent /\ KeyFile \in DOMAIN keyFiles
    BY DEF IInv, EnrolledWritten
  <2>2. PICK q \in Keys : publicKey = PublicPem(q) /\ keyFiles[KeyFile] = KeyText(q)
    BY <2>1, KeyTextFacts DEF IInv, KeysOfFile
  <2>3. q = k
    <3>1. KeyText(k)[2] = k /\ KeyText(q)[2] = q
      BY KeyTextFacts
    <3>2. QED BY <2>1, <2>2, <3>1
  <2>4. CreateFingerprint(publicKey) = k
    BY <2>2, <2>3, FingerprintOfPem
  <2>5. k \in WhitelistedPrints(whitelist)
    BY <2>1, WhitelistReads DEF IInv, Types
  <2>6. QED BY <2>4, <2>5 DEF CheckServerSignature
<1>2. QED BY <1>1, Inductive, PTL

(* Only a failure to generate a pair, or a key file left empty by an       *)
(* earlier life, makes a server run without a key.                         *)
THEOREM UnkeyedOnlyAfterTorn == Spec => []UnkeyedOnlyIfTorn
<1>1. IInv => UnkeyedOnlyIfTorn
  <2> SUFFICES ASSUME IInv, Settled, CreateFingerprint(publicKey) = NoPrint, ~failed
               PROVE  KeyFile \in torn
    BY DEF UnkeyedOnlyIfTorn, Signature
  <2>1. \A k \in Keys : publicKey # PublicPem(k)
    BY FingerprintOfPem, TextFacts
  <2>2. KeyFile \in DOMAIN keyFiles /\ keyFiles[KeyFile] = <<>>
    BY <2>1 DEF IInv, KeysOfFile
  <2>3. pc # "saving"
    BY DEF Settled
  <2>4. QED BY <2>2, <2>3, KeyTextFacts DEF IInv, FilesWhole
<1>2. QED BY <1>1, Inductive, PTL
=============================================================================
