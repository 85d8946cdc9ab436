----------------------------- MODULE CabiProofs -----------------------------
(***************************************************************************)
(* Proofs about the C binding.  Its key files, for any Saves, loads and    *)
(* crashes: a key that Save reported saved is there to load.  Its served   *)
(* calls, for any calls and threads: one answer each, and none stranded by a*)
(* stop.  Its inbox, for any pushers, takers and closers and any capacity: *)
(* no wake-up of a taker is lost, and the end is reported only once nothing*)
(* is left to take.                                                        *)
(***************************************************************************)
EXTENDS Inbox, Cabi, KeyFiles, WellFoundedInduction, TLAPS

\* The least of some naturals is one of them.
LEMMA MinIs ==
    ASSUME NEW S \in SUBSET Nat, S # {}
    PROVE  Min(S) \in S
<1> DEFINE R == {ss \in Nat \X Nat : ss[1] < ss[2]}
<1>0. OpToRel(<, Nat) = R
    BY Zenon DEF OpToRel
<1>1. IsWellFoundedOn(R, Nat)
    BY <1>0, NatLessThanWellFounded, Zenon
<1> HIDE DEF R
<1>2. \E x \in S : \A y \in S : ~(<<y, x>> \in R)
    BY <1>1, WFMin, Zenon
<1>3. PICK x \in S : \A y \in S : ~(<<y, x>> \in R)
    BY <1>2, Zenon
<1>4. ASSUME NEW y \in S PROVE x =< y
  <2>1. ~(<<y, x>> \in R)
    BY <1>3, Zenon
  <2>2. x \in Nat /\ y \in Nat
    BY Zenon
  <2> QED
    BY <2>1, <2>2 DEF R
<1> QED
    BY <1>4, Zenon DEF Min

\* What a chain of checks answers: nothing if none fails, or the error of one that fails.
LEMMA FaultIs ==
    ASSUME NEW checks, DOMAIN checks \subseteq Nat
    PROVE  \/ FirstFault(checks) = "none" /\ \A i \in DOMAIN checks : ~checks[i][1]
           \/ \E i \in DOMAIN checks : checks[i][1] /\ FirstFault(checks) = checks[i][2]
<1> DEFINE failing == {i \in DOMAIN checks : checks[i][1]}
<1>1. CASE failing = {}
    BY <1>1, Zenon DEF FirstFault
<1>2. CASE failing # {}
  <2>1. Min(failing) \in failing
    BY <1>2, MinIs, Zenon
  <2>2. FirstFault(checks) = checks[Min(failing)][2]
    BY <1>2, Zenon DEF FirstFault
  <2> QED
    BY <2>1, <2>2, Zenon
<1> QED
    BY <1>1, <1>2, Zenon

\* The errors of a load.
Errors ==
    {"none", "bad_key_file", "bad_plaintext", "bad_sealed_file", "wrong_kek", "not_authentic", "plaintext_refused",
     "key_id", "not_configured", "unreadable", "same_filesystem"} \union ReadFault \union BodyFault \union KeyFault

\* What a check may say: whether it fails, and its error.
Outcomes == BOOLEAN \X Errors

\* A chain of checks, whose failing ones answer an error; and one that passes.
Chain(checks) ==
    checks \in Seq(Outcomes) /\ \A i \in DOMAIN checks : checks[i][1] => checks[i][2] # "none"
Clear(checks) == \A i \in DOMAIN checks : ~checks[i][1]

\* A chain answers "none" exactly when it is clear.
LEMMA ClearIs ==
    ASSUME NEW checks, Chain(checks)
    PROVE  FirstFault(checks) = "none" <=> Clear(checks)
<1>1. DOMAIN checks \subseteq Nat
    BY DEF Chain
<1>2. \A i \in DOMAIN checks : checks[i][1] => checks[i][2] # "none"
    BY Zenon DEF Chain
<1> QED
    BY <1>1, <1>2, FaultIs, Zenon DEF Clear

\* Two chains one after the other.
LEMMA JoinIs ==
    ASSUME NEW a, NEW b, Chain(a), Chain(b)
    PROVE  Chain(a \o b) /\ (Clear(a \o b) <=> Clear(a) /\ Clear(b))
<1>1. a \in Seq(Outcomes) /\ b \in Seq(Outcomes)
    BY Zenon DEF Chain
<1>2. a \o b \in Seq(Outcomes) /\ Len(a \o b) = Len(a) + Len(b) /\ Len(a) \in Nat /\ Len(b) \in Nat
    BY <1>1
<1>3. \A i \in 1..Len(a) : (a \o b)[i] = a[i] /\ i \in 1..Len(a \o b)
    BY <1>1, <1>2
<1>4. \A i \in 1..Len(b) : (a \o b)[i + Len(a)] = b[i] /\ i + Len(a) \in 1..Len(a \o b)
    BY <1>1, <1>2
<1>5. \A i \in 1..Len(a \o b) : i \in 1..Len(a) \/ \E j \in 1..Len(b) : i = j + Len(a)
  <2> SUFFICES ASSUME NEW i \in 1..Len(a \o b), i \notin 1..Len(a) PROVE \E j \in 1..Len(b) : i = j + Len(a)
    BY Zenon
  <2>1. i - Len(a) \in 1..Len(b) /\ i = (i - Len(a)) + Len(a)
    BY <1>2
  <2> QED
    BY <2>1, Zenon
<1>6. DOMAIN a = 1..Len(a) /\ DOMAIN b = 1..Len(b) /\ DOMAIN (a \o b) = 1..Len(a \o b)
    BY <1>1, <1>2
<1>7. ASSUME NEW i \in DOMAIN (a \o b), (a \o b)[i][1] PROVE (a \o b)[i][2] # "none"
  <2>1. CASE i \in 1..Len(a)
    BY <1>3, <1>6, <1>7, <2>1, Zenon DEF Chain
  <2>2. CASE \E j \in 1..Len(b) : i = j + Len(a)
    <3>1. PICK j \in 1..Len(b) : i = j + Len(a)
      BY <2>2, Zenon
    <3>2. (a \o b)[i] = b[j] /\ j \in DOMAIN b
      BY <1>4, <1>6, <3>1, Zenon
    <3>3. b[j][1] => b[j][2] # "none"
      BY <3>2, Zenon DEF Chain
    <3> QED
      BY <1>7, <3>2, <3>3, Zenon
  <2> QED
    BY <1>5, <1>6, <2>1, <2>2, Zenon
<1>8. Clear(a \o b) => Clear(a) /\ Clear(b)
    BY <1>3, <1>4, <1>6, Zenon DEF Clear
<1>9. ASSUME Clear(a), Clear(b), NEW i \in DOMAIN (a \o b) PROVE ~(a \o b)[i][1]
  <2>1. CASE i \in 1..Len(a)
    BY <1>3, <1>6, <1>9, <2>1, Zenon DEF Clear
  <2>2. CASE \E j \in 1..Len(b) : i = j + Len(a)
    BY <1>4, <1>6, <1>9, <2>2, Zenon DEF Clear
  <2> QED
    BY <1>5, <1>6, <2>1, <2>2, Zenon
<1> QED
    BY <1>2, <1>7, <1>8, <1>9, Zenon DEF Chain, Clear

\* Chains of one check and of several.
Check(p) == p \in Outcomes /\ (p[1] => p[2] # "none")

\* A check and what it answers.
LEMMA CheckIs ==
    ASSUME NEW b \in BOOLEAN, NEW e \in Errors, b => e # "none"
    PROVE  Check(<<b, e>>) /\ <<b, e>>[1] = b
    BY Zenon DEF Check, Outcomes

\* Chains of one to five checks, and when they are clear.
LEMMA OneCheck ==
    ASSUME NEW p1, Check(p1)
    PROVE  Chain(<<p1>>) /\ (Clear(<<p1>>) <=> ~p1[1])
<1>1. <<p1>> \in Seq(Outcomes)
    BY DEF Check
<1>2. DOMAIN <<p1>> = {1}
    OBVIOUS
<1>3. <<p1>>[1] = p1
    BY Zenon
<1> QED
    BY <1>1, <1>2, <1>3, Zenon DEF Chain, Clear, Check

\* Three checks.
LEMMA ThreeChecks ==
    ASSUME NEW p1, NEW p2, NEW p3, Check(p1), Check(p2), Check(p3)
    PROVE  Chain(<<p1, p2, p3>>) /\ (Clear(<<p1, p2, p3>>) <=> ~p1[1] /\ ~p2[1] /\ ~p3[1])
<1>1. <<p1, p2, p3>> \in Seq(Outcomes)
    BY DEF Check
<1>2. DOMAIN <<p1, p2, p3>> = {1, 2, 3}
    OBVIOUS
<1>3. <<p1, p2, p3>>[1] = p1 /\ <<p1, p2, p3>>[2] = p2 /\ <<p1, p2, p3>>[3] = p3
    BY Zenon
<1> QED
    BY <1>1, <1>2, <1>3, Zenon DEF Chain, Clear, Check

\* Four checks.
LEMMA FourChecks ==
    ASSUME NEW p1, NEW p2, NEW p3, NEW p4, Check(p1), Check(p2), Check(p3), Check(p4)
    PROVE  Chain(<<p1, p2, p3, p4>>) /\ (Clear(<<p1, p2, p3, p4>>) <=> ~p1[1] /\ ~p2[1] /\ ~p3[1] /\ ~p4[1])
<1>1. <<p1, p2, p3, p4>> \in Seq(Outcomes)
    BY DEF Check
<1>2. DOMAIN <<p1, p2, p3, p4>> = {1, 2, 3, 4}
    OBVIOUS
<1>3. <<p1, p2, p3, p4>>[1] = p1 /\ <<p1, p2, p3, p4>>[2] = p2 /\ <<p1, p2, p3, p4>>[3] = p3 /\ <<p1, p2, p3,
      p4>>[4] = p4
    BY Zenon
<1> DEFINE checks == <<p1, p2, p3, p4>>
<1>4. checks \in Seq(Outcomes) /\ DOMAIN checks = {1, 2, 3, 4} /\ checks[1] = p1 /\ checks[2] = p2 /\ checks[3] = p3 /\ checks[4] = p4
    BY <1>1, <1>2, <1>3, Zenon
<1> HIDE DEF checks
<1>5. \A i \in DOMAIN checks : checks[i][1] => checks[i][2] # "none"
    BY <1>4, Zenon DEF Check
<1>6. Clear(checks) <=> ~p1[1] /\ ~p2[1] /\ ~p3[1] /\ ~p4[1]
    BY <1>4, Zenon DEF Clear
<1> QED
    BY <1>4, <1>5, <1>6, Zenon DEF Chain, checks

\* Five checks.
LEMMA FiveChecks ==
    ASSUME NEW p1, NEW p2, NEW p3, NEW p4, NEW p5, Check(p1), Check(p2), Check(p3), Check(p4), Check(p5)
    PROVE  Chain(<<p1, p2, p3, p4, p5>>) /\ (Clear(<<p1, p2, p3, p4, p5>>) <=> ~p1[1] /\ ~p2[1] /\ ~p3[1] /\ ~p4[1] /\
          ~p5[1])
<1>1. <<p1, p2, p3, p4, p5>> \in Seq(Outcomes)
    BY DEF Check
<1>2. DOMAIN <<p1, p2, p3, p4, p5>> = {1, 2, 3, 4, 5}
    OBVIOUS
<1>3. <<p1, p2, p3, p4, p5>>[1] = p1 /\ <<p1, p2, p3, p4, p5>>[2] = p2 /\ <<p1, p2, p3, p4, p5>>[3] = p3 /\ <<p1, p2, p3,
      p4, p5>>[4] = p4 /\ <<p1, p2, p3, p4, p5>>[5] = p5
    BY Zenon
<1> DEFINE checks == <<p1, p2, p3, p4, p5>>
<1>4. checks \in Seq(Outcomes) /\ DOMAIN checks = {1, 2, 3, 4, 5} /\ checks[1] = p1 /\ checks[2] = p2 /\ checks[3] = p3 /\ checks[4] = p4 /\ checks[5] = p5
    BY <1>1, <1>2, <1>3, Zenon
<1> HIDE DEF checks
<1>5. \A i \in DOMAIN checks : checks[i][1] => checks[i][2] # "none"
    BY <1>4, Zenon DEF Check
<1>6. Clear(checks) <=> ~p1[1] /\ ~p2[1] /\ ~p3[1] /\ ~p4[1] /\ ~p5[1]
    BY <1>4, Zenon DEF Clear
<1> QED
    BY <1>4, <1>5, <1>6, Zenon DEF Chain, checks

\* Every file there can be.
File == [key : Saver \union {"none", "foreign"}, form : {"none", "seed", "macula", "other", "sealed"},
         fault : {"none"} \union ReadFault \union BodyFault \union KeyFault,
         whole : BOOLEAN, synced : BOOLEAN, kek : Kek \union {NoKek}]

SaveAt == {"idle", "generating", "making", "writing", "syncing", "renaming", "covering", "removing"}

KeyType ==
    /\ files \in Seq(File) /\ covered \in 0..Len(files) /\ failed \subseteq Saver
    /\ saving \in [Saver -> SaveAt]
    /\ staged \in [Saver -> File] /\ place \in [Saver -> Nat] /\ kept \in Nat
    /\ loading \in [at : {"idle", "statted", "opened", "loaded"}, position : Nat, floor : Nat]

\* A file that the load that fits it returns, and that no crash spoils.
Good(f) == f.fault = "none" /\ f.whole /\ f.synced /\ f.form \in {"seed", "sealed"}

\* No file put over a good one is worse.
GoodStays == \A i, j \in DOMAIN files : i <= j /\ Good(files[i]) => Good(files[j])

\* What a Save has staged, and where its file is.
SaveInv(s) ==
    /\ saving[s] = "writing" => staged[s] = Saved(s)
    /\ saving[s] = "syncing" => staged[s] = [Saved(s) EXCEPT !.whole = TRUE]
    /\ saving[s] = "renaming" => Good(staged[s])
    /\ place[s] # 0 => place[s] \in DOMAIN files /\ Good(files[place[s]])
    /\ (saving[s] = "removing" /\ s \notin failed) => place[s] <= covered

KeptInv == kept # 0 => kept <= covered /\ Good(files[kept])

LoadInv ==
    /\ loading.at = "statted" => loading.floor <= kept
    /\ loading.at \in {"opened", "loaded"} => loading.position \in DOMAIN files /\ loading.position >= loading.floor
    /\ loading.at = "loaded" => files[loading.position].whole

KeyInv == KeyType /\ GoodStays /\ (\A s \in Saver : SaveInv(s)) /\ KeptInv /\ LoadInv

---------------------------------------------------------------------------
(* The checks of a load *)

\* What each part of a load passes.
LEMMA ReadIs ==
    ASSUME NEW f
    PROVE  Chain(readKeyFile(f)) /\ (Clear(readKeyFile(f)) <=> f.fault \notin ReadFault)
<1> DEFINE b1 == f.fault = "not_regular"
           p1 == <<b1, "not_regular">>
           b2 == f.fault = "owner"
           p2 == <<b2, "owner">>
           b3 == f.fault = "permissions"
           p3 == <<b3, "permissions">>
           b4 == f.fault = "too_large"
           p4 == <<b4, "too_large">>
<1>1. Check(p1) /\ p1[1] = b1 /\ Check(p2) /\ p2[1] = b2 /\ Check(p3) /\ p3[1] = b3 /\ Check(p4) /\ p4[1] = b4
  <2>1. b1 \in BOOLEAN /\ "not_regular" \in Errors /\ "not_regular" # "none"
    BY Zenon DEF Errors, ReadFault, BodyFault, KeyFault
  <2>2. b2 \in BOOLEAN /\ "owner" \in Errors /\ "owner" # "none"
    BY Zenon DEF Errors, ReadFault, BodyFault, KeyFault
  <2>3. b3 \in BOOLEAN /\ "permissions" \in Errors /\ "permissions" # "none"
    BY Zenon DEF Errors, ReadFault, BodyFault, KeyFault
  <2>4. b4 \in BOOLEAN /\ "too_large" \in Errors /\ "too_large" # "none"
    BY Zenon DEF Errors, ReadFault, BodyFault, KeyFault
  <2> HIDE DEF b1, b2, b3, b4
  <2> QED
    BY <2>1, <2>2, <2>3, <2>4, CheckIs, Zenon
<1>2. readKeyFile(f) = <<p1, p2, p3, p4>>
    BY Zenon DEF readKeyFile
<1>3. f.fault \notin ReadFault <=> ~b1 /\ ~b2 /\ ~b3 /\ ~b4
    BY Zenon DEF ReadFault
<1> HIDE DEF b1, p1, b2, p2, b3, p3, b4, p4
<1>4. Chain(<<p1, p2, p3, p4>>) /\ (Clear(<<p1, p2, p3, p4>>) <=> ~p1[1] /\ ~p2[1] /\ ~p3[1] /\ ~p4[1])
    BY <1>1, FourChecks, Zenon
<1> QED
    BY <1>1, <1>2, <1>3, <1>4, Zenon

\* checkedKey passes a key without a fault.
LEMMA CheckedIs ==
    ASSUME NEW f
    PROVE  Chain(checkedKey(f)) /\ (f.fault = "none" => Clear(checkedKey(f)))
<1> DEFINE b1 == ~halvesFit(f)
           p1 == <<b1, "algorithms">>
           b2 == f.fault = "private"
           p2 == <<b2, "private">>
           b3 == f.fault = "public"
           p3 == <<b3, "public">>
           b4 == f.fault = "size"
           p4 == <<b4, "size">>
           b5 == f.fault = "round_trip"
           p5 == <<b5, "round_trip">>
<1>1. Check(p1) /\ p1[1] = b1 /\ Check(p2) /\ p2[1] = b2 /\ Check(p3) /\ p3[1] = b3 /\ Check(p4) /\ p4[1] = b4 /\
      Check(p5) /\ p5[1] = b5
  <2>1. b1 \in BOOLEAN /\ "algorithms" \in Errors /\ "algorithms" # "none"
    BY Zenon DEF Errors, ReadFault, BodyFault, KeyFault
  <2>2. b2 \in BOOLEAN /\ "private" \in Errors /\ "private" # "none"
    BY Zenon DEF Errors, ReadFault, BodyFault, KeyFault
  <2>3. b3 \in BOOLEAN /\ "public" \in Errors /\ "public" # "none"
    BY Zenon DEF Errors, ReadFault, BodyFault, KeyFault
  <2>4. b4 \in BOOLEAN /\ "size" \in Errors /\ "size" # "none"
    BY Zenon DEF Errors, ReadFault, BodyFault, KeyFault
  <2>5. b5 \in BOOLEAN /\ "round_trip" \in Errors /\ "round_trip" # "none"
    BY Zenon DEF Errors, ReadFault, BodyFault, KeyFault
  <2> HIDE DEF b1, b2, b3, b4, b5
  <2> QED
    BY <2>1, <2>2, <2>3, <2>4, <2>5, CheckIs, Zenon
<1>2. checkedKey(f) = <<p1, p2, p3, p4, p5>>
    BY Zenon DEF checkedKey
<1>3. f.fault = "none" => ~b1 /\ ~b2 /\ ~b3 /\ ~b4 /\ ~b5
    BY Zenon DEF halvesFit
<1> HIDE DEF b1, p1, b2, p2, b3, p3, b4, p4, b5, p5
<1>4. Chain(<<p1, p2, p3, p4, p5>>) /\ (Clear(<<p1, p2, p3, p4, p5>>) <=> ~p1[1] /\ ~p2[1] /\ ~p3[1] /\ ~p4[1] /\
      ~p5[1])
    BY <1>1, FiveChecks, Zenon
<1> QED
    BY <1>1, <1>2, <1>3, <1>4, Zenon

\* parseSealedPayload passes a payload whose halves fit.
LEMMA PayloadIs ==
    ASSUME NEW f
    PROVE  /\ Chain(parseSealedPayload(f))
           /\ Clear(parseSealedPayload(f)) <=> f.form \in {"seed", "macula"} /\ parseHalves(f) /\ halvesFit(f)
<1> DEFINE b1 == f.form \notin {"seed", "macula"} \/ ~parseHalves(f) \/ ~halvesFit(f)
           p1 == <<b1, "bad_plaintext">>
<1>1. Check(p1) /\ p1[1] = b1
  <2>1. b1 \in BOOLEAN /\ "bad_plaintext" \in Errors /\ "bad_plaintext" # "none"
    BY Zenon DEF Errors, ReadFault, BodyFault, KeyFault
  <2> HIDE DEF b1
  <2> QED
    BY <2>1, CheckIs, Zenon
<1>2. parseSealedPayload(f) = <<p1>>
    BY Zenon DEF parseSealedPayload
<1>3. f.form \in {"seed", "macula"} /\ parseHalves(f) /\ halvesFit(f) <=> ~b1
    BY Zenon
<1> HIDE DEF b1, p1
<1>4. Chain(<<p1>>) /\ (Clear(<<p1>>) <=> ~p1[1])
    BY <1>1, OneCheck, Zenon
<1> QED
    BY <1>1, <1>2, <1>3, <1>4, Zenon

\* askedFor passes a key of the purpose and profile asked for.
LEMMA AskedIs ==
    ASSUME NEW f
    PROVE  Chain(askedFor(f)) /\ (Clear(askedFor(f)) <=> f.fault \notin {"purpose", "profile"})
<1> DEFINE b1 == f.fault = "purpose"
           p1 == <<b1, "purpose">>
           b2 == f.fault = "profile"
           p2 == <<b2, "profile">>
<1>1. Check(p1) /\ p1[1] = b1 /\ Check(p2) /\ p2[1] = b2
  <2>1. b1 \in BOOLEAN /\ "purpose" \in Errors /\ "purpose" # "none"
    BY Zenon DEF Errors, ReadFault, BodyFault, KeyFault
  <2>2. b2 \in BOOLEAN /\ "profile" \in Errors /\ "profile" # "none"
    BY Zenon DEF Errors, ReadFault, BodyFault, KeyFault
  <2> HIDE DEF b1, b2
  <2> QED
    BY <2>1, <2>2, CheckIs, Zenon
<1>2. askedFor(f) = <<p1, p2>>
    BY Zenon DEF askedFor
<1>3. f.fault \notin {"purpose", "profile"} <=> ~b1 /\ ~b2
    BY Zenon
<1> HIDE DEF b1, p1, b2, p2
<1>4. Chain(<<p1>>) /\ (Clear(<<p1>>) <=> ~b1) /\ Chain(<<p2>>) /\ (Clear(<<p2>>) <=> ~b2)
    BY <1>1, OneCheck, Zenon
<1>5. <<p1, p2>> = <<p1>> \o <<p2>>
    OBVIOUS
<1>6. Chain(<<p1>> \o <<p2>>) /\ (Clear(<<p1>> \o <<p2>>) <=> ~b1 /\ ~b2)
    BY <1>4, JoinIs, Zenon
<1> QED
    BY <1>2, <1>3, <1>5, <1>6, Zenon

\* LoadKey passes exactly a file that is readable, whole, of its form, of the
\* purpose and profile asked for, and sound.
LEMMA LoadKeyIs ==
    ASSUME NEW f
    PROVE  LoadKey(f) = "none" <=> /\ Clear(readKeyFile(f)) /\ f.form = "seed" /\ parseHalves(f)
                                   /\ Clear(askedFor(f)) /\ Clear(checkedKey(f))
<1> DEFINE b == f.form # "seed" \/ ~parseHalves(f)
           p == <<b, "bad_key_file">>
<1>1. b \in BOOLEAN /\ "bad_key_file" \in Errors /\ "bad_key_file" # "none" /\ (~b <=> f.form = "seed" /\
      parseHalves(f))
    BY Zenon DEF Errors
<1>2. LoadKey(f) = FirstFault(readKeyFile(f) \o <<p>> \o askedFor(f) \o checkedKey(f))
    BY Zenon DEF LoadKey
<1> HIDE DEF b
<1>3. Check(p) /\ p[1] = b
    BY <1>1, CheckIs, Zenon
<1> HIDE DEF p
<1>4. Chain(<<p>>) /\ (Clear(<<p>>) <=> ~b)
    BY <1>3, OneCheck, Zenon
<1>5. Chain(readKeyFile(f) \o <<p>>) /\ (Clear(readKeyFile(f) \o <<p>>) <=> Clear(readKeyFile(f)) /\ ~b)
    BY <1>4, ReadIs, JoinIs, Zenon
<1>6. /\ Chain(readKeyFile(f) \o <<p>> \o askedFor(f))
      /\ Clear(readKeyFile(f) \o <<p>> \o askedFor(f)) <=> Clear(readKeyFile(f)) /\ ~b /\ Clear(askedFor(f))
    BY <1>5, AskedIs, JoinIs, Zenon
<1>7. /\ Chain(readKeyFile(f) \o <<p>> \o askedFor(f) \o checkedKey(f))
      /\ Clear(readKeyFile(f) \o <<p>> \o askedFor(f) \o checkedKey(f))
           <=> Clear(readKeyFile(f)) /\ ~b /\ Clear(askedFor(f)) /\ Clear(checkedKey(f))
    BY <1>6, CheckedIs, JoinIs, Zenon
<1> QED
    BY <1>1, <1>2, <1>7, ClearIs, Zenon

\* UnsealKeyFile passes a whole file, sealed with the key asked with, whose payload passes.
LEMMA UnsealIs ==
    ASSUME NEW f, NEW kek
    PROVE  /\ Chain(UnsealKeyFile(f, kek))
           /\ Clear(UnsealKeyFile(f, kek)) <=> /\ f.whole /\ f.kek = kek /\ f.fault # "bad"
                                               /\ Clear(parseSealedPayload(Payload(f))) /\ Clear(checkedKey(f))
<1> DEFINE b1 == ~f.whole
           p1 == <<b1, "bad_sealed_file">>
           b2 == f.kek # kek
           p2 == <<b2, "wrong_kek">>
           b3 == f.fault = "bad"
           p3 == <<b3, "not_authentic">>
<1>1. Check(p1) /\ p1[1] = b1 /\ Check(p2) /\ p2[1] = b2 /\ Check(p3) /\ p3[1] = b3
  <2>1. b1 \in BOOLEAN /\ b2 \in BOOLEAN /\ b3 \in BOOLEAN
    BY Zenon
  <2>2. "bad_sealed_file" \in Errors /\ "wrong_kek" \in Errors /\ "not_authentic" \in Errors
    BY Zenon DEF Errors
  <2>3. "bad_sealed_file" # "none" /\ "wrong_kek" # "none" /\ "not_authentic" # "none"
    BY Zenon
  <2> HIDE DEF b1, b2, b3
  <2> QED
    BY <2>1, <2>2, <2>3, CheckIs, Zenon
<1>2. UnsealKeyFile(f, kek) = <<p1, p2, p3>> \o parseSealedPayload(Payload(f)) \o checkedKey(f)
    BY Zenon DEF UnsealKeyFile
<1>3. ~b1 /\ ~b2 /\ ~b3 <=> f.whole /\ f.kek = kek /\ f.fault # "bad"
    BY Zenon
<1> HIDE DEF b1, p1, b2, p2, b3, p3
<1>4. Chain(<<p1, p2, p3>>) /\ (Clear(<<p1, p2, p3>>) <=> ~p1[1] /\ ~p2[1] /\ ~p3[1])
    BY <1>1, ThreeChecks, Zenon
<1> DEFINE first == <<p1, p2, p3>>
           second == parseSealedPayload(Payload(f))
<1>5. Chain(second)
    BY PayloadIs, Zenon
<1> HIDE DEF first, second
<1>6. Chain(first \o second) /\ (Clear(first \o second) <=> Clear(first) /\ Clear(second))
    BY <1>4, <1>5, JoinIs, Zenon DEF first
<1>7. /\ Chain(first \o second \o checkedKey(f))
      /\ Clear(first \o second \o checkedKey(f)) <=> Clear(first) /\ Clear(second) /\ Clear(checkedKey(f))
    BY <1>6, CheckedIs, JoinIs, Zenon
<1> QED
    BY <1>1, <1>2, <1>3, <1>4, <1>7, Zenon DEF first, second

\* What LoadSealedKey asks of the file between its bounds and its key.
Opens(f, mode, k) ==
    IF f.form = "sealed" THEN k.fault = "none" /\ Clear(UnsealKeyFile(f, k.kek))
    ELSE mode # "sealed_required" /\ Clear(parseSealedPayload(f)) /\ Clear(checkedKey(f))

\* LoadSealedKey passes exactly a readable file of the expected key that opens
\* under the KEK, or a plaintext one where the mode accepts it.
LEMMA LoadSealedIs ==
    ASSUME NEW f, NEW mode, NEW k, k.fault \in Errors, NEW expected
    PROVE  LoadSealedKey(f, mode, k, expected) = "none" <=>
             Clear(readKeyFile(f)) /\ Opens(f, mode, k) /\ expected \in {"any", f.key}
<1> DEFINE b1 == k.fault # "none"
           p1 == <<b1, k.fault>>
           b2 == mode = "sealed_required"
           p2 == <<b2, "plaintext_refused">>
           b3 == expected \notin {"any", f.key}
           p3 == <<b3, "key_id">>
           sealed == KEKFromFile(k) \o UnsealKeyFile(f, k.kek)
           plain == <<p2>> \o parseSealedPayload(f) \o checkedKey(f)
           body == IF f.form = "sealed" THEN sealed ELSE plain
           allowed == Opens(f, mode, k)
<1>1. Check(p1) /\ p1[1] = b1 /\ Check(p2) /\ p2[1] = b2 /\ Check(p3) /\ p3[1] = b3
  <2>1. b1 \in BOOLEAN /\ b2 \in BOOLEAN /\ b3 \in BOOLEAN
    BY Zenon
  <2>2. "plaintext_refused" \in Errors /\ "key_id" \in Errors
    BY Zenon DEF Errors
  <2>3. (b1 => k.fault # "none") /\ "plaintext_refused" # "none" /\ "key_id" # "none"
    BY Zenon
  <2> HIDE DEF b1, b2, b3
  <2> QED
    BY <2>1, <2>2, <2>3, CheckIs, Zenon
<1>2. KEKFromFile(k) = <<p1>>
    BY Zenon DEF KEKFromFile
<1>3. LoadSealedKey(f, mode, k, expected) = FirstFault(readKeyFile(f) \o body \o <<p3>>)
    BY Zenon DEF LoadSealedKey
<1>4. (~b1 <=> k.fault = "none") /\ (~b2 <=> mode # "sealed_required") /\ (~b3 <=> expected \in {"any", f.key})
    BY Zenon
<1> HIDE DEF p1, p2, p3, b1, b2, b3
<1>5. /\ Chain(<<p1>>) /\ (Clear(<<p1>>) <=> ~b1) /\ Chain(<<p2>>) /\ (Clear(<<p2>>) <=> ~b2)
      /\ Chain(<<p3>>) /\ (Clear(<<p3>>) <=> ~b3)
    BY <1>1, OneCheck, Zenon
<1>6. Chain(sealed) /\ (Clear(sealed) <=> k.fault = "none" /\ Clear(UnsealKeyFile(f, k.kek)))
    BY <1>2, <1>4, <1>5, UnsealIs, JoinIs, Zenon
<1>7. Chain(plain) /\ (Clear(plain) <=> mode # "sealed_required" /\ Clear(parseSealedPayload(f)) /\
      Clear(checkedKey(f)))
  <2>1. Chain(<<p2>> \o parseSealedPayload(f)) /\ (Clear(<<p2>> \o parseSealedPayload(f)) <=> ~b2 /\
        Clear(parseSealedPayload(f)))
    BY <1>5, PayloadIs, JoinIs, Zenon
  <2> QED
    BY <1>4, <2>1, CheckedIs, JoinIs, Zenon
<1>8. Chain(body) /\ (Clear(body) <=> allowed)
  <2> HIDE DEF sealed, plain
  <2>1. CASE f.form = "sealed"
    BY <1>6, <2>1, Zenon DEF Opens
  <2>2. CASE f.form # "sealed"
    BY <1>7, <2>2, Zenon DEF Opens
  <2> QED
    BY <2>1, <2>2, Zenon
<1> HIDE DEF body, allowed
<1>9. Chain(readKeyFile(f) \o body) /\ (Clear(readKeyFile(f) \o body) <=> Clear(readKeyFile(f)) /\ allowed)
    BY <1>8, ReadIs, JoinIs, Zenon
<1>10. /\ Chain(readKeyFile(f) \o body \o <<p3>>)
       /\ Clear(readKeyFile(f) \o body \o <<p3>>) <=> Clear(readKeyFile(f)) /\ allowed /\ ~b3
    BY <1>5, <1>9, JoinIs, Zenon
<1>11. LoadSealedKey(f, mode, k, expected) = "none" <=> Clear(readKeyFile(f)) /\ allowed /\ expected \in {"any",
      f.key}
    BY <1>3, <1>4, <1>10, ClearIs, Zenon
<1> QED
    BY <1>11, Zenon DEF allowed

\* A good file is loaded by the load that fits it.
LEMMA GoodLoads ==
    ASSUME NEW f \in File, Good(f)
    PROVE  Loads(f) = "none"
<1>1. f.fault = "none" /\ f.whole = TRUE /\ f.form \in {"seed", "sealed"}
    BY Zenon DEF Good, File
<1>2. f.fault \notin ReadFault /\ f.fault # "bad" /\ f.fault # "algorithms" 
    BY <1>1, Zenon DEF ReadFault
<1>3. Clear(readKeyFile(f)) /\ Clear(askedFor(f)) /\ Clear(checkedKey(f))
    BY <1>1, <1>2, ReadIs, AskedIs, CheckedIs, Zenon
<1>4. parseHalves(f)
    BY <1>1, <1>2, Zenon DEF parseHalves
<1>5. CASE f.form = "seed"
  <2>1. f.form # "sealed"
    BY <1>5, Zenon
  <2> QED
    BY <1>3, <1>4, <1>5, <2>1, LoadKeyIs, Zenon DEF Loads
<1>6. CASE f.form = "sealed"
  <2>1. Payload(f).form = "seed" /\ Payload(f).whole /\ Payload(f).fault = "none"
    BY <1>1, Zenon DEF Payload, File
  <2>2. Payload(f).form \in {"seed", "macula"} /\ parseHalves(Payload(f)) /\ halvesFit(Payload(f))
    BY <2>1, Zenon DEF parseHalves, halvesFit
  <2>3. Clear(parseSealedPayload(Payload(f)))
    BY <2>2, PayloadIs, Zenon
  <2> DEFINE k == [kek |-> f.kek, fault |-> "none"]
  <2>4. k.fault = "none" /\ k.kek = f.kek /\ "none" \in Errors
    BY Zenon DEF Errors
  <2>5. Loads(f) = LoadSealedKey(f, "sealed_required", k, f.key)
    BY <1>6, Zenon DEF Loads
  <2> HIDE DEF k
  <2>6. Clear(UnsealKeyFile(f, k.kek))
    BY <1>1, <1>2, <1>3, <2>3, <2>4, UnsealIs, Zenon
  <2>7. f.key \in {"any", f.key}
    BY Zenon
  <2>8. Opens(f, "sealed_required", k)
    BY <1>6, <2>4, <2>6, Zenon DEF Opens
  <2>9. LoadSealedKey(f, "sealed_required", k, f.key) = "none"
    <3> DEFINE mode == "sealed_required"
    <3>1. k.fault \in Errors /\ Opens(f, mode, k)
      BY <2>4, <2>8, Zenon
    <3> HIDE DEF mode
    <3>2. LoadSealedKey(f, mode, k, f.key) = "none"
      BY <1>3, <2>7, <3>1, LoadSealedIs, Zenon
    <3> QED
      BY <3>2, Zenon DEF mode
  <2> QED
    BY <2>5, <2>9, Zenon
<1> QED
    BY <1>1, <1>5, <1>6, Zenon

\* A load returns nothing of a file that is not whole.
LEMMA LoadedIsWhole ==
    ASSUME NEW f,
           \/ LoadKey(f) = "none"
           \/ \E mode \in {"accept", "sealed_required"}, k \in KekFile, expected \in {"any", "foreign"} \union Saver :
                 LoadSealedKey(f, mode, k, expected) = "none"
    PROVE  f.whole
<1>1. CASE LoadKey(f) = "none"
    BY <1>1, LoadKeyIs, Zenon DEF parseHalves
<1>2. ASSUME NEW mode, NEW k \in KekFile, NEW expected, LoadSealedKey(f, mode, k, expected) = "none"
      PROVE  f.whole
  <2>1. k.fault \in Errors
    BY Zenon DEF KekFile, Errors, ReadFault, KeyFault
  <2>3. Opens(f, mode, k)
    BY <1>2, <2>1, LoadSealedIs, Zenon
  <2>2. Clear(UnsealKeyFile(f, k.kek)) \/ Clear(parseSealedPayload(f))
    BY <2>3, Zenon DEF Opens
  <2> QED
    BY <2>2, UnsealIs, PayloadIs, Zenon DEF parseHalves
<1> QED
    BY <1>1, <1>2, Zenon

---------------------------------------------------------------------------
(* The invariant *)

\* The files at the path are those before, and perhaps more.
Extends ==
    /\ Len(files') >= Len(files)
    /\ \A i \in DOMAIN files : i \in DOMAIN files' /\ files'[i] = files[i]

\* The same files extend themselves.
LEMMA SameExtends ==
    ASSUME KeyType, files' = files
    PROVE  Extends
<1>1. Len(files) \in Nat
    BY DEF KeyType
<1> QED
    BY <1>1 DEF Extends

\* A file is put over the others.
LEMMA PutIs ==
    ASSUME KeyType, NEW g \in File, files' = Append(files, g)
    PROVE  /\ files' \in Seq(File) /\ Len(files') = Len(files) + 1 /\ files'[Len(files) + 1] = g /\ Extends
           /\ DOMAIN files' = 1..(Len(files) + 1) /\ Len(files) \in Nat /\ DOMAIN files = 1..Len(files)
<1>1. files \in Seq(File)
    BY Zenon DEF KeyType
<1>2. files' \in Seq(File) /\ Len(files') = Len(files) + 1 /\ files'[Len(files) + 1] = g /\ Len(files) \in Nat
    BY <1>1
<1>3. DOMAIN files' = 1..(Len(files) + 1) /\ DOMAIN files = 1..Len(files)
    BY <1>1, <1>2
<1>4. \A i \in 1..Len(files) : files'[i] = files[i]
    BY <1>1
<1>5. Extends
    BY <1>2, <1>3, <1>4 DEF Extends
<1> QED
    BY <1>2, <1>3, <1>5, Zenon

\* A file put in place of good ones, itself good, keeps the good ones good.
LEMMA PutGood ==
    ASSUME KeyType, GoodStays, NEW g \in File, files' = Append(files, g),
           \A i \in DOMAIN files : Good(files[i]) => Good(g)
    PROVE  GoodStays'
<1>1. /\ files'[Len(files) + 1] = g /\ Extends
      /\ DOMAIN files' = 1..(Len(files) + 1) /\ Len(files) \in Nat /\ DOMAIN files = 1..Len(files)
    BY PutIs, Zenon
<1> DEFINE n == Len(files)
<1>2. SUFFICES ASSUME NEW i \in DOMAIN files', NEW j \in DOMAIN files', i <= j, Good(files'[i])
               PROVE  Good(files'[j])
    BY Zenon DEF GoodStays, Good
<1> HIDE DEF n
<1>3. i \in 1..(n + 1) /\ j \in 1..(n + 1) /\ n \in Nat /\ DOMAIN files = 1..n
    BY <1>1, Zenon DEF n
<1>4. CASE j \in 1..n
  <2>1. i \in 1..n
    BY <1>2, <1>3, <1>4
  <2>2. files'[i] = files[i] /\ files'[j] = files[j]
    BY <1>1, <1>3, <1>4, <2>1, Zenon DEF Extends
  <2> QED
    BY <1>2, <1>3, <1>4, <2>1, <2>2, Zenon DEF GoodStays
<1>5. CASE j \notin 1..n
  <2>1. j = n + 1
    BY <1>3, <1>5
  <2>2. files'[j] = g
    BY <1>1, <2>1, Zenon DEF n
  <2>3. CASE i \in 1..n
    <3>1. Good(files[i])
      BY <1>1, <1>2, <1>3, <2>3, Zenon DEF Extends
    <3> QED
      BY <1>3, <2>2, <2>3, <3>1, Zenon
  <2>4. CASE i \notin 1..n
    <3>1. i = j
      BY <1>3, <2>1, <2>4
    <3> QED
      BY <1>2, <3>1, Zenon
  <2> QED
    BY <2>3, <2>4, Zenon
<1> QED
    BY <1>4, <1>5, Zenon

\* What a step leaves of a Save it does not touch, of what is kept, and of a load.
LEMMA OtherSave ==
    ASSUME NEW t \in Saver, KeyType, SaveInv(t), Extends, covered' \in Nat, covered' >= covered,
           saving'[t] = saving[t], staged'[t] = staged[t], place'[t] = place[t], t \in failed' <=> t \in failed
    PROVE  SaveInv(t)'
<1>1. place[t] \in Nat /\ covered \in Nat
    BY DEF KeyType
<1>2. place[t] <= covered => place'[t] <= covered'
    BY <1>1
<1>3. place'[t] # 0 => place'[t] \in DOMAIN files' /\ Good(files'[place'[t]])
    BY Zenon DEF SaveInv, Extends
<1>4. saving'[t] = "writing" => staged'[t] = Saved(t)
    BY Zenon DEF SaveInv
<1>5. saving'[t] = "syncing" => staged'[t] = [Saved(t) EXCEPT !.whole = TRUE]
    BY Zenon DEF SaveInv
<1>6. saving'[t] = "renaming" => Good(staged'[t])
    BY Zenon DEF SaveInv
<1>7. (saving'[t] = "removing" /\ t \notin failed') => place'[t] <= covered'
    BY <1>2, Zenon DEF SaveInv
<1> QED
    BY <1>3, <1>4, <1>5, <1>6, <1>7, Zenon DEF SaveInv, Good

\* What covers the kept key goes on doing so.
LEMMA KeptStays ==
    ASSUME KeyType, KeptInv, Extends, covered' \in Nat, covered' >= covered, kept' = kept
    PROVE  KeptInv'
<1> SUFFICES ASSUME kept # 0 PROVE kept <= covered' /\ Good(files'[kept])
    BY Zenon DEF KeptInv, Good
<1>1. kept <= covered /\ Good(files[kept])
    BY Zenon DEF KeptInv
<1>2. kept \in Nat /\ covered \in 0..Len(files) /\ Len(files) \in Nat /\ DOMAIN files = 1..Len(files)
    BY DEF KeyType
<1>3. kept \in DOMAIN files /\ kept <= covered'
    BY <1>1, <1>2
<1> QED
    BY <1>1, <1>3, Zenon DEF Extends

\* A load under way stays within what is kept.
LEMMA LoadStays ==
    ASSUME KeyType, LoadInv, Extends, loading' = loading, kept' \in Nat, kept' >= kept
    PROVE  LoadInv'
<1>1. kept \in Nat /\ loading.floor \in Nat
    BY Zenon DEF KeyType
<1>2. loading.floor <= kept => loading'.floor <= kept'
    BY <1>1
<1>3. loading'.at = "statted" => loading'.floor <= kept'
    BY <1>2, Zenon DEF LoadInv
<1>4. loading'.at \in {"opened", "loaded"} =>
         loading'.position \in DOMAIN files' /\ loading'.position >= loading'.floor
    BY Zenon DEF LoadInv, Extends
<1>5. loading'.at = "loaded" => files'[loading'.position].whole
  <2>1. "loaded" \in {"opened", "loaded"}
    BY Zenon
  <2> QED
    BY <2>1, Zenon DEF LoadInv, Extends
<1> QED
    BY <1>3, <1>4, <1>5, Zenon DEF LoadInv

\* A step of Save s that keeps its own part of the invariant keeps the whole.
LEMMA OneSave ==
    ASSUME NEW s \in Saver, KeyInv, KeyType', GoodStays', SaveInv(s)', Extends, covered' >= covered,
           \A t \in Saver \ {s} : /\ saving'[t] = saving[t] /\ staged'[t] = staged[t] /\ place'[t] = place[t]
                                  /\ t \in failed' <=> t \in failed,
           kept' = kept, loading' = loading
    PROVE  KeyInv'
<1>1. covered' \in Nat /\ kept' \in Nat /\ kept' >= kept
  <2>1. covered' \in 0..Len(files') /\ kept' \in Nat
    BY Zenon DEF KeyType
  <2> QED
    BY <2>1
<1>2. ASSUME NEW t \in Saver PROVE SaveInv(t)'
  <2>1. CASE t = s
    BY <2>1, Zenon
  <2>2. CASE t # s
    <3>1. /\ saving'[t] = saving[t] /\ staged'[t] = staged[t] /\ place'[t] = place[t]
          /\ t \in failed' <=> t \in failed
      BY <2>2, Zenon
    <3> QED
      BY <1>1, <3>1, OtherSave, Zenon DEF KeyInv
  <2> QED
    BY <2>1, <2>2, Zenon
<1>3. KeptInv' /\ LoadInv'
    BY <1>1, KeptStays, LoadStays, Zenon DEF KeyInv
<1> QED
    BY <1>2, <1>3, Zenon DEF KeyInv

\* A file written, and synced.
LEMMA WrittenIs ==
    ASSUME NEW f \in File, NEW v \in BOOLEAN
    PROVE  /\ [f EXCEPT !.whole = v] \in File /\ [f EXCEPT !.whole = v].whole = v
           /\ [f EXCEPT !.whole = v].fault = f.fault /\ [f EXCEPT !.whole = v].form = f.form
           /\ [f EXCEPT !.whole = v].synced = f.synced
    BY Zenon DEF File

\* A file that is synced.
LEMMA SyncedIs ==
    ASSUME NEW f \in File
    PROVE  /\ [f EXCEPT !.synced = TRUE] \in File /\ [f EXCEPT !.synced = TRUE].synced = TRUE
           /\ [f EXCEPT !.synced = TRUE].fault = f.fault /\ [f EXCEPT !.synced = TRUE].form = f.form
           /\ [f EXCEPT !.synced = TRUE].whole = f.whole
    BY Zenon DEF File

\* The files a Save stages.
LEMMA StagedIs ==
    ASSUME NEW s \in Saver
    PROVE  /\ NoFile \in File /\ Saved(s) \in File /\ [Saved(s) EXCEPT !.whole = TRUE] \in File
           /\ [[Saved(s) EXCEPT !.whole = TRUE] EXCEPT !.synced = TRUE] \in File
           /\ Good([[Saved(s) EXCEPT !.whole = TRUE] EXCEPT !.synced = TRUE])
<1>1. NoFile \in File /\ NoFile.fault = "none"
    BY Zenon DEF NoFile, File
<1>2. Saved(s) = [NoFile EXCEPT !.key = s, !.form = "seed"]
    BY Zenon DEF Saved
<1>3. Saved(s) \in File /\ Saved(s).fault = "none" /\ Saved(s).form = "seed"
    BY <1>1, <1>2, Zenon DEF File
<1> DEFINE f == Saved(s)
           half == [f EXCEPT !.whole = TRUE]
<1>4. half \in File /\ half.fault = "none" /\ half.form = "seed" /\ half.whole = TRUE
    BY <1>3, WrittenIs, Zenon
<1> HIDE DEF half, f
<1> DEFINE whole == [half EXCEPT !.synced = TRUE]
<1>5. whole \in File /\ whole.fault = "none" /\ whole.form = "seed" /\ whole.whole = TRUE /\ whole.synced = TRUE
    BY <1>4, SyncedIs, Zenon
<1> HIDE DEF whole
<1>6. Good(whole)
    BY <1>5, Zenon DEF Good
<1> QED
    BY <1>1, <1>3, <1>4, <1>5, <1>6, Zenon DEF whole, half, f

\* What a step of a Save does to how far it is and what it has staged.
LEMMA StepsIs ==
    ASSUME NEW s \in Saver, NEW a, NEW b \in SaveAt, NEW file \in File, KeyType, Steps(s, a, b, file)
    PROVE  /\ saving[s] = a /\ saving' \in [Saver -> SaveAt] /\ staged' \in [Saver -> File]
           /\ saving'[s] = b /\ staged'[s] = file
           /\ \A t \in Saver \ {s} : saving'[t] = saving[t] /\ staged'[t] = staged[t]
<1>1. saving \in [Saver -> SaveAt] /\ staged \in [Saver -> File]
    BY Zenon DEF KeyType
<1>2. saving[s] = a /\ saving' = [saving EXCEPT ![s] = b] /\ staged' = [staged EXCEPT ![s] = file]
    BY Zenon DEF Steps
<1> QED
    BY <1>1, <1>2, Zenon

\* A step of Save s to b that leaves the path, the errors and the places alone.
LEMMA QuietSave ==
    ASSUME NEW s \in Saver, NEW a, NEW b \in SaveAt \ {"removing"}, NEW file \in File, KeyInv, Steps(s, a, b, file),
           b = "writing" => file = Saved(s), b = "syncing" => file = [Saved(s) EXCEPT !.whole = TRUE],
           b = "renaming" => Good(file),
           UNCHANGED <<files, covered, failed, place, kept, loading, crashes>>
    PROVE  KeyInv'
<1>1. KeyType /\ GoodStays /\ SaveInv(s)
    BY Zenon DEF KeyInv
<1>2. /\ saving' \in [Saver -> SaveAt] /\ staged' \in [Saver -> File] /\ saving'[s] = b /\ staged'[s] = file
      /\ \A t \in Saver \ {s} : saving'[t] = saving[t] /\ staged'[t] = staged[t]
  <2>1. b \in SaveAt
    BY Zenon
  <2>2. KeyType /\ Steps(s, a, b, file)
    BY <1>1, Zenon
  <2> QED
    BY <2>1, <2>2, StepsIs, ZenonT(40)
<1>3. KeyType'
    BY <1>1, <1>2, Zenon DEF KeyType
<1>4. Extends
    BY <1>1, SameExtends, Zenon
<1>5. covered' >= covered
  <2>1. covered \in 0..Len(files) /\ covered' = covered
    BY <1>1, Zenon DEF KeyType
  <2> QED
    BY <2>1
<1>6. GoodStays'
    BY <1>1, Zenon DEF GoodStays, Good
<1>7. SaveInv(s)'
  <2>1. place'[s] # 0 => place'[s] \in DOMAIN files' /\ Good(files'[place'[s]])
    BY <1>1, Zenon DEF SaveInv
  <2>2. b # "removing"
    BY Zenon
  <2> QED
    BY <1>2, <2>1, <2>2, Zenon DEF SaveInv, Good
<1> QED
    BY <1>2, <1>3, <1>4, <1>5, <1>6, <1>7, OneSave, Zenon

\* A Save's first steps keep the invariant.
LEMMA SaveBeginsKeeps ==
    ASSUME NEW s \in Saver, KeyInv, SaveBegins(s) \/ Stage(s) \/ Write(s)
    PROVE  KeyInv'
<1> DEFINE making == "making"
           generating == "generating"
           writing == "writing"
           syncing == "syncing"
           renaming == "renaming"
           half == [Saved(s) EXCEPT !.whole = TRUE]
           whole == [half EXCEPT !.synced = TRUE]
<1>1. {making, generating, writing, syncing, renaming} \subseteq SaveAt \ {"removing"}
    BY Zenon DEF SaveAt
<1>2. {making, generating} \intersect {"writing", "syncing", "renaming"} = {} /\ writing \notin {"syncing",
      "renaming"}
      /\ syncing \notin {"writing", "renaming"} /\ renaming \notin {"writing", "syncing"}
    BY Zenon
<1>3. SaveInv(s) /\ KeyType
    BY Zenon DEF KeyInv
<1>4. NoFile \in File /\ Saved(s) \in File /\ half \in File /\ whole \in File /\ Good(whole)
    BY StagedIs, Zenon
<1>5. UNCHANGED <<files, covered, failed, place, kept, loading, crashes>>
    BY Zenon DEF SaveBegins, Stage, Write
<1>6. \/ \E a : Steps(s, a, making, NoFile)
      \/ \E a : Steps(s, a, generating, NoFile)
      \/ \E a : Steps(s, a, writing, Saved(s))
      \/ \E a : Steps(s, a, syncing, half)
      \/ \E a : Steps(s, a, renaming, whole)
  <2>1. CASE SaveBegins(s) \/ Stage(s)
    BY <2>1, Zenon DEF SaveBegins, Stage
  <2>2. CASE Write(s)
    <3>1. CASE Steps(s, "writing", "syncing", [staged[s] EXCEPT !.whole = TRUE])
      <4>1. saving[s] = "writing"
        BY <3>1, Zenon DEF Steps
      <4>2. staged[s] = Saved(s)
        BY <1>3, <4>1, Zenon DEF SaveInv
      <4> QED
        BY <3>1, <4>2, Zenon
    <3>2. CASE Steps(s, "syncing", "renaming", [staged[s] EXCEPT !.synced = TRUE])
      <4>1. saving[s] = "syncing"
        BY <3>2, Zenon DEF Steps
      <4>2. staged[s] = half
        BY <1>3, <4>1, Zenon DEF SaveInv
      <4> QED
        BY <3>2, <4>2, Zenon
    <3> QED
      BY <2>2, <3>1, <3>2, Zenon DEF Write, writeRestricted
  <2> QED
    BY <2>1, <2>2, Zenon
<1> HIDE DEF making, generating, writing, syncing, renaming
<1>7. CASE \E a : Steps(s, a, making, NoFile)
    BY <1>1, <1>2, <1>4, <1>5, <1>7, QuietSave, Zenon
<1>8. CASE \E a : Steps(s, a, generating, NoFile)
    BY <1>1, <1>2, <1>4, <1>5, <1>8, QuietSave, Zenon
<1>9. CASE \E a : Steps(s, a, writing, Saved(s))
    BY <1>1, <1>2, <1>4, <1>5, <1>9, QuietSave, Zenon
<1>10. CASE \E a : Steps(s, a, syncing, half)
    BY <1>1, <1>2, <1>4, <1>5, <1>10, QuietSave, Zenon
<1>11. CASE \E a : Steps(s, a, renaming, whole)
    BY <1>1, <1>2, <1>4, <1>5, <1>11, QuietSave, Zenon
<1> QED
    BY <1>6, <1>7, <1>8, <1>9, <1>10, <1>11, Zenon

\* The rename keeps the invariant.
LEMMA RenameKeeps ==
    ASSUME NEW s \in Saver, KeyInv, Rename(s)
    PROVE  KeyInv'
<1>1. KeyType /\ GoodStays /\ SaveInv(s)
    BY Zenon DEF KeyInv
<1>2. /\ Steps(s, "renaming", "covering", NoFile) /\ files' = Append(files, staged[s])
      /\ place' = [place EXCEPT ![s] = Len(files) + 1] /\ UNCHANGED <<covered, failed, kept, loading, crashes>>
    BY Zenon DEF Rename
<1>3. "covering" \in SaveAt /\ NoFile \in File
    BY StagedIs, Zenon DEF SaveAt
<1>4. /\ saving[s] = "renaming" /\ saving' \in [Saver -> SaveAt] /\ staged' \in [Saver -> File]
      /\ saving'[s] = "covering"
      /\ \A t \in Saver \ {s} : saving'[t] = saving[t] /\ staged'[t] = staged[t]
    BY <1>1, <1>2, <1>3, StepsIs, Zenon
<1>5. Good(staged[s]) /\ staged[s] \in File
    BY <1>1, <1>4, Zenon DEF SaveInv, KeyType
<1>6. /\ files' \in Seq(File) /\ Len(files') = Len(files) + 1 /\ files'[Len(files) + 1] = staged[s] /\ Extends
      /\ DOMAIN files' = 1..(Len(files) + 1) /\ Len(files) \in Nat
    BY <1>1, <1>2, <1>5, PutIs, Zenon
<1>7. GoodStays'
    BY <1>1, <1>2, <1>5, PutGood, Zenon
<1>8. place' \in [Saver -> Nat] /\ place'[s] = Len(files) + 1 /\ \A t \in Saver \ {s} : place'[t] = place[t]
  <2>1. place \in [Saver -> Nat] /\ Len(files) + 1 \in Nat
    BY <1>1, <1>6 DEF KeyType
  <2> QED
    BY <1>2, <2>1, Zenon
<1>9. covered' \in 0..Len(files') /\ covered' >= covered
  <2>1. covered \in 0..Len(files) /\ covered' = covered
    BY <1>1, <1>2, Zenon DEF KeyType
  <2> QED
    BY <1>6, <2>1
<1>10. KeyType'
    BY <1>1, <1>2, <1>4, <1>6, <1>8, <1>9, Zenon DEF KeyType
<1>11. Len(files) + 1 \in DOMAIN files'
    BY <1>6
<1>12. SaveInv(s)'
  <2>1. saving'[s] \notin {"writing", "syncing", "renaming", "removing"}
    BY <1>4, Zenon
  <2>2. place'[s] \in DOMAIN files' /\ Good(files'[place'[s]])
    BY <1>5, <1>6, <1>8, <1>11, Zenon
  <2> QED
    BY <2>1, <2>2, Zenon DEF SaveInv, Good
<1> QED
    BY <1>2, <1>4, <1>6, <1>7, <1>8, <1>9, <1>10, <1>12, OneSave, Zenon

\* The directory's sync keeps the invariant.
LEMMA SyncDirKeeps ==
    ASSUME NEW s \in Saver, KeyInv, SyncDir(s)
    PROVE  KeyInv'
<1>1. KeyType /\ GoodStays /\ SaveInv(s)
    BY Zenon DEF KeyInv
<1>2. /\ Steps(s, "covering", "removing", NoFile) /\ covered' = Len(files)
      /\ UNCHANGED <<files, failed, place, kept, loading, crashes>>
    BY Zenon DEF SyncDir
<1>3. "removing" \in SaveAt /\ NoFile \in File
    BY StagedIs, Zenon DEF SaveAt
<1>4. /\ saving' \in [Saver -> SaveAt] /\ staged' \in [Saver -> File] /\ saving'[s] = "removing"
      /\ \A t \in Saver \ {s} : saving'[t] = saving[t] /\ staged'[t] = staged[t]
    BY <1>1, <1>2, <1>3, StepsIs, Zenon
<1>5. Len(files) \in Nat /\ covered \in 0..Len(files) /\ DOMAIN files = 1..Len(files) /\ place[s] \in Nat
    BY <1>1 DEF KeyType
<1>6. covered' \in 0..Len(files') /\ covered' >= covered
    BY <1>2, <1>5
<1>7. KeyType'
    BY <1>1, <1>2, <1>4, <1>6, Zenon DEF KeyType
<1>8. Extends
    BY <1>1, <1>2, SameExtends, Zenon
<1>9. GoodStays'
    BY <1>1, <1>2, Zenon DEF GoodStays, Good
<1>10. SaveInv(s)'
  <2>1. saving'[s] \notin {"writing", "syncing", "renaming"}
    BY <1>4, Zenon
  <2>2. place'[s] # 0 => place'[s] \in DOMAIN files' /\ Good(files'[place'[s]])
    BY <1>1, <1>2, Zenon DEF SaveInv
  <2>3. place[s] # 0 => place[s] \in 1..Len(files)
    BY <1>1, <1>5, Zenon DEF SaveInv
  <2>4. place[s] <= Len(files)
    BY <1>5, <2>3
  <2> QED
    BY <1>2, <2>1, <2>2, <2>4, Zenon DEF SaveInv, Good
<1> QED
    BY <1>2, <1>4, <1>6, <1>7, <1>8, <1>9, <1>10, OneSave, Zenon

\* A Save that fails keeps the invariant.
LEMMA SaveFailsKeeps ==
    ASSUME NEW s \in Saver, KeyInv, SaveFails(s)
    PROVE  KeyInv'
<1>1. KeyType /\ GoodStays /\ SaveInv(s)
    BY Zenon DEF KeyInv
<1>2. PICK a : Steps(s, a, "removing", NoFile)
    BY Zenon DEF SaveFails
<1>3. failed' = failed \union {s} /\ UNCHANGED <<files, covered, place, kept, loading, crashes>>
    BY Zenon DEF SaveFails
<1>4. "removing" \in SaveAt /\ NoFile \in File
    BY StagedIs, Zenon DEF SaveAt
<1>5. /\ saving' \in [Saver -> SaveAt] /\ staged' \in [Saver -> File] /\ saving'[s] = "removing"
      /\ \A t \in Saver \ {s} : saving'[t] = saving[t] /\ staged'[t] = staged[t]
    BY <1>1, <1>2, <1>4, StepsIs, Zenon
<1>6. failed' \subseteq Saver /\ \A t \in Saver \ {s} : t \in failed' <=> t \in failed
    BY <1>1, <1>3, Zenon DEF KeyType
<1>7. KeyType'
    BY <1>1, <1>3, <1>5, <1>6, Zenon DEF KeyType
<1>8. covered' >= covered
  <2>1. covered \in 0..Len(files) /\ covered' = covered
    BY <1>1, <1>3, Zenon DEF KeyType
  <2> QED
    BY <2>1
<1>9. Extends
    BY <1>1, <1>3, SameExtends, Zenon
<1>10. GoodStays'
    BY <1>1, <1>3, Zenon DEF GoodStays, Good
<1>11. SaveInv(s)'
  <2>1. saving'[s] \notin {"writing", "syncing", "renaming"}
    BY <1>5, Zenon
  <2>2. place'[s] # 0 => place'[s] \in DOMAIN files' /\ Good(files'[place'[s]])
    BY <1>1, <1>3, Zenon DEF SaveInv
  <2>3. s \in failed'
    BY <1>3, Zenon
  <2> QED
    BY <2>1, <2>2, <2>3, Zenon DEF SaveInv, Good
<1> QED
    BY <1>3, <1>5, <1>6, <1>7, <1>8, <1>9, <1>10, <1>11, OneSave, Zenon

\* The larger of two numbers.
LEMMA MaxIs ==
    ASSUME NEW m \in Nat, NEW n \in Nat
    PROVE  Max({m, n}) \in {m, n} /\ Max({m, n}) >= m
<1>1. \E x \in {m, n} : \A y \in {m, n} : x >= y
  <2>1. CASE m >= n
    BY <2>1
  <2>2. CASE ~(m >= n)
    BY <2>2
  <2> QED
    BY <2>1, <2>2, Zenon
<1>2. Max({m, n}) \in {m, n} /\ \A y \in {m, n} : Max({m, n}) >= y
    BY <1>1, Zenon DEF Max
<1> QED
    BY <1>2, Zenon

\* A Save that returns nil is covered, so what is kept is safe.
LEMMA SaveReturnsKeeps ==
    ASSUME NEW s \in Saver, KeyInv, SaveReturns(s)
    PROVE  KeyInv'
<1>1. KeyType /\ GoodStays /\ SaveInv(s) /\ KeptInv /\ LoadInv
    BY Zenon DEF KeyInv
<1>2. /\ Steps(s, "removing", "idle", NoFile) /\ failed' = failed \ {s} /\ place' = [place EXCEPT ![s] = 0]
      /\ UNCHANGED <<files, covered, loading, crashes>>
    BY Zenon DEF SaveReturns
<1>3. kept' = kept \/ (s \notin failed /\ kept' = Max({kept, place[s]}))
  <2>1. kept' \in {kept} \union IF s \in failed THEN {} ELSE {Max({kept, place[s]})}
    BY Zenon DEF SaveReturns
  <2>2. CASE s \in failed
    BY <2>1, <2>2, Zenon
  <2>3. CASE s \notin failed
    BY <2>1, <2>3, Zenon
  <2> QED
    BY <2>2, <2>3, Zenon
<1>4. "idle" \in SaveAt /\ NoFile \in File
    BY StagedIs, Zenon DEF SaveAt
<1>5. /\ saving[s] = "removing" /\ saving' \in [Saver -> SaveAt] /\ staged' \in [Saver -> File] /\ saving'[s] = "idle"
      /\ \A t \in Saver \ {s} : saving'[t] = saving[t] /\ staged'[t] = staged[t]
    BY <1>1, <1>2, <1>4, StepsIs, Zenon
<1>6. /\ kept \in Nat /\ place[s] \in Nat /\ covered \in 0..Len(files) /\ covered' = covered /\ files' = files
      /\ place \in [Saver -> Nat]
    BY <1>1, <1>2, Zenon DEF KeyType
<1>7. kept' \in {kept, place[s]} /\ kept' >= kept
    BY <1>3, <1>6, MaxIs
<1>8. kept' = kept \/ (s \notin failed /\ kept' = place[s])
    BY <1>3, <1>7, Zenon
<1>9. kept' \in Nat /\ covered \in Nat /\ covered' \in Nat /\ covered' >= covered
    BY <1>6, <1>7
<1>10. place' \in [Saver -> Nat] /\ place'[s] = 0 /\ \A t \in Saver \ {s} : place'[t] = place[t]
    BY <1>2, <1>6, Zenon
<1>11. failed' \subseteq Saver /\ \A t \in Saver \ {s} : t \in failed' <=> t \in failed
    BY <1>1, <1>2, Zenon DEF KeyType
<1>12. KeyType'
    BY <1>1, <1>2, <1>5, <1>9, <1>10, <1>11, Zenon DEF KeyType
<1>13. Extends
    BY <1>1, <1>2, SameExtends, Zenon
<1>14. GoodStays'
    BY <1>1, <1>2, Zenon DEF GoodStays, Good
<1>15. ASSUME NEW t \in Saver PROVE SaveInv(t)'
  <2>1. CASE t = s
    <3>1. saving'[s] \notin {"writing", "syncing", "renaming", "removing"}
      BY <1>5, Zenon
    <3> QED
      BY <1>10, <2>1, <3>1, Zenon DEF SaveInv
  <2>2. CASE t # s
    <3>1. /\ saving'[t] = saving[t] /\ staged'[t] = staged[t] /\ place'[t] = place[t]
          /\ t \in failed' <=> t \in failed
      BY <1>5, <1>10, <1>11, <2>2, Zenon
    <3> QED
      BY <1>1, <1>9, <1>13, <3>1, OtherSave, Zenon DEF KeyInv
  <2> QED
    BY <2>1, <2>2, Zenon
<1>16. KeptInv'
  <2>1. CASE kept' = kept
    BY <1>1, <1>9, <1>13, <2>1, KeptStays, Zenon
  <2>2. CASE s \notin failed /\ kept' = place[s]
    BY <1>1, <1>5, <1>6, <2>2, Zenon DEF SaveInv, KeptInv, Good
  <2> QED
    BY <1>8, <2>1, <2>2, Zenon
<1>17. LoadInv'
    BY <1>1, <1>2, <1>7, <1>9, <1>13, LoadStays, Zenon
<1> QED
    BY <1>12, <1>14, <1>15, <1>16, <1>17, Zenon DEF KeyInv

\* A step that leaves the path and the Saves alone.
LEMMA OnlyLoad ==
    ASSUME KeyInv, loading' \in [at : {"idle", "statted", "opened", "loaded"}, position : Nat, floor : Nat], LoadInv',
           UNCHANGED <<files, covered, saving, staged, failed, place, kept>>
    PROVE  KeyInv'
<1>1. KeyType'
    BY Zenon DEF KeyInv, KeyType
<1>2. GoodStays'
    BY Zenon DEF KeyInv, GoodStays, Good
<1>3. KeptInv'
    BY Zenon DEF KeyInv, KeptInv, Good
<1>4. ASSUME NEW t \in Saver PROVE SaveInv(t)'
  <2>1. KeyType /\ SaveInv(t)
    BY Zenon DEF KeyInv
  <2>2. covered \in 0..Len(files) /\ covered' = covered
    BY <2>1, Zenon DEF KeyType
  <2>3. covered' \in Nat /\ covered' >= covered
    BY <2>2
  <2>4. Extends
    BY <2>1, SameExtends, Zenon
  <2> QED
    BY <2>1, <2>3, <2>4, OtherSave, Zenon
<1> QED
    BY <1>1, <1>2, <1>3, <1>4, Zenon DEF KeyInv

\* The steps of a load keep the invariant.
LEMMA LoadKeeps ==
    ASSUME KeyInv, LoadStats \/ LoadOpens \/ LoadReads \/ LoadEnds
    PROVE  KeyInv'
<1>1. KeyType /\ LoadInv /\ KeptInv
    BY Zenon DEF KeyInv
<1>2. UNCHANGED <<files, covered, saving, staged, failed, place, kept>>
    BY Zenon DEF LoadStats, LoadOpens, LoadReads, LoadEnds
<1>3. /\ loading \in [at : {"idle", "statted", "opened", "loaded"}, position : Nat, floor : Nat] /\ kept \in Nat
      /\ Len(files) \in Nat /\ DOMAIN files = 1..Len(files) /\ covered \in 0..Len(files)
    BY <1>1 DEF KeyType
<1>4. CASE LoadStats
  <2>1. loading' = [at |-> "statted", position |-> 0, floor |-> kept]
    BY <1>4, Zenon DEF LoadStats, Idle
  <2>2. loading' \in [at : {"idle", "statted", "opened", "loaded"}, position : Nat, floor : Nat]
    BY <1>3, <2>1, Zenon
  <2>3. loading'.at = "statted" /\ loading'.floor <= kept
    BY <1>3, <2>1
  <2>4. loading'.at \notin {"opened", "loaded"}
    BY <2>3, Zenon
  <2>5. LoadInv'
    BY <1>2, <2>3, <2>4, Zenon DEF LoadInv
  <2> QED
    BY <1>2, <2>2, <2>5, OnlyLoad, Zenon
<1>5. CASE LoadOpens
  <2>1. /\ loading.at = "statted" /\ files # <<>>
        /\ loading' = [loading EXCEPT !.at = "opened", !.position = Len(files)]
    BY <1>5, Zenon DEF LoadOpens
  <2>2. /\ loading' \in [at : {"idle", "statted", "opened", "loaded"}, position : Nat, floor : Nat]
        /\ loading'.at = "opened" /\ loading'.position = Len(files) /\ loading'.floor = loading.floor
    BY <1>3, <2>1, Zenon
  <2>3. loading.floor <= kept /\ loading.floor \in Nat
    BY <1>1, <1>3, <2>1, Zenon DEF LoadInv
  <2>4. kept <= Len(files)
    BY <1>1, <1>3 DEF KeptInv
  <2>5. Len(files) # 0
    BY <1>1, <2>1 DEF KeyType
  <2>6. Len(files) \in DOMAIN files /\ Len(files) >= loading.floor
    BY <1>3, <2>3, <2>4, <2>5
  <2>7. loading'.at # "statted" /\ loading'.at # "loaded"
    BY <2>2, Zenon
  <2>8. LoadInv'
    BY <1>2, <2>2, <2>6, <2>7, Zenon DEF LoadInv
  <2> QED
    BY <1>2, <2>2, <2>8, OnlyLoad, Zenon
<1>6. CASE LoadReads
  <2>1. loading.at = "opened" /\ loading' = [loading EXCEPT !.at = "loaded"]
    BY <1>6, Zenon DEF LoadReads
  <2>2. /\ loading' \in [at : {"idle", "statted", "opened", "loaded"}, position : Nat, floor : Nat]
        /\ loading'.at = "loaded" /\ loading'.position = loading.position /\ loading'.floor = loading.floor
    BY <1>3, <2>1, Zenon
  <2>3. files[loading.position].whole
    BY <1>6, LoadedIsWhole, Zenon DEF LoadReads
  <2>4. loading.position \in DOMAIN files /\ loading.position >= loading.floor
    BY <1>1, <2>1, Zenon DEF LoadInv
  <2>5. loading'.at # "statted"
    BY <2>2, Zenon
  <2>6. LoadInv'
    BY <1>2, <2>2, <2>3, <2>4, <2>5, Zenon DEF LoadInv
  <2> QED
    BY <1>2, <2>2, <2>6, OnlyLoad, Zenon
<1>7. CASE LoadEnds
  <2>1. loading' = [at |-> "idle", position |-> 0, floor |-> 0]
    BY <1>7, Zenon DEF LoadEnds, Idle
  <2>2. loading' \in [at : {"idle", "statted", "opened", "loaded"}, position : Nat, floor : Nat] /\
        loading'.at = "idle"
    BY <2>1, Zenon
  <2>3. LoadInv'
    BY <2>2, Zenon DEF LoadInv
  <2> QED
    BY <1>2, <2>2, <2>3, OnlyLoad, Zenon
<1> QED
    BY <1>4, <1>5, <1>6, <1>7, Zenon

\* Sealing a good file makes a good file.
LEMMA SealKeeps ==
    ASSUME NEW kek \in Kek, KeyInv, Seals(kek)
    PROVE  KeyInv'
<1> DEFINE f == AtPath
           g == [SealKeyFile(f, kek) EXCEPT !.synced = TRUE]
<1>1. KeyType /\ GoodStays /\ KeptInv /\ LoadInv
    BY Zenon DEF KeyInv
<1>2. /\ files # <<>> /\ files' = Append(files, g) /\ covered' = Len(files')
      /\ UNCHANGED <<saving, staged, failed, place, kept, loading, crashes>>
    BY Zenon DEF Seals
<1>3. files \in Seq(File) /\ Len(files) \in Nat /\ DOMAIN files = 1..Len(files) /\ covered \in 0..Len(files)
    BY <1>1 DEF KeyType
<1>4. Len(files) \in DOMAIN files
    BY <1>2, <1>3
<1>5. f \in File
    BY <1>3, <1>4 DEF AtPath
<1> HIDE DEF f
<1>6. /\ SealKeyFile(f, kek) \in File /\ SealKeyFile(f, kek).form = "sealed"
      /\ SealKeyFile(f, kek).fault = f.fault /\ SealKeyFile(f, kek).whole = f.whole
    BY <1>5, Zenon DEF SealKeyFile, File
<1>7. g \in File /\ g.form = "sealed" /\ g.fault = f.fault /\ g.whole = f.whole /\ g.synced = TRUE
    BY <1>6, SyncedIs, Zenon
<1> HIDE DEF g
<1>8. Good(f) => Good(g)
    BY <1>7, Zenon DEF Good
<1>9. ASSUME NEW i \in DOMAIN files, Good(files[i]) PROVE Good(g)
  <2>1. i <= Len(files)
    BY <1>3
  <2> QED
    BY <1>1, <1>4, <1>8, <1>9, <2>1, Zenon DEF GoodStays, AtPath, f
<1>10. GoodStays'
    BY <1>1, <1>2, <1>7, <1>9, PutGood, Zenon
<1>11. files' \in Seq(File) /\ Len(files') = Len(files) + 1 /\ Extends
    BY <1>1, <1>2, <1>7, PutIs, Zenon
<1>12. covered' \in 0..Len(files') /\ covered' \in Nat /\ covered' >= covered
    BY <1>2, <1>3, <1>11
<1>13. KeyType'
    BY <1>1, <1>2, <1>11, <1>12, Zenon DEF KeyType
<1>14. ASSUME NEW t \in Saver PROVE SaveInv(t)'
    BY <1>1, <1>2, <1>11, <1>12, OtherSave, Zenon DEF KeyInv
<1>15. kept' \in Nat /\ kept' >= kept
  <2>1. kept \in Nat /\ kept' = kept
    BY <1>1, <1>2, Zenon DEF KeyType
  <2> QED
    BY <2>1
<1>16. KeptInv' /\ LoadInv'
    BY <1>1, <1>2, <1>11, <1>12, <1>15, KeptStays, LoadStays, Zenon
<1> QED
    BY <1>10, <1>13, <1>14, <1>16, Zenon DEF KeyInv

\* A crash loses no good file that a sync of the directory covered.
LEMMA CrashKeeps ==
    ASSUME KeyInv, Crash
    PROVE  KeyInv'
<1>1. KeyType /\ GoodStays /\ KeptInv
    BY Zenon DEF KeyInv
<1>2. PICK n \in covered..Len(files), lost \in SUBSET {i \in 1..Len(files) : ~files[i].synced} :
         /\ files' = [i \in 1..n |-> IF i \in lost THEN [files[i] EXCEPT !.whole = FALSE] ELSE files[i]]
         /\ covered' = n
    BY Zenon DEF Crash
<1>3. /\ saving' = [s \in Saver |-> "idle"] /\ staged' = [s \in Saver |-> NoFile] /\ failed' = {}
      /\ place' = [s \in Saver |-> 0] /\ loading' = Idle /\ kept' = kept
    BY Zenon DEF Crash
<1>4. /\ files \in Seq(File) /\ Len(files) \in Nat /\ DOMAIN files = 1..Len(files) /\ covered \in 0..Len(files)
      /\ kept \in Nat
    BY <1>1 DEF KeyType
<1>5. n \in Nat /\ n <= Len(files) /\ covered <= n /\ 1..n \subseteq 1..Len(files)
    BY <1>4
<1>6. ASSUME NEW i \in 1..n
      PROVE  /\ files'[i] \in File
             /\ files'[i] = files[i] \/ (i \in lost /\ files'[i] = [files[i] EXCEPT !.whole = FALSE])
  <2>1. files[i] \in File
    BY <1>4, <1>5
  <2>2. [files[i] EXCEPT !.whole = FALSE] \in File
    BY <2>1, WrittenIs, Zenon
  <2>3. files'[i] = IF i \in lost THEN [files[i] EXCEPT !.whole = FALSE] ELSE files[i]
    BY <1>2, Zenon
  <2> QED
    BY <2>1, <2>2, <2>3, Zenon
<1>7. DOMAIN files' = 1..n
    BY <1>2, Zenon
<1>8. files' \in [1..n -> File]
    BY <1>2, <1>6, <1>7, Zenon
<1>9. files' \in Seq(File) /\ Len(files') = n
    BY <1>5, <1>8
<1>10. ASSUME NEW i \in 1..n PROVE Good(files'[i]) <=> Good(files[i])
  <2>1. files[i] \in File
    BY <1>4, <1>5
  <2>2. CASE files'[i] = files[i]
    BY <2>2, Zenon
  <2>3. CASE i \in lost /\ files'[i] = [files[i] EXCEPT !.whole = FALSE]
    <3>1. files'[i].synced = files[i].synced /\ ~files[i].synced
      BY <2>1, <2>3, WrittenIs, Zenon
    <3> QED
      BY <3>1, Zenon DEF Good
  <2> QED
    BY <1>6, <2>2, <2>3, Zenon
<1>11. GoodStays'
  <2>1. \A i, j \in 1..n : i <= j /\ Good(files'[i]) => Good(files'[j])
    BY <1>1, <1>4, <1>5, <1>10, Zenon DEF GoodStays
  <2> QED
    BY <1>7, <2>1, Zenon DEF GoodStays, Good
<1>12. KeptInv'
  <2> SUFFICES ASSUME kept # 0 PROVE kept <= n /\ Good(files'[kept])
    BY <1>2, <1>3, Zenon DEF KeptInv, Good
  <2>1. kept <= covered /\ Good(files[kept])
    BY <1>1, Zenon DEF KeptInv
  <2>2. kept \in 1..n /\ kept <= n
    BY <1>4, <1>5, <2>1
  <2> QED
    BY <1>10, <2>1, <2>2, Zenon
<1>13. loading' \in [at : {"idle", "statted", "opened", "loaded"}, position : Nat, floor : Nat] /\
      loading'.at = "idle"
    BY <1>3, Zenon DEF Idle
<1>14. LoadInv'
    BY <1>13, Zenon DEF LoadInv
<1>15. KeyType'
  <2>1. saving' \in [Saver -> SaveAt] /\ place' \in [Saver -> Nat] /\ failed' \subseteq Saver
    BY <1>3, Zenon DEF SaveAt
  <2>2. staged' \in [Saver -> File]
    <3>1. \A s \in Saver : NoFile \in File
      BY StagedIs, Zenon
    <3> QED
      BY <1>3, <3>1, Zenon
  <2>3. covered' \in 0..Len(files')
    BY <1>2, <1>5, <1>9
  <2> QED
    BY <1>3, <1>4, <1>9, <1>13, <2>1, <2>2, <2>3, Zenon DEF KeyType
<1>16. ASSUME NEW s \in Saver PROVE SaveInv(s)'
  <2>1. saving'[s] = "idle" /\ place'[s] = 0
    BY <1>3, Zenon
  <2>2. saving'[s] \notin {"writing", "syncing", "renaming", "removing"}
    BY <2>1, Zenon
  <2> QED
    BY <2>1, <2>2, Zenon DEF SaveInv
<1> QED
    BY <1>11, <1>12, <1>14, <1>15, <1>16, Zenon DEF KeyInv

\* The initial states satisfy the invariant.
LEMMA KeyInvInit == KeyInit => KeyInv
<1> SUFFICES ASSUME KeyInit PROVE KeyInv
    BY Zenon
<1>1. /\ saving = [s \in Saver |-> "idle"] /\ staged = [s \in Saver |-> NoFile] /\ failed = {}
      /\ place = [s \in Saver |-> 0] /\ loading = Idle /\ kept = 0 /\ covered = Len(files)
    BY Zenon DEF KeyInit
<1>2. files = <<>> \/ \E f \in File : files = <<f>>
  <2>1. ASSUME NEW fault \in {"none"} \union ReadFault \union BodyFault \union KeyFault,
               NEW form \in {"seed", "macula", "other"}
        PROVE  Foreign(fault, form) \in File
    BY Zenon DEF Foreign, File
  <2>2. \/ files = <<>>
        \/ \E fault \in ReadFault \union BodyFault \union KeyFault : files = <<Foreign(fault, "seed")>>
        \/ \E form \in {"seed", "macula", "other"} : files = <<Foreign("none", form)>>
    BY Zenon DEF KeyInit
  <2>3. "seed" \in {"seed", "macula", "other"} /\
        "none" \in {"none"} \union ReadFault \union BodyFault \union KeyFault
    BY Zenon
  <2>4. \A fault \in ReadFault \union BodyFault \union KeyFault :
           fault \in {"none"} \union ReadFault \union BodyFault \union KeyFault
    BY Zenon
  <2> QED
    BY <2>1, <2>2, <2>3, <2>4, Zenon
<1>3. /\ files \in Seq(File) /\ Len(files) \in Nat /\ DOMAIN files \subseteq {1}
  <2>1. CASE files = <<>>
    BY <2>1
  <2>2. CASE \E f \in File : files = <<f>>
    BY <2>2
  <2> QED
    BY <1>2, <2>1, <2>2, Zenon
<1>4. GoodStays
  <2>1. \A i, j \in DOMAIN files : i = j
    BY <1>3, Zenon
  <2> QED
    BY <2>1, Zenon DEF GoodStays
<1>5. KeyType
  <2>1. saving \in [Saver -> SaveAt] /\ place \in [Saver -> Nat] /\ failed \subseteq Saver /\ kept \in Nat
    BY <1>1, Zenon DEF SaveAt
  <2>2. staged \in [Saver -> File]
    <3>1. \A s \in Saver : NoFile \in File
      BY StagedIs, Zenon
    <3> QED
      BY <1>1, <3>1, Zenon
  <2>3. covered \in 0..Len(files)
    BY <1>1, <1>3
  <2>4. loading \in [at : {"idle", "statted", "opened", "loaded"}, position : Nat, floor : Nat]
    BY <1>1, Zenon DEF Idle
  <2> QED
    BY <1>3, <2>1, <2>2, <2>3, <2>4, Zenon DEF KeyType
<1>6. ASSUME NEW s \in Saver PROVE SaveInv(s)
  <2>1. saving[s] = "idle" /\ place[s] = 0
    BY <1>1, Zenon
  <2>2. saving[s] \notin {"writing", "syncing", "renaming", "removing"}
    BY <2>1, Zenon
  <2> QED
    BY <2>1, <2>2, Zenon DEF SaveInv
<1>7. KeptInv /\ LoadInv
  <2>1. loading.at = "idle"
    BY <1>1, Zenon DEF Idle
  <2> QED
    BY <1>1, <2>1, Zenon DEF KeptInv, LoadInv
<1> QED
    BY <1>4, <1>5, <1>6, <1>7, Zenon DEF KeyInv

\* Every step keeps the invariant.
LEMMA KeyStep == KeyInv /\ [KeyNext]_keyvars => KeyInv'
<1> SUFFICES ASSUME KeyInv, [KeyNext]_keyvars PROVE KeyInv'
    BY Zenon
<1>1. CASE UNCHANGED keyvars
  <2>1. UNCHANGED <<files, covered, saving, staged, failed, place, kept, loading>>
    BY <1>1, Zenon DEF keyvars
  <2>2. LoadInv'
    BY <2>1, Zenon DEF KeyInv, LoadInv
  <2>3. loading' \in [at : {"idle", "statted", "opened", "loaded"}, position : Nat, floor : Nat]
    BY <2>1, Zenon DEF KeyInv, KeyType
  <2> QED
    BY <2>1, <2>2, <2>3, OnlyLoad, Zenon
<1>2. ASSUME NEW s \in Saver, SaveBegins(s) \/ Stage(s) \/ Write(s) \/ Rename(s) \/ SyncDir(s) \/ SaveFails(s)
                              \/ SaveReturns(s)
      PROVE  KeyInv'
    BY <1>2, SaveBeginsKeeps, RenameKeeps, SyncDirKeeps, SaveFailsKeeps, SaveReturnsKeeps, Zenon
<1>3. CASE LoadStats \/ LoadOpens \/ LoadReads \/ LoadEnds
    BY <1>3, LoadKeeps, Zenon
<1>4. ASSUME NEW kek \in Kek, Seals(kek) PROVE KeyInv'
    BY <1>4, SealKeeps, Zenon
<1>5. CASE Crash
    BY <1>5, CrashKeeps, Zenon
<1> QED
    BY <1>1, <1>2, <1>3, <1>4, <1>5, Zenon DEF KeyNext

\* Once Save has returned nil the path holds that key or one put there later,
\* and the load that fits it returns it; and no load returns an older one.  This
\* holds for any number of Saves and of crashes, at any step (key_file.go, Save).
THEOREM SavedKeysSurvive == KeySpec => []SavedSurvives
<1>1. KeyInit => KeyInv
    BY KeyInvInit, Zenon
<1>2. KeyInv /\ [KeyNext]_keyvars => KeyInv'
    BY KeyStep, Zenon
<1>3. KeyInv => SavedSurvives
  <2> SUFFICES ASSUME KeyInv PROVE SavedSurvives
    BY Zenon
  <2>1. KeyType /\ GoodStays /\ KeptInv /\ LoadInv
    BY Zenon DEF KeyInv
  <2>2. /\ files \in Seq(File) /\ Len(files) \in Nat /\ DOMAIN files = 1..Len(files) /\ covered \in 0..Len(files)
        /\ kept \in Nat
    BY <2>1 DEF KeyType
  <2>3. ASSUME kept > 0 PROVE Len(files) >= kept /\ Loads(AtPath) = "none"
    <3>1. kept # 0
      BY <2>2, <2>3
    <3>2. kept <= covered /\ Good(files[kept])
      BY <2>1, <3>1, Zenon DEF KeptInv
    <3>3. kept \in DOMAIN files /\ Len(files) \in DOMAIN files /\ kept <= Len(files) /\ Len(files) >= kept
      BY <2>2, <3>1, <3>2
    <3>4. Good(files[Len(files)])
      BY <2>1, <3>2, <3>3, Zenon DEF GoodStays
    <3>5. files[Len(files)] \in File
      BY <2>2, <3>3
    <3> QED
      BY <3>3, <3>4, <3>5, GoodLoads, Zenon DEF AtPath
  <2>4. loading.at = "loaded" => files[loading.position].whole /\ loading.position >= loading.floor
    <3>1. "loaded" \in {"opened", "loaded"}
      BY Zenon
    <3> QED
      BY <2>1, <3>1, Zenon DEF LoadInv
  <2> QED
    BY <2>3, <2>4, Zenon DEF SavedSurvives
<1> QED
    BY <1>1, <1>2, <1>3, PTL DEF KeySpec
-----------------------------------------------------------------------------
\* The call's channel: the binding was told its answer was taken exactly when
\* the answer is the binding's, and what a handler returned is the call's answer.
AnswerInv ==
    /\ given \in [Item -> {"none", "binding", "deadline", "withdrawn"}]
    /\ returns \in [Item -> {"none", "binding", "deadline", "withdrawn"}]
    /\ told \subseteq Item
    /\ \A i \in Item : i \in told <=> given[i] = "binding"
    /\ \A i \in Item : returns[i] # "none" => returns[i] = given[i]

\* expire keeps the call's answer when there is one, and otherwise gives it.
LEMMA ExpireKeeps ==
  ASSUME AnswerInv, NEW i \in Item, Expire(i), UNCHANGED told
  PROVE  AnswerInv'
BY Zenon DEF AnswerInv, Expire

\* The answer of a call is what its handler returns, to whichever of the binding's
\* threads, the deadline and the stop came first.
THEOREM AnswersTakenAreReturned == CabiSpec => []TakenIsReturned
<1>1. CabiInit => AnswerInv
  BY Zenon DEF CabiInit, AnswerInv
<1>2. AnswerInv /\ [CabiNext]_cabivars => AnswerInv'
  <2> SUFFICES ASSUME AnswerInv, [CabiNext]_cabivars PROVE AnswerInv'
    BY Zenon
  <2>1. CASE UNCHANGED <<given, returns, told>>
    BY <2>1, Zenon DEF AnswerInv
  <2>2. ASSUME NEW i \in Item, NotTaken(i) PROVE AnswerInv'
    <3>1. UNCHANGED told
      BY <2>2, Zenon DEF NotTaken
    <3>2. CASE serves = "calls"
      BY <2>2, <3>1, <3>2, ExpireKeeps, Zenon DEF NotTaken
    <3>3. CASE serves # "calls"
      BY <2>1, <2>2, <3>1, <3>3, Zenon DEF NotTaken
    <3> QED BY <3>2, <3>3, Zenon
  <2>3. ASSUME NEW i \in Item, Answered(i) PROVE AnswerInv'
    BY <2>3, Zenon DEF Answered, AnswerInv
  <2>4. ASSUME NEW i \in Item, Deadline(i) PROVE AnswerInv'
    BY <2>4, ExpireKeeps, Zenon DEF Deadline
  <2>5. ASSUME NEW i \in Item, NEW t \in Thread, Answer(t, i) PROVE AnswerInv'
    <3>1. CASE given[i] = "none"
      BY <2>5, <3>1, Zenon DEF Answer, AnswerInv
    <3>2. CASE given[i] # "none"
      BY <2>1, <2>5, <3>2, Zenon DEF Answer
    <3> QED BY <3>1, <3>2, Zenon
  <2>6. ASSUME NEW i \in Item, StopAnswers(i) PROVE AnswerInv'
    BY <2>6, Zenon DEF StopAnswers, AnswerInv
  <2>7. ASSUME NEW i \in Item,
               \/ Arrives(i) \/ Hold(i) \/ Waits(i) \/ SessionOver(i) \/ ServedNext(i)
               \/ SessionEnds(i) \/ StreamFree(i)
        PROVE  UNCHANGED <<given, returns, told>>
    BY <2>7, Zenon DEF Arrives, Hold, Waits, SessionOver, ServedNext, SessionEnds, StreamFree
  <2>8. ASSUME NEW t \in Thread, Forget(t) PROVE UNCHANGED <<given, returns, told>>
    BY <2>8, Zenon DEF Forget
  <2>9. ASSUME PoolClose \/ TakeOwned \/ ShutOwned \/ Subscribed \/ Inboxed \/ EventsOver
                  \/ Unsubscribes \/ SubStops
        PROVE  UNCHANGED <<given, returns, told>>
    BY <2>9, Zenon DEF PoolClose, TakeOwned, ShutOwned, Subscribed, Inboxed, EventsOver, Unsubscribes,
                       SubStops, served_vars
  <2>10. ASSUME \/ Offer \/ OfferOwns \/ StopWithdraws \/ StopShuts \/ StopDisowns \/ StopDrains
                \/ StopTakesPending \/ StopEnds
         PROVE  UNCHANGED <<given, returns, told>>
    BY <2>10, Zenon DEF Offer, OfferOwns, StopWithdraws, StopShuts, StopDisowns, StopDrains,
                        StopTakesPending, StopEnds
  <2>11. CASE UNCHANGED cabivars
    BY <2>1, <2>11, Zenon DEF cabivars, served_vars
  <2> QED BY <2>1, <2>2, <2>3, <2>4, <2>5, <2>6, <2>7, <2>8, <2>9, <2>10, <2>11, Zenon DEF CabiNext
<1>3. AnswerInv => TakenIsReturned
  BY Zenon DEF AnswerInv, TakenIsReturned
<1> QED BY <1>1, <1>2, <1>3, PTL DEF CabiSpec
-----------------------------------------------------------------------------
\* The inductive invariant of the inboxes: one that was made over the pool is
\* the pool's to close until it is closed, and a pool that closed owns none.
OwnedInv ==
    /\ proc \in {"owned", "withdrawn"} => "served" \in owned \union shutting \union shut
    /\ proc \in {"shut", "draining", "answering", "stopped"} => "served" \in shut
    /\ sub \in {"owned", "unsubscribed"} => "sub" \in owned \union shutting \union shut
    /\ sub = "stopped" => "sub" \in shut
    /\ lp \in {"closed", "over"} => owned = {}
    /\ lp # "closed" => shutting = {}

\* The inductive invariant of the handles: a call with one is pending, or left to
\* the stop, or was held too late for it; a session with one is on its way to the
\* inbox, or in it, or the binding's.
HandlesInv ==
    /\ waits \in Seq(Item)
    /\ DOMAIN handled = Item
    /\ serves = "calls" => live \subseteq pending \union left \union late
    /\ serves # "calls" => \A i \in live : i \in has \/ handled[i] = "pushing" \/ \E k \in 1..Len(waits) : waits[k] = i
    /\ proc \in {"answering", "stopped"} => waits = <<>> /\ pending \subseteq late
    /\ proc # "answering" => left = {}
    /\ live \subseteq Item /\ serves \in {"calls", "sessions"}

StrandedInv == OwnedInv /\ HandlesInv

\* The initial states satisfy the invariant.
LEMMA StrandedInit == CabiInit => StrandedInv
BY DEF CabiInit, StrandedInv, OwnedInv, HandlesInv

\* Steps that touch no ownership.
LEMMA OwnedQuiet ==
  ASSUME OwnedInv, UNCHANGED <<proc, owner_vars>>
  PROVE  OwnedInv'
BY Zenon DEF OwnedInv, owner_vars

\* Every step keeps the ownership.
LEMMA OwnedStep == OwnedInv /\ [CabiNext]_cabivars => OwnedInv'
<1> SUFFICES ASSUME OwnedInv, [CabiNext]_cabivars PROVE OwnedInv'
  BY Zenon
<1>1. ASSUME NEW i \in Item,
             \/ Arrives(i) \/ Hold(i) \/ Waits(i) \/ NotTaken(i) \/ Answered(i) \/ Deadline(i)
             \/ SessionOver(i) \/ ServedNext(i) \/ SessionEnds(i) \/ StreamFree(i) \/ StopAnswers(i)
             \/ \E t \in Thread : Answer(t, i)
      PROVE  OwnedInv'
  BY <1>1, OwnedQuiet, Zenon DEF Arrives, Hold, Waits, NotTaken, Answered, Deadline, SessionOver, ServedNext,
                                 SessionEnds, StreamFree, StopAnswers, Answer
<1>2. ASSUME NEW t \in Thread, Forget(t) PROVE OwnedInv'
  BY <1>2, OwnedQuiet, Zenon DEF Forget
<1>3. CASE PoolClose \/ TakeOwned
  BY <1>3, Zenon DEF PoolClose, TakeOwned, OwnedInv, served_vars
<1>4. CASE ShutOwned
  BY <1>4, Zenon DEF ShutOwned, OwnedInv, served_vars
<1>5. CASE Offer \/ StopWithdraws \/ StopShuts \/ StopTakesPending \/ StopEnds
  BY <1>5, Zenon DEF Offer, StopWithdraws, StopShuts, StopTakesPending, StopEnds, OwnedInv, owner_vars
<1>6. CASE OfferOwns
  BY <1>6, Zenon DEF OfferOwns, own, OwnedInv
<1>7. CASE StopDisowns
  BY <1>7, Zenon DEF StopDisowns, disown, OwnedInv
<1>8. CASE StopDrains
  BY <1>8, OwnedQuiet, Zenon DEF StopDrains
<1>9. CASE Subscribed \/ EventsOver \/ Unsubscribes
  BY <1>9, Zenon DEF Subscribed, EventsOver, Unsubscribes, OwnedInv, served_vars
<1>10. CASE Inboxed
  BY <1>10, Zenon DEF Inboxed, own, OwnedInv, served_vars
<1>11. CASE SubStops
  BY <1>11, Zenon DEF SubStops, disown, OwnedInv, served_vars
<1>12. CASE UNCHANGED cabivars
  BY <1>12, OwnedQuiet, Zenon DEF cabivars, served_vars
<1> QED
  BY <1>1, <1>2, <1>3, <1>4, <1>5, <1>6, <1>7, <1>8, <1>9, <1>10, <1>11, <1>12, Zenon DEF CabiNext

\* Steps that only move a handler, and none into its push.
LEMMA HandlesQuiet ==
  ASSUME HandlesInv, UNCHANGED <<serves, proc, live, pending, left, late, waits, has>>,
         DOMAIN handled' = Item,
         \A i \in Item : handled[i] = "pushing" => handled'[i] = "pushing"
  PROVE  HandlesInv'
BY Zenon DEF HandlesInv

\* Every step keeps the handles accounted for.
LEMMA HandlesStep == OwnedInv /\ HandlesInv /\ [CabiNext]_cabivars => HandlesInv'
<1> SUFFICES ASSUME OwnedInv, HandlesInv, [CabiNext]_cabivars PROVE HandlesInv'
  BY Zenon
<1>t. DOMAIN handled = Item /\ waits \in Seq(Item) /\ live \subseteq Item
  BY Zenon DEF HandlesInv
<1>1. ASSUME NEW i \in Item, Arrives(i) \/ Answered(i) \/ Deadline(i) \/ SessionOver(i) PROVE HandlesInv'
  <2>1. /\ handled[i] # "pushing" /\ \E to : handled' = [handled EXCEPT ![i] = to]
        /\ UNCHANGED <<serves, proc, live, pending, left, late, waits, has>>
    BY <1>1, Zenon DEF Arrives, Answered, Deadline, SessionOver
  <2> QED
    BY <1>t, <2>1, HandlesQuiet, Zenon
<1>2. ASSUME NEW i \in Item, Hold(i) PROVE HandlesInv'
  BY <1>2, Zenon DEF Hold, HandlesInv
<1>3. ASSUME NEW i \in Item, Waits(i) PROVE HandlesInv'
  <2>1. /\ waits' = Append(waits, i) /\ handled' = [handled EXCEPT ![i] = "waiting"] /\ "served" \notin shut
        /\ UNCHANGED <<serves, proc, live, pending, left, late, has>>
    BY <1>3, Zenon DEF Waits
  <2>2. waits' \in Seq(Item) /\ Len(waits') = Len(waits) + 1 /\ Len(waits) \in Nat /\ waits'[Len(waits) + 1] = i
        /\ \A k \in 1..Len(waits) : waits'[k] = waits[k]
    BY <1>t, <2>1
  <2>3. proc' \notin {"answering", "stopped"}
    BY <2>1, Zenon DEF OwnedInv
  <2>4. serves' # "calls" => \A j \in live' : j \in has' \/ handled'[j] = "pushing" \/ \E k \in 1..Len(waits') : waits'[k] = j
    BY <1>t, <2>1, <2>2 DEF HandlesInv
  <2> QED
    BY <1>t, <2>1, <2>2, <2>3, <2>4, Zenon DEF HandlesInv
<1>4. ASSUME NEW i \in Item, NotTaken(i) PROVE HandlesInv'
  <2>1. handled' = [handled EXCEPT ![i] = "returned"] /\ UNCHANGED <<serves, proc, pending, left, late, waits, has>>
    BY <1>4, Zenon DEF NotTaken
  <2>2. live' = IF serves = "calls" THEN live ELSE live \ {i}
    BY <1>4, Zenon DEF NotTaken
  <2> QED
    BY <2>1, <2>2, Zenon DEF HandlesInv
<1>5. ASSUME NEW i \in Item, ServedNext(i) PROVE HandlesInv'
  <2>1. /\ proc # "stopped" /\ waits # <<>> /\ i = Head(waits) /\ waits' = Tail(waits) /\ has' = has \union {i}
        /\ UNCHANGED <<serves, proc, handled, live, pending, left, late>>
    BY <1>5, Zenon DEF ServedNext
  <2>2. /\ waits' \in Seq(Item) /\ waits[1] = i
        /\ \A k \in 1..Len(waits) : k # 1 => k - 1 \in 1..Len(waits') /\ waits'[k - 1] = waits[k]
    BY <1>t, <2>1
  <2>3. ASSUME serves # "calls", NEW j \in live, j \notin has', handled[j] # "pushing"
        PROVE  \E k \in 1..Len(waits') : waits'[k] = j
    <3>1. PICK k \in 1..Len(waits) : waits[k] = j
      BY <2>1, <2>3, Zenon DEF HandlesInv
    <3> QED
      BY <2>1, <2>2, <2>3, <3>1, Zenon
  <2>4. proc' \notin {"answering", "stopped"}
    BY <2>1, Zenon DEF HandlesInv
  <2> QED
    BY <2>1, <2>2, <2>3, <2>4, Zenon DEF HandlesInv
<1>6. ASSUME NEW i \in Item, SessionEnds(i) \/ \E t \in Thread : Answer(t, i) PROVE HandlesInv'
  BY <1>6, <1>t, HandlesQuiet, Zenon DEF SessionEnds, Answer
<1>7. ASSUME NEW i \in Item, StreamFree(i) PROVE HandlesInv'
  BY <1>7, Zenon DEF StreamFree, HandlesInv
<1>8. ASSUME NEW i \in Item, StopAnswers(i) PROVE HandlesInv'
  BY <1>8, Zenon DEF StopAnswers, HandlesInv
<1>9. ASSUME NEW t \in Thread, Forget(t) PROVE HandlesInv'
  BY <1>9, Zenon DEF Forget, HandlesInv
<1>10. CASE PoolClose \/ TakeOwned \/ ShutOwned \/ Subscribed \/ Inboxed \/ EventsOver \/ Unsubscribes \/ SubStops
  <2>1. UNCHANGED served_vars
    BY <1>10, Zenon DEF PoolClose, TakeOwned, ShutOwned, Subscribed, Inboxed, EventsOver, Unsubscribes, SubStops
  <2> QED
    BY <2>1, Zenon DEF served_vars, HandlesInv
<1>11. CASE Offer \/ OfferOwns \/ StopWithdraws \/ StopShuts \/ StopDisowns
  <2>1. /\ proc # "answering" /\ proc' \notin {"answering", "stopped"}
        /\ UNCHANGED <<serves, live, pending, left, late, waits, has, handled>>
    BY <1>11, Zenon DEF Offer, OfferOwns, StopWithdraws, StopShuts, StopDisowns
  <2> QED
    BY <2>1, Zenon DEF HandlesInv
<1>12. CASE StopDrains
  <2>1. /\ proc = "draining" /\ waits # <<>> /\ waits' = Tail(waits)
        /\ UNCHANGED <<serves, proc, handled, pending, left, late, has>>
    BY <1>12, Zenon DEF StopDrains
  <2>2. IF serves = "calls" THEN live' = live ELSE live' = live \ {Head(waits)}
    <3>1. serves \in {"calls", "sessions"}
      BY Zenon DEF HandlesInv
    <3> QED
      BY <1>12, <3>1, Zenon DEF StopDrains
  <2>3. /\ waits' \in Seq(Item) /\ waits[1] = Head(waits)
        /\ \A k \in 1..Len(waits) : k # 1 => k - 1 \in 1..Len(waits') /\ waits'[k - 1] = waits[k]
    BY <1>t, <2>1
  <2>4. ASSUME serves # "calls", NEW j \in live', j \notin has, handled[j] # "pushing"
        PROVE  \E k \in 1..Len(waits') : waits'[k] = j
    <3>1. PICK k \in 1..Len(waits) : waits[k] = j
      BY <2>1, <2>2, <2>4, Zenon DEF HandlesInv
    <3> QED
      BY <2>2, <2>3, <2>4, <3>1, Zenon
  <2> QED
    BY <2>1, <2>2, <2>3, <2>4, Zenon DEF HandlesInv
<1>13. CASE StopTakesPending
  BY <1>13, Zenon DEF StopTakesPending, HandlesInv
<1>14. CASE StopEnds
  BY <1>14, Zenon DEF StopEnds, HandlesInv
<1>15. CASE UNCHANGED cabivars
  BY <1>15, Zenon DEF cabivars, served_vars, HandlesInv
<1> QED
  BY <1>1, <1>2, <1>3, <1>4, <1>5, <1>6, <1>7, <1>8, <1>9, <1>10, <1>11, <1>12, <1>13, <1>14, <1>15, Zenon DEF CabiNext

\* Nothing is stranded, for any items, threads and room of the inboxes.
THEOREM OwnersStrandNothing == CabiSpec => []NothingStranded
<1>1. StrandedInv /\ [CabiNext]_cabivars => StrandedInv'
  BY OwnedStep, HandlesStep, Zenon DEF StrandedInv
<1>2. StrandedInv => NothingStranded
  <2> SUFFICES ASSUME StrandedInv PROVE NothingStranded
    BY Zenon
  <2>1. lp = "over" => /\ proc \in {"owned", "stopped"} => "served" \in shut
                       /\ sub \in {"owned", "stopped"} => "sub" \in shut
    BY Zenon DEF StrandedInv, OwnedInv
  <2>2. ASSUME proc = "stopped", \A i \in Item : handled[i] \notin {"arrived", "pushing"}
        PROVE  live \subseteq (late \union IF serves = "sessions" THEN has ELSE {})
    <3>1. serves \in {"calls", "sessions"}
      BY Zenon DEF StrandedInv, HandlesInv
    <3> QED
      BY <2>2, <3>1 DEF StrandedInv, HandlesInv
  <2> QED
    BY <2>1, <2>2, Zenon DEF NothingStranded
<1> QED
  BY StrandedInit, <1>1, <1>2, PTL DEF CabiSpec
-----------------------------------------------------------------------------
\* The queue after a take is empty exactly when one item was there.
LEMMA TailEmpty ==
    ASSUME NEW q \in Seq(BOOLEAN), q # <<>>
    PROVE  /\ Tail(q) \in Seq(BOOLEAN) /\ Len(Tail(q)) = Len(q) - 1 /\ Len(q) \in Nat \ {0}
           /\ Tail(q) # <<>> => Len(q) > 1
  OBVIOUS

\* Every step keeps the types and the queue's bound.
LEMMA TypeStep == TypeOK /\ [Next]_vars => TypeOK'
<1> SUFFICES ASSUME TypeOK, [Next]_vars PROVE TypeOK'
  BY Zenon
<1> USE SizeAssumption DEF TypeOK, PushAt, NextAt, CloseAt, queue
<1>1. CASE UNCHANGED vars
  BY <1>1, Zenon DEF vars
<1>2. ASSUME NEW p \in Pusher, PushStep(p) PROVE TypeOK'
  <2>1. CASE \E isNotice \in BOOLEAN : push(p, isNotice)
    BY <2>1, Zenon DEF push
  <2>2. CASE PushClosed(p) \/ PushWaits(p)
    BY <2>2, Zenon DEF PushClosed, PushWaits, PushFrom
  <2>3. CASE PushRoom(p)
    <3>1. items' = Append(items, notice[p]) /\ Len(items) < Capacity
      BY <2>3, Zenon DEF PushRoom
    <3>2. items' \in Seq(BOOLEAN) /\ Len(items') <= Capacity
      BY <3>1
    <3> QED
      BY <2>3, <3>2, Zenon DEF PushRoom, PushFrom
  <2>4. CASE PushRefused(p)
    BY <2>4 DEF PushRefused, PushFrom
  <2>5. CASE PushOver(p)
    <3>1. items' = Append(Tail(items), notice[p]) /\ Len(items) >= Capacity
      BY <2>5, Zenon DEF PushOver
    <3>2. items # <<>>
      BY <3>1
    <3>3. Tail(items) \in Seq(BOOLEAN) /\ Len(Tail(items)) = Len(items) - 1 /\ Len(items) \in Nat
      BY <3>2, TailEmpty, Zenon
    <3>4. items' \in Seq(BOOLEAN) /\ Len(items') <= Capacity
      BY <3>1, <3>3
    <3> QED
      BY <2>5, <3>4 DEF PushOver, PushFrom
  <2>6. CASE PushSignals(p) \/ PushWakes(p) \/ PushGivesUp(p)
    BY <2>6, Zenon DEF PushSignals, PushWakes, PushGivesUp
  <2> QED
    BY <1>2, <2>1, <2>2, <2>3, <2>4, <2>5, <2>6, Zenon DEF PushStep, TryPush
<1>3. ASSUME NEW t \in Taker, NextStep(t) PROVE TypeOK'
  <2>1. CASE next(t)
    BY <2>1, Zenon DEF next
  <2>2. CASE NextTakes(t)
    <3>1. items' \in Seq(BOOLEAN) /\ Len(items') <= Capacity
      BY <2>2, TailEmpty DEF NextTakes
    <3> QED
      BY <2>2, <3>1, Zenon DEF NextTakes, NextFrom
  <2>3. CASE NextEnds(t) \/ NextWaits(t)
    BY <2>3, Zenon DEF NextEnds, NextWaits, NextFrom
  <2>4. CASE NextSignalsRoom(t) \/ NextSignalsReady(t)
    BY <2>4, Zenon DEF NextSignalsRoom, NextSignalsReady
  <2>5. CASE NextWakes(t) \/ NextGivesUp(t)
    BY <2>5, Zenon DEF NextWakes, NextGivesUp
  <2> QED
    BY <1>3, <2>1, <2>2, <2>3, <2>4, <2>5, Zenon DEF NextStep, TryNext
<1>4. ASSUME NEW c \in Closer, CloseStep(c) PROVE TypeOK'
  BY <1>4, Zenon DEF CloseStep, close, CloseSignalsReady, CloseSignalsRoom
<1> QED
  BY <1>1, <1>2, <1>3, <1>4, Zenon DEF Next

\* The queue holds at most its capacity, under every policy.
THEOREM TypeCorrect == Spec => []TypeOK
<1>1. Init => TypeOK
  <2> SUFFICES ASSUME Init PROVE TypeOK
    BY Zenon
  <2>1. items \in Seq(BOOLEAN) /\ Len(items) = 0 /\ dropped \in Nat
    BY DEF Init
  <2>2. Len(items) <= Capacity
    BY <2>1, SizeAssumption
  <2>3. closed \in BOOLEAN /\ ready \in BOOLEAN /\ room \in BOOLEAN /\ endSeen \in BOOLEAN
    BY Zenon DEF Init
  <2>4. /\ policy \in Policy /\ pushing \in [Pusher -> PushAt] /\ taking \in [Taker -> NextAt]
        /\ closing \in [Closer -> CloseAt]
    BY Zenon DEF Init, PushAt, NextAt, CloseAt
  <2>5. notice \in [Pusher -> BOOLEAN]
    BY Zenon DEF Init
  <2> QED
    BY <2>1, <2>2, <2>3, <2>4, <2>5, Zenon DEF TypeOK
<1> QED
  BY <1>1, TypeStep, PTL DEF Spec

\* A pusher's step loses no wake-up: what it queues it announces.
LEMMA PushKeepsWakeups ==
    ASSUME TypeOK, TakersWoken, NEW p \in Pusher, PushStep(p)
    PROVE  TakersWoken'
<1> USE DEF TypeOK, TakersWoken, ToTake, ReadyComing, queue
<1>1. CASE \E isNotice \in BOOLEAN : push(p, isNotice)
  BY <1>1 DEF push
<1>2. CASE PushClosed(p) \/ PushRefused(p) \/ PushWaits(p)
  BY <1>2, Zenon DEF PushClosed, PushRefused, PushWaits, PushFrom
<1>3. CASE PushRoom(p) \/ PushOver(p)
  <2>1. pushing'[p] = "queued"
    BY <1>3, Zenon DEF PushRoom, PushOver, PushFrom
  <2> QED
    BY <2>1, Zenon
<1>4. CASE PushSignals(p)
  BY <1>4, Zenon DEF PushSignals
<1>5. CASE PushWakes(p) \/ PushGivesUp(p)
  BY <1>5, Zenon DEF PushWakes, PushGivesUp
<1> QED
  BY <1>1, <1>2, <1>3, <1>4, <1>5, Zenon DEF PushStep, TryPush

\* Nor does a taker's: it passes the token on when it leaves something.
LEMMA NextKeepsWakeups ==
    ASSUME TypeOK, TakersWoken, NEW t \in Taker, NextStep(t)
    PROVE  TakersWoken'
<1> USE DEF TypeOK, TakersWoken, ToTake, ReadyComing, queue
<1>1. CASE next(t) \/ NextWakes(t)
  <2>1. taking'[t] = "try"
    BY <1>1, Zenon DEF next, NextWakes
  <2> QED
    BY <2>1, Zenon
<1>2. CASE NextTakes(t)
  <2>1. CASE Len(items) > 1 \/ closed
    <3>1. taking'[t] = "tookMore"
      BY <1>2, <2>1, Zenon DEF NextTakes, NextFrom
    <3> QED
      BY <3>1, Zenon
  <2>2. CASE ~(Len(items) > 1 \/ closed)
    <3>1. items' = <<>> /\ ~closed'
      BY <1>2, <2>2, TailEmpty, Zenon DEF NextTakes, NextFrom
    <3> QED
      BY <3>1, Zenon
  <2> QED
    BY <2>1, <2>2, Zenon
<1>3. CASE NextEnds(t)
  <2>1. taking'[t] = "more"
    BY <1>3, Zenon DEF NextEnds, NextFrom
  <2> QED
    BY <2>1, Zenon
<1>4. CASE NextWaits(t)
  BY <1>4, Zenon DEF NextWaits, NextFrom
<1>5. CASE NextSignalsRoom(t)
  <2>1. CASE taking[t] = "tookMore"
    <3>1. taking'[t] = "more"
      BY <1>5, <2>1, Zenon DEF NextSignalsRoom
    <3> QED
      BY <3>1, Zenon
  <2>2. CASE taking[t] # "tookMore"
    <3>1. taking[t] = "took" /\ taking' = [taking EXCEPT ![t] = "idle"]
      BY <1>5, <2>2, Zenon DEF NextSignalsRoom
    <3>2. \A u \in Taker : /\ taking'[u] = "wait" => taking[u] = "wait"
                           /\ taking[u] \in {"try", "tookMore", "more"} => taking'[u] = taking[u]
      BY <3>1, Zenon
    <3>3. UNCHANGED <<items, closed, ready, pushing, closing>>
      BY <1>5, Zenon DEF NextSignalsRoom
    <3> QED
      BY <3>2, <3>3, Zenon
  <2> QED
    BY <2>1, <2>2, Zenon
<1>6. CASE NextSignalsReady(t)
  BY <1>6, Zenon DEF NextSignalsReady
<1>7. CASE NextGivesUp(t)
  BY <1>7, Zenon DEF NextGivesUp
<1> QED
  BY <1>1, <1>2, <1>3, <1>4, <1>5, <1>6, <1>7, Zenon DEF NextStep, TryNext

\* Nor does a close, which announces itself.
LEMMA CloseKeepsWakeups ==
    ASSUME TypeOK, TakersWoken, NEW c \in Closer, CloseStep(c)
    PROVE  TakersWoken'
<1> USE DEF TypeOK, TakersWoken, ToTake, ReadyComing, queue
<1>1. CASE close(c)
  <2>1. closing'[c] = "ready"
    BY <1>1, Zenon DEF close
  <2> QED
    BY <2>1, Zenon
<1>2. CASE CloseSignalsReady(c)
  BY <1>2, Zenon DEF CloseSignalsReady
<1>3. CASE CloseSignalsRoom(c)
  BY <1>3, Zenon DEF CloseSignalsRoom
<1> QED
  BY <1>1, <1>2, <1>3, Zenon DEF CloseStep

\* While there is an item or the end to take, a waiting next is about to be
\* woken, whatever the number of takers that share the one token.
THEOREM NoWakeupLost == Spec => []TakersWoken
<1>1. Init => TakersWoken
  BY Zenon DEF Init, TakersWoken
<1>2. TypeOK /\ TakersWoken /\ [Next]_vars => TakersWoken'
  <2> SUFFICES ASSUME TypeOK, TakersWoken, [Next]_vars PROVE TakersWoken'
    BY Zenon
  <2>1. CASE UNCHANGED vars
    BY <2>1, Zenon DEF vars, queue, TakersWoken, ToTake, ReadyComing
  <2> QED
    BY <2>1, PushKeepsWakeups, NextKeepsWakeups, CloseKeepsWakeups, Zenon DEF Next
<1> QED
  BY <1>1, <1>2, TypeCorrect, PTL DEF Spec

\* No next reports the end while an item is left, and none is queued after it.
THEOREM EndReportedLast == Spec => []EndIsFinal
<1>1. Init => EndIsFinal
  BY Zenon DEF Init, EndIsFinal
<1>2. EndIsFinal /\ [Next]_vars => EndIsFinal'
  <2> SUFFICES ASSUME EndIsFinal, [Next]_vars PROVE EndIsFinal'
    BY Zenon
  <2> USE DEF EndIsFinal, queue
  <2>1. CASE UNCHANGED vars
    BY <2>1, Zenon DEF vars
  <2>2. ASSUME NEW p \in Pusher, PushStep(p) PROVE EndIsFinal'
    BY <2>2, Zenon DEF PushStep, TryPush, push, PushFrom, PushClosed, PushRoom, PushRefused, PushOver,
                PushWaits, PushSignals, PushWakes, PushGivesUp
  <2>3. ASSUME NEW t \in Taker, NextStep(t) PROVE EndIsFinal'
    BY <2>3, Zenon DEF NextStep, TryNext, next, NextFrom, NextTakes, NextEnds, NextWaits,
                NextSignalsRoom, NextSignalsReady, NextWakes, NextGivesUp
  <2>4. ASSUME NEW c \in Closer, CloseStep(c) PROVE EndIsFinal'
    BY <2>4, Zenon DEF CloseStep, close, CloseSignalsReady, CloseSignalsRoom
  <2> QED
    BY <2>1, <2>2, <2>3, <2>4, Zenon DEF Next
<1> QED
  BY <1>1, <1>2, PTL DEF Spec
=============================================================================
