---------------------------- MODULE ProxiesProofs ----------------------------
(***************************************************************************)
(* What the two proxies guarantee, proved with TLAPS: hitm for any number  *)
(* of connections, handshakes, hosts, streams, flows and handlers, its     *)
(* certificates (HitmCerts), held requests (HitmIntercept), event streams  *)
(* and pages (HitmEvents), and the flows it keeps and stores (HitmFlows);  *)
(* sshrouter for any routes and any number of messages (SshRouter).        *)
(***************************************************************************)
EXTENDS HitmCerts, HitmIntercept, HitmEvents, HitmFlows, SshRouter,
        FiniteSetTheorems, FunctionTheorems, TLAPS

-----------------------------------------------------------------------------
(* Channels as sequences, and least numbers.                                *)

(* What is put into a channel comes after all that is there. *)
LEMMA AppendAt ==
  ASSUME NEW S, NEW q \in Seq(S), NEW v \in S
  PROVE  /\ Append(q, v) \in Seq(S) /\ Len(Append(q, v)) = Len(q) + 1
         /\ \A k \in 1..Len(q) : Append(q, v)[k] = q[k]
         /\ Append(q, v)[Len(q) + 1] = v
OBVIOUS

(* What is taken from a channel was the first, and the others move up. *)
LEMMA TailAt ==
  ASSUME NEW S, NEW q \in Seq(S), q # <<>>
  PROVE  /\ Head(q) = q[1] /\ Head(q) \in S /\ 1 \in 1..Len(q)
         /\ Tail(q) \in Seq(S) /\ Len(Tail(q)) = Len(q) - 1
         /\ \A k \in 1..Len(Tail(q)) : k + 1 \in 1..Len(q) /\ Tail(q)[k] = q[k + 1]
OBVIOUS

(* A set of natural numbers has a least one, which evictOldFlows looks for. *)
LEMMA LeastIs ==
  ASSUME NEW S \in SUBSET Nat, S # {}
  PROVE  Least(S) \in S /\ \A j \in S : Least(S) <= j
<1> DEFINE R == {ss \in Nat \X Nat : ss[1] < ss[2]}
<1>1. IsWellFoundedOn(R, Nat)
  BY NatLessThanWellFounded DEF OpToRel
<1>2. PICK x \in S : \A y \in S : ~(<<y, x>> \in R)
  BY <1>1, WFMin
<1>3. ASSUME NEW y \in S PROVE x <= y
  <2>1. <<y, x>> \in Nat \X Nat /\ <<y, x>>[1] = y /\ <<y, x>>[2] = x
    OBVIOUS
  <2>2. ~(y < x)
    BY <1>2, <2>1
  <2> QED
    BY <2>2
<1> QED
  BY <1>3 DEF Least

(* A set of numbers up to a bound has a greatest one, as restoreState's     *)
(* query takes it.                                                          *)
LEMMA GreatestIs ==
  ASSUME NEW b \in Nat, NEW S \in SUBSET (0..b), S # {}
  PROVE  LET g == CHOOSE i \in S : \A j \in S : i >= j IN g \in S /\ \A j \in S : g >= j
<1> DEFINE T == {b - i : i \in S}
<1>1. T \in SUBSET Nat /\ T # {}
  <2>1. \A i \in S : b - i \in Nat
    OBVIOUS
  <2> QED
    BY <2>1
<1>2. Least(T) \in T /\ \A j \in T : Least(T) <= j
  BY <1>1, LeastIs
<1>3. PICK i \in S : Least(T) = b - i
  BY <1>2
<1>4. ASSUME NEW j \in S PROVE i >= j
  <2>1. b - i <= b - j
    BY <1>2, <1>3
  <2> QED
    BY <2>1
<1> QED
  BY <1>4

-----------------------------------------------------------------------------
(* Certificates.                                                            *)

Stages == {"idle", "lock", "key", "generate", "writeKey", "cert", "writeCert", "answer"}
Shake == [at : Stages, host : Hosts \cup {None}, key : 0..MaxMade, cert : Cert \cup {None}]

(* A handshake under way has a host; from the key on, a key; and so on. *)
ShakeTyped(s) ==
    /\ shake[s].at # "idle" => shake[s].host \in Hosts
    /\ shake[s].at \in {"writeKey", "cert", "writeCert", "answer"} => shake[s].key \in 1..MaxMade
    /\ shake[s].at \in {"writeCert", "answer"} => shake[s].cert \in Cert

CertsTyped ==
    /\ keyFile \in [Files -> {None, Torn} \cup 1..MaxMade]
    /\ certFile \in [Files -> {None, Torn} \cup Cert]
    /\ lock \in [Hosts -> Shakes \cup {None}]
    /\ shake \in [Shakes -> Shake]
    /\ made \in 0..MaxMade /\ rekeyed \subseteq Files /\ spoiled \subseteq Files
    /\ \A s \in Shakes : ShakeTyped(s)

(* Past the lock, a handshake has it. *)
Inside(s) == shake[s].at \notin {"idle", "lock"}
LocksHeld == \A s \in Shakes : Inside(s) => lock[shake[s].host] = s

(* The files of a host: no certificate before there is a key, and none for *)
(* another key than the one in the file, if that was written, and none was *)
(* replaced.                                                                *)
FileSound(h) ==
    /\ keyFile[clean[h]] = None => certFile[clean[h]] \notin Cert
    /\ certFile[clean[h]] \in Cert =>
         /\ certFile[clean[h]].host = h
         /\ clean[h] \notin rekeyed => keyFile[clean[h]] \in {Torn, certFile[clean[h]].key}

(* What a handshake with the lock knows of the files. *)
ShakeSound(s) ==
    LET f == clean[shake[s].host]
    IN  /\ shake[s].at = "writeKey" =>
             keyFile[f] = Torn /\ (f \notin rekeyed => certFile[f] \notin Cert)
        /\ shake[s].at \in {"cert", "writeCert"} =>
             /\ keyFile[f] # None
             /\ f \notin rekeyed => /\ keyFile[f] \in {Torn, shake[s].key}
                                    /\ certFile[f] \in Cert => certFile[f].key = shake[s].key
        /\ shake[s].at = "writeCert" => certFile[f] = Torn
        /\ shake[s].at \in {"writeCert", "answer"} =>
             /\ shake[s].cert.host = shake[s].host
             /\ f \notin rekeyed => shake[s].cert.key = shake[s].key
        /\ shake[s].at = "answer" /\ f \notin spoiled => certFile[f] = shake[s].cert

AnswerSound(a) ==
    /\ a[3] \in Cert /\ a[3].host = a[1]
    /\ clean[a[1]] \notin rekeyed => a[3].key = a[2]
    /\ clean[a[1]] \notin spoiled => certFile[clean[a[1]]] = a[3]

CertsIInv ==
    /\ CertsTyped
    /\ LocksHeld
    /\ \A h \in Alone : FileSound(h)
    /\ \A s \in Shakes : Inside(s) /\ shake[s].host \in Alone => ShakeSound(s)
    /\ \A a \in answers : a[1] \in Alone => AnswerSound(a)

(* A proxy that has just started: no files yet, no handshake.               *)
LEMMA CertsInitIInv == CertsInit => CertsIInv
<1> SUFFICES ASSUME CertsInit PROVE CertsIInv
  OBVIOUS
<1>1. NoShake \in Shake /\ NoShake.at = "idle"
  BY CleanAssumption DEF NoShake, Shake, Stages
<1>2. CertsTyped
  <2>1. \A s \in Shakes : ShakeTyped(s)
    BY <1>1 DEF CertsInit, ShakeTyped
  <2>2. shake \in [Shakes -> Shake]
    BY <1>1 DEF CertsInit
  <2> QED
    BY <2>1, <2>2, CleanAssumption DEF CertsInit, CertsTyped
<1>3. \A s \in Shakes : ~Inside(s)
  BY <1>1 DEF CertsInit, Inside
<1>4. \A h \in Alone : FileSound(h)
  BY CleanAssumption, NoneAssumption DEF CertsInit, FileSound, Alone
<1> QED
  BY <1>2, <1>3, <1>4 DEF CertsInit, CertsIInv, LocksHeld

(* The new state of one handshake. *)
LEMMA ShakeSet ==
  ASSUME CertsTyped, NEW s \in Shakes, NEW row \in Shake, shake' = [shake EXCEPT ![s] = row]
  PROVE  /\ shake' \in [Shakes -> Shake]
         /\ \A r \in Shakes : shake'[r] = IF r = s THEN row ELSE shake[r]
BY DEF CertsTyped

(* A handshake is as it was when it and its files are.                      *)
LEMMA ShakeStays ==
  ASSUME NEW r \in Shakes, ShakeSound(r), shake'[r] = shake[r],
         NEW f, f = clean[shake[r].host],
         keyFile'[f] = keyFile[f], certFile'[f] = certFile[f],
         f \in rekeyed' <=> f \in rekeyed, f \in spoiled' <=> f \in spoiled
  PROVE  ShakeSound(r)'
BY DEF ShakeSound

(* A handshake with the lock of a host of its own touches no other files,   *)
(* so that a step is right if it is right for itself and its host.          *)
LEMMA StepIsLocal ==
  ASSUME CertsIInv, NEW s \in Shakes, NEW h \in Hosts, Inside(s), shake[s].host = h,
         CertsTyped',
         \A r \in Shakes \ {s} : shake'[r] = shake[r],
         \A g \in Hosts \ {h} : lock'[g] = lock[g],
         \A f \in Files \ {clean[h]} :
            /\ keyFile'[f] = keyFile[f] /\ certFile'[f] = certFile[f]
            /\ f \in rekeyed' <=> f \in rekeyed
            /\ f \in spoiled' <=> f \in spoiled,
         Inside(s)' => shake'[s].host = h /\ lock'[h] = s,
         \A a \in answers' : a[1] # h => a \in answers,
         h \in Alone => /\ FileSound(h)' /\ (Inside(s)' => ShakeSound(s)')
                        /\ \A a \in answers' : a[1] = h => AnswerSound(a)'
  PROVE  CertsIInv'
<1>1. \A r \in Shakes \ {s} : Inside(r) => shake[r].host \in Hosts \ {h}
  BY ZenonT(40) DEF CertsIInv, LocksHeld, CertsTyped, ShakeTyped, Inside
<1>2. \A r \in Shakes \ {s} : Inside(r)' <=> Inside(r)
  BY DEF Inside
<1>3. LocksHeld'
  BY <1>1, <1>2 DEF CertsIInv, LocksHeld
<1>4. \A g \in Alone : g # h => g \in Hosts /\ clean[g] \in Files \ {clean[h]}
  BY CleanAssumption DEF Alone
<1>5. ASSUME NEW g \in Alone PROVE FileSound(g)'
  BY <1>4 DEF CertsIInv, FileSound
<1>6. ASSUME NEW r \in Shakes, Inside(r)', shake'[r].host \in Alone PROVE ShakeSound(r)'
  <2>1. CASE r = s
    BY <1>6, <2>1
  <2>2. CASE r # s
    <3>1. /\ shake'[r] = shake[r] /\ Inside(r) /\ shake[r].host \in Alone /\ shake[r].host # h
          /\ clean[shake[r].host] \in Files \ {clean[h]}
      BY <1>1, <1>2, <1>4, <1>6, <2>2
    <3>2. ShakeSound(r)
      BY <3>1 DEF CertsIInv
    <3>3. PICK f \in Files \ {clean[h]} : f = clean[shake[r].host]
      BY <3>1
    <3>4. /\ keyFile'[f] = keyFile[f] /\ certFile'[f] = certFile[f]
          /\ f \in rekeyed' <=> f \in rekeyed
          /\ f \in spoiled' <=> f \in spoiled
      BY <3>3
    <3> QED
      BY <3>1, <3>2, <3>3, <3>4, ShakeStays
  <2> QED
    BY <2>1, <2>2
<1>7. ASSUME NEW a \in answers', a[1] \in Alone PROVE AnswerSound(a)'
  BY <1>4, <1>7 DEF CertsIInv, AnswerSound
<1> QED
  BY <1>3, <1>5, <1>6, <1>7 DEF CertsIInv, Alone

(* A handshake that has not moved keeps what it knows as long as the files  *)
(* it knows of stay as they are.                                            *)
LEMMA SameFiles ==
  ASSUME NEW r \in Shakes, ShakeSound(r), shake'[r] = shake[r],
         keyFile' = keyFile, certFile' = certFile, rekeyed' = rekeyed, spoiled' = spoiled
  PROVE  ShakeSound(r)'
<1>1. PICK row, f : row = shake[r] /\ f = clean[row.host] /\ shake'[r] = row
  OBVIOUS
<1> QED
  BY <1>1, Zenon DEF ShakeSound

(* A handshake begins, or waits for its lock no longer: no file changes. *)
LEMMA GetCertificateKeeps ==
  ASSUME CertsIInv, NEW s \in Shakes, NEW h \in Hosts, GetCertificate(s, h)
  PROVE  CertsIInv'
<1> DEFINE row == [at |-> "lock", host |-> h, key |-> 0, cert |-> None]
<1>1. row \in Shake /\ row.at = "lock" /\ row.host = h
  BY CleanAssumption DEF Shake, Stages
<1>2. /\ shake' = [shake EXCEPT ![s] = row]
      /\ UNCHANGED <<keyFile, certFile, lock, made, answers, rekeyed, spoiled>>
  BY DEF GetCertificate
<1> HIDE DEF row
<1>3. /\ shake' \in [Shakes -> Shake]
      /\ \A r \in Shakes : shake'[r] = IF r = s THEN row ELSE shake[r]
  BY <1>1, <1>2, ShakeSet DEF CertsIInv
<1>4. CertsTyped'
  BY <1>1, <1>2, <1>3 DEF CertsIInv, CertsTyped, ShakeTyped
<1>5. \A r \in Shakes : Inside(r)' => Inside(r) /\ shake'[r] = shake[r]
  BY <1>1, <1>3 DEF Inside
<1>6. LocksHeld'
  BY <1>2, <1>5 DEF CertsIInv, LocksHeld
<1>7. \A r \in Shakes : Inside(r)' /\ shake'[r].host \in Alone => ShakeSound(r)'
  BY <1>2, <1>5, SameFiles DEF CertsIInv
<1> QED
  BY <1>2, <1>4, <1>6, <1>7 DEF CertsIInv, FileSound, AnswerSound, Alone

(* A handshake enters the critical section, and may look at the files of    *)
(* its host there.                                                          *)
LEMMA LockKeeps ==
  ASSUME CertsIInv, NEW s \in Shakes, Lock(s)
  PROVE  CertsIInv'
<1> DEFINE row == [shake[s] EXCEPT !.at = "key"]
<1>0. /\ shake[s].at = "lock" /\ lock[shake[s].host] = None
      /\ shake' = [shake EXCEPT ![s] = row] /\ lock' = [lock EXCEPT ![shake[s].host] = s]
      /\ UNCHANGED <<keyFile, certFile, made, answers, rekeyed, spoiled>>
  BY DEF Lock
<1>1. row \in Shake /\ row.at = "key" /\ row.host = shake[s].host /\ shake[s].host \in Hosts
  BY ZenonT(40), <1>0 DEF CertsIInv, CertsTyped, ShakeTyped, Shake, Stages
<1> HIDE DEF row
<1>2. /\ shake' \in [Shakes -> Shake]
      /\ \A r \in Shakes : shake'[r] = IF r = s THEN row ELSE shake[r]
  BY <1>0, <1>1, ShakeSet DEF CertsIInv
<1>3. CertsTyped'
  BY <1>0, <1>1, <1>2 DEF CertsIInv, CertsTyped, ShakeTyped
<1>4. \A r \in Shakes \ {s} : /\ shake'[r] = shake[r] /\ (Inside(r)' <=> Inside(r))
                              /\ Inside(r) => shake[r].host # shake[s].host /\ shake[r].host \in Hosts
  BY <1>0, <1>2, NoneAssumption DEF CertsIInv, CertsTyped, ShakeTyped, LocksHeld, Inside
<1>5. LocksHeld'
  BY <1>0, <1>1, <1>2, <1>4 DEF CertsIInv, CertsTyped, LocksHeld
<1>6. \A r \in Shakes : Inside(r)' /\ shake'[r].host \in Alone => ShakeSound(r)'
  <2> SUFFICES ASSUME NEW r \in Shakes, Inside(r)', shake'[r].host \in Alone PROVE ShakeSound(r)'
    OBVIOUS
  <2>1. CASE r = s
    BY <1>1, <1>2, <2>1 DEF ShakeSound
  <2>2. CASE r # s
    <3>1. ShakeSound(r) /\ shake'[r] = shake[r]
      BY <1>4, <2>2 DEF CertsIInv
    <3>2. keyFile' = keyFile /\ certFile' = certFile /\ rekeyed' = rekeyed /\ spoiled' = spoiled
      BY <1>0
    <3> QED
      BY <3>1, <3>2, SameFiles
  <2> QED
    BY <2>1, <2>2
<1> QED
  BY <1>0, <1>3, <1>5, <1>6 DEF CertsIInv, FileSound, AnswerSound, Alone

(* A handshake ends, and with it its hold of the lock. *)
LEMMA EndKeeps ==
  ASSUME CertsIInv, NEW s \in Shakes, Inside(s), End(s),
         UNCHANGED <<keyFile, certFile, made, rekeyed, spoiled>>,
         \/ UNCHANGED answers
         \/ /\ shake[s].at = "answer"
            /\ answers' = answers \cup {<<shake[s].host, shake[s].key, shake[s].cert>>}
  PROVE  CertsIInv'
<1>1. PICK h \in Hosts : shake[s].host = h
  BY DEF Inside, CertsIInv, CertsTyped, ShakeTyped
<1>2. NoShake \in Shake /\ NoShake.at = "idle"
  BY CleanAssumption DEF NoShake, Shake, Stages
<1>3. /\ shake' \in [Shakes -> Shake]
      /\ \A r \in Shakes : shake'[r] = IF r = s THEN NoShake ELSE shake[r]
  BY <1>2, ShakeSet DEF CertsIInv, End
<1>4. lock' \in [Hosts -> Shakes \cup {None}] /\ \A g \in Hosts \ {h} : lock'[g] = lock[g]
  BY <1>1 DEF CertsIInv, CertsTyped, End
<1>5. CertsTyped'
  BY <1>2, <1>3, <1>4 DEF CertsIInv, CertsTyped, ShakeTyped
<1>6. ~Inside(s)'
  BY <1>2, <1>3 DEF Inside
<1>7. ASSUME h \in Alone, NEW a \in answers', a[1] = h PROVE AnswerSound(a)'
  <2>1. CASE a \in answers
    BY <1>7, <2>1 DEF CertsIInv, AnswerSound
  <2>2. CASE a \notin answers
    <3>1. /\ shake[s].at = "answer" /\ a[1] = shake[s].host /\ a[2] = shake[s].key
          /\ a[3] = shake[s].cert
      BY <2>2
    <3>2. ShakeSound(s) /\ shake[s].cert \in Cert
      BY <1>1, <1>7, <3>1 DEF CertsIInv, CertsTyped, ShakeTyped
    <3> QED
      BY <3>1, <3>2 DEF ShakeSound, AnswerSound
  <2> QED
    BY <2>1, <2>2
<1>8. h \in Alone => FileSound(h)'
  BY DEF CertsIInv, FileSound
<1>9. \A a \in answers' : a[1] # h => a \in answers
  BY <1>1
<1> QED
  BY <1>1, <1>3, <1>4, <1>5, <1>6, <1>7, <1>8, <1>9, StepIsLocal

(* A step of a handshake with the lock, which then has the row `row'. *)
LEMMA InsideStep ==
  ASSUME CertsIInv, NEW s \in Shakes, NEW h \in Hosts, Inside(s), shake[s].host = h,
         NEW row \in Shake, shake' = [shake EXCEPT ![s] = row], row.host = h, row.at # "idle",
         row.at \in {"writeKey", "cert", "writeCert", "answer"} => row.key \in 1..MaxMade,
         row.at \in {"writeCert", "answer"} => row.cert \in Cert,
         UNCHANGED <<lock, answers>>, made' \in 0..MaxMade,
         NEW k \in {None, Torn} \cup 1..MaxMade, keyFile' = [keyFile EXCEPT ![clean[h]] = k],
         NEW c \in {None, Torn} \cup Cert, certFile' = [certFile EXCEPT ![clean[h]] = c],
         rekeyed' \in {rekeyed, rekeyed \cup {clean[h]}},
         spoiled' \in {spoiled, spoiled \cup {clean[h]}},
         h \in Alone => /\ FileSound(h)' /\ ShakeSound(s)'
                        /\ \A a \in answers : a[1] = h => AnswerSound(a)'
  PROVE  CertsIInv'
<1>1. /\ shake' \in [Shakes -> Shake]
      /\ \A r \in Shakes : shake'[r] = IF r = s THEN row ELSE shake[r]
  BY ShakeSet DEF CertsIInv
<1>2. clean[h] \in Files
  BY CleanAssumption
<1>3. /\ keyFile' \in [Files -> {None, Torn} \cup 1..MaxMade]
      /\ certFile' \in [Files -> {None, Torn} \cup Cert]
      /\ \A f \in Files \ {clean[h]} :
            keyFile'[f] = keyFile[f] /\ certFile'[f] = certFile[f] /\ (f \in spoiled' <=> f \in spoiled)
  BY <1>2 DEF CertsIInv, CertsTyped
<1>4. CertsTyped'
  <2>1. \A r \in Shakes : ShakeTyped(r)'
    BY <1>1 DEF CertsIInv, CertsTyped, ShakeTyped
  <2> QED
    BY <1>1, <1>2, <1>3, <2>1 DEF CertsIInv, CertsTyped
<1>5. lock'[h] = s
  BY DEF CertsIInv, LocksHeld
<1> QED
  BY <1>1, <1>3, <1>4, <1>5, StepIsLocal

(* What a handshake at its stage knows. *)
LEMMA InsideFacts ==
  ASSUME CertsIInv, NEW s \in Shakes, Inside(s)
  PROVE  \E h \in Hosts :
           /\ shake[s].host = h /\ clean[h] \in Files
           /\ keyFile[clean[h]] \in {None, Torn} \cup 1..MaxMade
           /\ certFile[clean[h]] \in {None, Torn} \cup Cert
           /\ shake[s].key \in 0..MaxMade /\ shake[s].cert \in Cert \cup {None} /\ ShakeTyped(s)
           /\ h \in Alone => /\ ShakeSound(s) /\ FileSound(h)
                             /\ \A a \in answers : a[1] = h => AnswerSound(a)
<1>1. shake[s].host \in Hosts /\ shake[s] \in Shake /\ ShakeTyped(s)
  BY DEF Inside, CertsIInv, CertsTyped, ShakeTyped
<1>2. clean[shake[s].host] \in Files
  BY <1>1, CleanAssumption
<1> QED
  BY <1>1, <1>2 DEF CertsIInv, CertsTyped, Shake

(* Reading the key, finding none, and making one. *)
LEMMA KeyStepKeeps ==
  ASSUME CertsIInv, NEW s \in Shakes, ReadKey(s) \/ NoKey(s) \/ GenKey(s)
  PROVE  CertsIInv'
<1>1. Inside(s)
  BY DEF Inside, ReadKey, NoKey, GenKey
<1>2. PICK h \in Hosts :
           /\ shake[s].host = h /\ clean[h] \in Files
           /\ keyFile[clean[h]] \in {None, Torn} \cup 1..MaxMade
           /\ certFile[clean[h]] \in {None, Torn} \cup Cert
           /\ shake[s].key \in 0..MaxMade /\ shake[s].cert \in Cert \cup {None} /\ ShakeTyped(s)
           /\ h \in Alone => /\ ShakeSound(s) /\ FileSound(h)
                             /\ \A a \in answers : a[1] = h => AnswerSound(a)
  BY <1>1, InsideFacts
<1>3. keyFile = [keyFile EXCEPT ![clean[h]] = keyFile[clean[h]]]
      /\ certFile = [certFile EXCEPT ![clean[h]] = certFile[clean[h]]]
  BY DEF CertsIInv, CertsTyped
<1>4. File(s) = clean[h]
  BY <1>2 DEF File
<1>5. CASE ReadKey(s)
  <2>0. /\ shake[s].at = "key" /\ keyFile[clean[h]] # None
        /\ UNCHANGED <<keyFile, certFile, made, answers, rekeyed, spoiled>>
    BY <1>4, <1>5 DEF ReadKey
  <2>1. CASE keyFile[clean[h]] = Torn
    BY <1>1, <1>4, <1>5, <2>0, <2>1, EndKeeps DEF ReadKey
  <2>2. CASE keyFile[clean[h]] # Torn
    <3> DEFINE row == [shake[s] EXCEPT !.at = "cert", !.key = keyFile[clean[h]]]
    <3>1. shake' = [shake EXCEPT ![s] = row] /\ UNCHANGED lock
      BY <1>4, <1>5, <2>2 DEF ReadKey, CertsIInv, CertsTyped
    <3>2. /\ row \in Shake /\ row.at = "cert" /\ row.host = h /\ row.key = keyFile[clean[h]]
          /\ row.key \in 1..MaxMade
      <4>1. keyFile[clean[h]] \in 1..MaxMade /\ "cert" \in Stages
        BY <1>2, <2>0, <2>2 DEF Stages
      <4>2. keyFile[clean[h]] \in 0..MaxMade
        BY <4>1
      <4>3. row \in Shake /\ row.at = "cert" /\ row.host = shake[s].host /\ row.key = keyFile[clean[h]]
        <5>1. CertsTyped
          BY DEF CertsIInv
        <5>2. shake[s] \in Shake /\ "cert" \in Stages
          BY <5>1 DEF CertsTyped, Stages
        <5> DEFINE moved == [shake[s] EXCEPT !.at = "cert"]
        <5>3. row = [moved EXCEPT !.key = keyFile[clean[h]]]
          OBVIOUS
        <5>4. moved \in Shake /\ moved.at = "cert" /\ moved.host = shake[s].host
          BY <5>2 DEF Shake, Stages
        <5> HIDE DEF moved, row
        <5> QED
          BY <4>2, <5>3, <5>4 DEF Shake
      <4> HIDE DEF row
      <4> QED
        BY <1>2, <4>1, <4>3
    <3> HIDE DEF row
    <3>3. shake'[s] = row
      BY <3>1 DEF CertsIInv, CertsTyped
    <3>4. h \in Alone => /\ FileSound(h)' /\ ShakeSound(s)'
                         /\ \A a \in answers : a[1] = h => AnswerSound(a)'
      BY <1>2, <2>0, <2>2, <3>2, <3>3 DEF FileSound, ShakeSound, AnswerSound
    <3>5. made' \in 0..MaxMade
      BY <2>0 DEF CertsIInv, CertsTyped
    <3> QED
      BY <1>1, <1>2, <1>3, <2>0, <3>1, <3>2, <3>4, <3>5, InsideStep
  <2> QED
    BY <2>1, <2>2
<1>6. CASE NoKey(s)
  <2> DEFINE row == [shake[s] EXCEPT !.at = "generate"]
  <2>1. /\ shake' = [shake EXCEPT ![s] = row]
        /\ UNCHANGED <<keyFile, certFile, lock, made, answers, rekeyed, spoiled>>
    BY <1>4, <1>6 DEF NoKey
  <2>2. row \in Shake /\ row.at = "generate" /\ row.host = h
    BY <1>2 DEF CertsIInv, CertsTyped, Shake, Stages
  <2> HIDE DEF row
  <2>3. shake'[s] = row
    BY <2>1 DEF CertsIInv, CertsTyped
  <2>4. h \in Alone => /\ FileSound(h)' /\ ShakeSound(s)'
                       /\ \A a \in answers : a[1] = h => AnswerSound(a)'
    BY <1>2, <2>1, <2>2, <2>3 DEF FileSound, ShakeSound, AnswerSound
  <2>5. made' \in 0..MaxMade
    BY <2>1 DEF CertsIInv, CertsTyped
  <2> QED
    BY <1>1, <1>2, <1>3, <2>1, <2>2, <2>4, <2>5, InsideStep
<1>7. CASE GenKey(s)
  <2> DEFINE row == [shake[s] EXCEPT !.at = "writeKey", !.key = made + 1]
  <2>1. /\ shake' = [shake EXCEPT ![s] = row] /\ shake[s].at = "generate"
        /\ keyFile' = [keyFile EXCEPT ![clean[h]] = Torn] /\ made' = made + 1 /\ made < MaxMade
        /\ rekeyed' = IF keyFile[clean[h]] = None THEN rekeyed ELSE rekeyed \cup {clean[h]}
        /\ UNCHANGED <<certFile, lock, answers, spoiled>>
    BY <1>4, <1>7 DEF GenKey, CertsIInv, CertsTyped
  <2>2. /\ made' \in 0..MaxMade /\ row \in Shake /\ row.at = "writeKey" /\ row.host = h
        /\ row.key \in 1..MaxMade
    <3>1. made + 1 \in 1..MaxMade /\ made + 1 \in 0..MaxMade
      BY <2>1, CleanAssumption DEF CertsIInv, CertsTyped
    <3>2. "writeKey" \in Stages
      BY DEF Stages
    <3>3. row \in Shake /\ row.at = "writeKey" /\ row.host = shake[s].host /\ row.key = made + 1
      <4>1. CertsTyped
        BY DEF CertsIInv
      <4>2. shake[s] \in Shake
        BY <4>1 DEF CertsTyped
      <4> DEFINE moved == [shake[s] EXCEPT !.at = "writeKey"]
      <4>3. row = [moved EXCEPT !.key = made + 1]
        OBVIOUS
      <4>4. moved \in Shake /\ moved.at = "writeKey" /\ moved.host = shake[s].host
        BY <4>2 DEF Shake, Stages
      <4> HIDE DEF moved, row
      <4> QED
        BY <3>1, <4>3, <4>4 DEF Shake
    <3> HIDE DEF row
    <3> QED
      BY <1>2, <2>1, <3>1, <3>3
  <2> HIDE DEF row
  <2>3. shake'[s] = row /\ keyFile'[clean[h]] = Torn
    BY <1>2, <2>1 DEF CertsIInv, CertsTyped
  <2>4. h \in Alone => /\ FileSound(h)' /\ ShakeSound(s)'
                       /\ \A a \in answers : a[1] = h => AnswerSound(a)'
    BY <1>2, <2>1, <2>2, <2>3, NoneAssumption DEF FileSound, ShakeSound, AnswerSound
  <2> QED
    BY <1>1, <1>2, <1>3, <2>1, <2>2, <2>4, InsideStep
<1> QED
  BY <1>5, <1>6, <1>7

(* Writing the key, or failing to. *)
LEMMA WriteKeyKeeps ==
  ASSUME CertsIInv, NEW s \in Shakes, NEW ok \in BOOLEAN, WriteKey(s, ok)
  PROVE  CertsIInv'
<1>1. Inside(s)
  BY DEF Inside, WriteKey
<1>2. PICK h \in Hosts :
           /\ shake[s].host = h /\ clean[h] \in Files
           /\ keyFile[clean[h]] \in {None, Torn} \cup 1..MaxMade
           /\ certFile[clean[h]] \in {None, Torn} \cup Cert
           /\ shake[s].key \in 0..MaxMade /\ shake[s].cert \in Cert \cup {None} /\ ShakeTyped(s)
           /\ h \in Alone => /\ ShakeSound(s) /\ FileSound(h)
                             /\ \A a \in answers : a[1] = h => AnswerSound(a)
  BY <1>1, InsideFacts
<1>3. keyFile = [keyFile EXCEPT ![clean[h]] = keyFile[clean[h]]]
      /\ certFile = [certFile EXCEPT ![clean[h]] = certFile[clean[h]]]
  BY DEF CertsIInv, CertsTyped
<1>4. File(s) = clean[h]
  BY <1>2 DEF File
<1> DEFINE row == [shake[s] EXCEPT !.at = "cert"]
<1>5. PICK k \in {None, Torn} \cup 1..MaxMade :
        keyFile' = [keyFile EXCEPT ![clean[h]] = k] /\ k \in {keyFile[clean[h]], shake[s].key}
  <2>1. shake[s].key \in 1..MaxMade
    BY <1>2 DEF ShakeTyped, WriteKey
  <2> QED
    BY <1>2, <1>3, <1>4, <2>1 DEF WriteKey
<1>6. /\ shake' = [shake EXCEPT ![s] = row] /\ shake[s].at = "writeKey"
      /\ UNCHANGED <<certFile, lock, made, answers, rekeyed, spoiled>>
  BY DEF WriteKey
<1>7. row \in Shake /\ row.at = "cert" /\ row.host = h /\ row.key = shake[s].key /\ row.key \in 1..MaxMade
  BY <1>2, <1>6 DEF CertsIInv, CertsTyped, Shake, Stages, ShakeTyped
<1> HIDE DEF row
<1>8. shake'[s] = row /\ keyFile'[clean[h]] = k
  BY <1>2, <1>5, <1>6 DEF CertsIInv, CertsTyped
<1>9. h \in Alone => /\ FileSound(h)' /\ ShakeSound(s)'
                     /\ \A a \in answers : a[1] = h => AnswerSound(a)'
  BY <1>2, <1>5, <1>6, <1>7, <1>8, NoneAssumption DEF FileSound, ShakeSound, AnswerSound
<1>10. made' \in 0..MaxMade
  BY <1>6 DEF CertsIInv, CertsTyped
<1> QED
  BY <1>1, <1>2, <1>3, <1>5, <1>6, <1>7, <1>9, <1>10, InsideStep

(* Reading the certificate, or making one. *)
LEMMA CertStepKeeps ==
  ASSUME CertsIInv, NEW s \in Shakes, ReadCert(s) \/ MakeCert(s)
  PROVE  CertsIInv'
<1>1. Inside(s) /\ shake[s].at = "cert"
  BY DEF Inside, ReadCert, MakeCert
<1>2. PICK h \in Hosts :
           /\ shake[s].host = h /\ clean[h] \in Files
           /\ keyFile[clean[h]] \in {None, Torn} \cup 1..MaxMade
           /\ certFile[clean[h]] \in {None, Torn} \cup Cert
           /\ shake[s].key \in 0..MaxMade /\ shake[s].cert \in Cert \cup {None} /\ ShakeTyped(s)
           /\ h \in Alone => /\ ShakeSound(s) /\ FileSound(h)
                             /\ \A a \in answers : a[1] = h => AnswerSound(a)
  BY <1>1, InsideFacts
<1>3. keyFile = [keyFile EXCEPT ![clean[h]] = keyFile[clean[h]]]
      /\ certFile = [certFile EXCEPT ![clean[h]] = certFile[clean[h]]]
  BY DEF CertsIInv, CertsTyped
<1>4. File(s) = clean[h]
  BY <1>2 DEF File
<1>5. /\ shake[s] \in Shake /\ shake[s].key \in 1..MaxMade
      /\ keyFile[clean[h]] \in {None, Torn} \cup 1..MaxMade
  BY <1>1, <1>2 DEF CertsIInv, CertsTyped, ShakeTyped
<1>6. CASE ReadCert(s)
  <2> DEFINE moved == [shake[s] EXCEPT !.at = "answer"]
             row == [moved EXCEPT !.cert = certFile[clean[h]]]
  <2>1. /\ shake' = [shake EXCEPT ![s] = row] /\ certFile[clean[h]] \in Cert
        /\ UNCHANGED <<keyFile, certFile, lock, made, answers, rekeyed, spoiled>>
    BY <1>4, <1>6 DEF ReadCert, CertsIInv, CertsTyped
  <2>2. moved \in Shake /\ moved.at = "answer" /\ moved.host = h /\ moved.key = shake[s].key
    BY <1>2, <1>5 DEF Shake, Stages
  <2> HIDE DEF moved
  <2>3. /\ row \in Shake /\ row.at = "answer" /\ row.host = h /\ row.key = shake[s].key
        /\ row.cert = certFile[clean[h]]
    BY <2>1, <2>2 DEF Shake
  <2> HIDE DEF row
  <2>4. shake'[s] = row
    BY <2>1 DEF CertsIInv, CertsTyped
  <2>5. h \in Alone => /\ FileSound(h)' /\ ShakeSound(s)'
                       /\ \A a \in answers : a[1] = h => AnswerSound(a)'
    <3> SUFFICES ASSUME h \in Alone PROVE /\ FileSound(h)' /\ ShakeSound(s)'
                                          /\ \A a \in answers : a[1] = h => AnswerSound(a)'
      OBVIOUS
    <3>0. /\ FileSound(h) /\ \A a \in answers : a[1] = h => AnswerSound(a)
          /\ ShakeSound(s) /\ shake[s].host = h
      BY <1>2
    <3>1. /\ keyFile[clean[h]] # None
          /\ clean[h] \notin rekeyed => certFile[clean[h]].key = shake[s].key
      BY <1>1, <2>1, <3>0 DEF ShakeSound
    <3>2. FileSound(h)' /\ \A a \in answers : a[1] = h => AnswerSound(a)'
      BY <2>1, <3>0 DEF FileSound, AnswerSound
    <3>3. /\ shake'[s].at = "answer" /\ shake'[s].host = h /\ shake'[s].key = shake[s].key
          /\ shake'[s].cert = certFile[clean[h]] /\ certFile[clean[h]].host = h
          /\ certFile' = certFile /\ rekeyed' = rekeyed
      BY <2>1, <2>3, <2>4, <3>0 DEF FileSound
    <3>4. ShakeSound(s)'
      BY <3>1, <3>3 DEF ShakeSound
    <3> QED
      BY <3>2, <3>4
  <2>6. made' \in 0..MaxMade
    BY <2>1 DEF CertsIInv, CertsTyped
  <2> QED
    BY <1>1, <1>2, <1>3, <1>5, <2>1, <2>3, <2>5, <2>6, InsideStep
<1>7. CASE MakeCert(s)
  <2> DEFINE moved == [shake[s] EXCEPT !.at = "writeCert"]
             new == [host |-> h, key |-> shake[s].key, serial |-> made + 1]
             row == [moved EXCEPT !.cert = new]
  <2>1. /\ shake' = [shake EXCEPT ![s] = row] 
        /\ spoiled' = IF certFile[clean[h]] \in Cert THEN spoiled \cup {clean[h]} ELSE spoiled
        /\ certFile' = [certFile EXCEPT ![clean[h]] = Torn] /\ made' = made + 1 /\ made < MaxMade
        /\ UNCHANGED <<keyFile, lock, answers, rekeyed>>
    BY <1>2, <1>4, <1>7 DEF MakeCert, CertsIInv, CertsTyped
  <2>2. made + 1 \in 1..MaxMade /\ made' \in 0..MaxMade
    BY <2>1, CleanAssumption DEF CertsIInv, CertsTyped
  <2>3. new \in Cert /\ new.host = h /\ new.key = shake[s].key
    BY <1>5, <2>2 DEF Cert
  <2> HIDE DEF new
  <2>4. moved \in Shake /\ moved.at = "writeCert" /\ moved.host = h /\ moved.key = shake[s].key
    BY <1>2, <1>5 DEF Shake, Stages
  <2> HIDE DEF moved
  <2>5. /\ row \in Shake /\ row.at = "writeCert" /\ row.host = h /\ row.key = shake[s].key
        /\ row.cert = new
    BY <2>3, <2>4 DEF Shake
  <2> HIDE DEF row
  <2>6. shake'[s] = row /\ certFile'[clean[h]] = Torn
    BY <1>2, <2>1 DEF CertsIInv, CertsTyped
  <2>7. h \in Alone => /\ FileSound(h)' /\ ShakeSound(s)'
                       /\ \A a \in answers : a[1] = h => AnswerSound(a)'
    <3> SUFFICES ASSUME h \in Alone PROVE /\ FileSound(h)' /\ ShakeSound(s)'
                                          /\ \A a \in answers : a[1] = h => AnswerSound(a)'
      OBVIOUS
    <3>0. /\ \A a \in answers : a[1] = h => AnswerSound(a)
          /\ ShakeSound(s) /\ shake[s].host = h
      BY <1>2
    <3>1. /\ keyFile[clean[h]] # None
          /\ clean[h] \notin rekeyed => keyFile[clean[h]] \in {Torn, shake[s].key}
      BY <1>1, <3>0 DEF ShakeSound
    <3>2. FileSound(h)'
      BY <2>1, <2>6, <3>1, NoneAssumption DEF FileSound
    <3>3. keyFile' = keyFile /\ rekeyed' = rekeyed /\ certFile'[clean[h]] \notin Cert
      BY <2>1, <2>6, NoneAssumption
    <3>4. ShakeSound(s)'
      BY <2>3, <2>5, <2>6, <3>1, <3>3 DEF ShakeSound
    <3>5. ASSUME NEW a \in answers, a[1] = h PROVE AnswerSound(a)'
      <4>1. AnswerSound(a)
        BY <3>0, <3>5
      <4>2. clean[h] \in spoiled'
        BY <2>1, <3>5, <4>1 DEF AnswerSound
      <4> QED
        BY <3>3, <3>5, <4>1, <4>2 DEF AnswerSound
    <3> QED
      BY <3>2, <3>4, <3>5
  <2> QED
    BY <1>1, <1>2, <1>3, <1>5, <2>1, <2>2, <2>3, <2>5, <2>7, InsideStep
<1> QED
  BY <1>6, <1>7

(* Writing the certificate; if that fails, the files are spoiled. *)
LEMMA WriteCertKeeps ==
  ASSUME CertsIInv, NEW s \in Shakes, NEW ok \in BOOLEAN, WriteCert(s, ok)
  PROVE  CertsIInv'
<1>1. Inside(s) /\ shake[s].at = "writeCert"
  BY DEF Inside, WriteCert
<1>2. PICK h \in Hosts :
           /\ shake[s].host = h /\ clean[h] \in Files
           /\ keyFile[clean[h]] \in {None, Torn} \cup 1..MaxMade
           /\ certFile[clean[h]] \in {None, Torn} \cup Cert
           /\ shake[s].key \in 0..MaxMade /\ shake[s].cert \in Cert \cup {None} /\ ShakeTyped(s)
           /\ h \in Alone => /\ ShakeSound(s) /\ FileSound(h)
                             /\ \A a \in answers : a[1] = h => AnswerSound(a)
  BY <1>1, InsideFacts
<1>3. keyFile = [keyFile EXCEPT ![clean[h]] = keyFile[clean[h]]]
      /\ certFile = [certFile EXCEPT ![clean[h]] = certFile[clean[h]]]
  BY DEF CertsIInv, CertsTyped
<1>4. File(s) = clean[h]
  BY <1>2 DEF File
<1>5. shake[s].key \in 1..MaxMade /\ shake[s].cert \in Cert
  BY <1>1, <1>2 DEF ShakeTyped
<1> DEFINE row == [shake[s] EXCEPT !.at = "answer"]
<1>6. /\ shake' = [shake EXCEPT ![s] = row]
      /\ UNCHANGED <<keyFile, lock, made, answers, rekeyed>>
  BY DEF WriteCert
<1>7. PICK c \in {None, Torn} \cup Cert :
        /\ certFile' = [certFile EXCEPT ![clean[h]] = c]
        /\ \/ c = shake[s].cert /\ spoiled' = spoiled
           \/ c = certFile[clean[h]] /\ spoiled' = spoiled \cup {clean[h]}
  BY <1>2, <1>3, <1>4, <1>5 DEF WriteCert
<1>8. /\ row \in Shake /\ row.at = "answer" /\ row.host = h /\ row.key = shake[s].key
      /\ row.cert = shake[s].cert
  BY <1>2 DEF CertsIInv, CertsTyped, Shake, Stages
<1> HIDE DEF row
<1>9. shake'[s] = row /\ certFile'[clean[h]] = c
  BY <1>2, <1>6, <1>7 DEF CertsIInv, CertsTyped
<1>10. ASSUME h \in Alone
       PROVE  /\ FileSound(h)' /\ ShakeSound(s)'
              /\ \A a \in answers : a[1] = h => AnswerSound(a)'
  <2>1. /\ certFile[clean[h]] = Torn /\ keyFile[clean[h]] # None /\ shake[s].cert.host = h
        /\ clean[h] \notin rekeyed => /\ keyFile[clean[h]] \in {Torn, shake[s].key}
                                      /\ shake[s].cert.key = shake[s].key
    <3>1. ShakeSound(s) /\ shake[s].host = h
      BY <1>2, <1>10
    <3> QED
      BY <1>1, <3>1 DEF ShakeSound
  <2>2. FileSound(h)'
    BY <1>5, <1>6, <1>7, <1>9, <2>1, NoneAssumption DEF FileSound
  <2>3. ShakeSound(s)'
    <3>1. /\ shake'[s].at = "answer" /\ shake'[s].host = h /\ shake'[s].key = shake[s].key
          /\ shake'[s].cert = shake[s].cert
      BY <1>8, <1>9
    <3>2. clean[h] \notin spoiled' => certFile'[clean[h]] = shake[s].cert
      BY <1>7, <1>9
    <3>3. rekeyed' = rekeyed
      BY <1>6
    <3> QED
      BY <2>1, <3>1, <3>2, <3>3 DEF ShakeSound
  <2>4. ASSUME NEW a \in answers, a[1] = h PROVE AnswerSound(a)'
    <3>1. AnswerSound(a) /\ clean[a[1]] = clean[h] /\ certFile[clean[h]] \notin Cert
      BY <1>2, <1>10, <2>1, <2>4, NoneAssumption
    <3>2. clean[h] \in spoiled /\ a[3] \in Cert /\ a[3].host = a[1]
      BY <3>1 DEF AnswerSound
    <3>3. clean[h] \in spoiled' /\ rekeyed' = rekeyed
      BY <1>6, <1>7, <3>2
    <3> QED
      BY <3>1, <3>2, <3>3 DEF AnswerSound
  <2> QED
    BY <2>2, <2>3, <2>4
<1>11. made' \in 0..MaxMade
  BY <1>6 DEF CertsIInv, CertsTyped
<1> QED
  BY <1>1, <1>2, <1>3, <1>5, <1>6, <1>7, <1>8, <1>10, <1>11, InsideStep

(* After an end of the process nobody has a lock, and the files are what    *)
(* they were.                                                               *)
LEMMA ProcessEndsKeeps == ASSUME CertsIInv, ProcessEnds PROVE CertsIInv'
<1>0. /\ shake' = [s \in Shakes |-> NoShake] /\ lock' = [h \in Hosts |-> None]
      /\ UNCHANGED <<keyFile, certFile, made, answers, rekeyed, spoiled>>
  BY DEF ProcessEnds
<1>1. NoShake \in Shake /\ NoShake.at = "idle"
  BY CleanAssumption DEF NoShake, Shake, Stages
<1>2. CertsTyped'
  BY <1>0, <1>1 DEF CertsIInv, CertsTyped, ShakeTyped
<1>3. \A s \in Shakes : ~Inside(s)'
  BY <1>0, <1>1 DEF Inside
<1> QED
  BY <1>0, <1>2, <1>3 DEF CertsIInv, LocksHeld, FileSound, AnswerSound, Alone

(* Every step of a handshake, a crash of the proxy and a restart preserve   *)
(* the invariant.                                                           *)
LEMMA CertsStep == CertsIInv /\ [CertsNext]_certVars => CertsIInv'
<1> SUFFICES ASSUME CertsIInv, [CertsNext]_certVars PROVE CertsIInv'
  OBVIOUS
<1>1. CASE UNCHANGED certVars
  <2>1. /\ keyFile' = keyFile /\ certFile' = certFile /\ rekeyed' = rekeyed /\ spoiled' = spoiled
        /\ shake' = shake /\ lock' = lock /\ made' = made /\ answers' = answers
    BY <1>1 DEF certVars
  <2>2. \A s \in Shakes : ShakeSound(s) => ShakeSound(s)'
    BY <2>1, SameFiles
  <2> QED
    BY <2>1, <2>2 DEF CertsIInv, CertsTyped, ShakeTyped, LocksHeld, Inside, FileSound, AnswerSound, Alone
<1>2. CASE CertsNext
  <2>1. ASSUME NEW s \in Shakes, EnsureCert(s) \/ OpenFails(s) PROVE CertsIInv'
    <3>1. Inside(s)
      BY <2>1 DEF Inside, EnsureCert, OpenFails
    <3> QED
      BY <2>1, <3>1, EndKeeps DEF EnsureCert, OpenFails
  <2> QED
    BY <1>2, <2>1, ProcessEndsKeeps, LockKeeps, KeyStepKeeps, CertStepKeeps, WriteKeyKeeps,
       WriteCertKeeps, GetCertificateKeeps DEF CertsNext
<1> QED
  BY <1>1, <1>2

(* A host that does not share its files is always answered with one         *)
(* certificate, for itself and for the key that goes with it (HandleConnect *)
(* and EnsureCert, any number of handshakes, reads and writes that fail at  *)
(* any time, ends of the process at any time), unless the certificate could *)
(* not be read or written, or a key was replaced.                           *)
THEOREM AlwaysCertsMatch == CertsSpec => []CertsMatch
<1>1. CertsIInv => CertsMatch
  <2> SUFFICES ASSUME CertsIInv PROVE CertsMatch
    OBVIOUS
  <2>1. CertsTypeOK
    BY DEF CertsIInv, CertsTyped, CertsTypeOK, Shake
  <2>2. CertFits
    BY DEF CertsIInv, AnswerSound, CertFits
  <2>3. OneCertPerHost
    BY DEF CertsIInv, AnswerSound, OneCertPerHost
  <2> QED
    BY <2>1, <2>2, <2>3 DEF CertsMatch
<1> QED
  BY <1>1, CertsInitIInv, CertsStep, PTL DEF CertsSpec

-----------------------------------------------------------------------------
(* Held requests.                                                           *)

Ids == 0..MaxHeld
TunnelRow == [at : {"read", "register", "wait", "expire", "apply", "send"}, id : Ids,
              req : Handlers \cup {Original}]
HandlerRow == [op : {"none", "forward", "drop"}, id : Ids, ch : Tunnels \cup {"none"}]

InterceptTyped ==
    /\ Intercept \in BOOLEAN
    /\ tunnel \in [Tunnels -> TunnelRow]
    /\ handler \in [Handlers -> HandlerRow]
    /\ \A i \in DOMAIN InterceptPayload : InterceptPayload[i] \in Handlers
    /\ lastID \in Ids
    /\ held \subseteq 1..lastID
    /\ verdicts \subseteq held \X {"forward", "drop"}
    /\ DOMAIN sent \subseteq 1..lastID

Decided(i) == \E op \in {"forward", "drop"} : <<i, op>> \in verdicts
Pending(t, i) == tunnel[t].id = i /\ tunnel[t].at \in {"wait", "expire"}
Forwarded(i) == <<i, "forward">> \in verdicts /\ <<i, "drop">> \notin verdicts

(* A request on its way has been decided as far as it has come. *)
TunnelSound(t) ==
    IF tunnel[t].at = "read" THEN tunnel[t] = NoTunnel
    ELSE /\ tunnel[t].id \in 1..lastID /\ tunnel[t].id \notin DOMAIN sent
         /\ tunnel[t].at = "register" => tunnel[t].id \notin held
         /\ tunnel[t].at \in {"wait", "expire"} => tunnel[t].id \in held /\ ~Decided(tunnel[t].id)
         /\ tunnel[t].at = "apply" =>
              /\ tunnel[t].id \in held /\ Forwarded(tunnel[t].id)
              /\ tunnel[t].id \in DOMAIN InterceptPayload
         /\ tunnel[t].at = "send" =>
              IF tunnel[t].id \in held THEN tunnel[t].req # Original /\ Forwarded(tunnel[t].id)
              ELSE tunnel[t].req = Original

TunnelsSound ==
    /\ \A t \in Tunnels : TunnelSound(t)
    /\ \A t, u \in Tunnels : tunnel[t].at # "read" /\ tunnel[u].id = tunnel[t].id => t = u

(* A channel in the map is waited on, or what it was for is decided.        *)
EntriesSound ==
    \A i \in DOMAIN Intercepts :
        /\ i \in held /\ Intercepts[i] \in Tunnels
        /\ Decided(i) \/ Pending(Intercepts[i], i)

(* A forward has left its version of the request, as long as anybody waits  *)
(* for it; the mutex is with a drop, of which the same is true as of an     *)
(* entry, since no wait ends its entry without the mutex.                   *)
HandlerSound(h) ==
    /\ handler[h].op = "none" => handler[h] = NoHandler
    /\ handler[h].op # "none" => handler[h].id \in held /\ handler[h].ch \in Tunnels
    /\ handler[h].op = "forward" =>
         \A t \in Tunnels : Pending(t, handler[h].id) => handler[h].id \in DOMAIN InterceptPayload

MutexSound ==
    mutex # "free" =>
        /\ mutex \in Handlers /\ handler[mutex].op = "drop"
        /\ Decided(handler[mutex].id) \/ Pending(handler[mutex].ch, handler[mutex].id)

InterceptIInv ==
    /\ InterceptTyped
    /\ TunnelsSound
    /\ EntriesSound
    /\ \A h \in Handlers : HandlerSound(h)
    /\ MutexSound
    /\ SentAsDecided
    /\ ForwardedIsSent

(* A proxy that has just started: no connection and nothing held.           *)
LEMMA InterceptInitIInv == InterceptInit => InterceptIInv
<1> SUFFICES ASSUME InterceptInit PROVE InterceptIInv
  OBVIOUS
<1>1. NoTunnel \in TunnelRow /\ NoTunnel.at = "read" /\ NoHandler \in HandlerRow /\ NoHandler.op = "none"
  BY HandlersAssumption DEF NoTunnel, TunnelRow, NoHandler, HandlerRow, Ids
<1>2. DOMAIN Empty = {}
  BY DEF Empty
<1>3. InterceptTyped
  <2>1. tunnel \in [Tunnels -> TunnelRow] /\ handler \in [Handlers -> HandlerRow]
    BY <1>1 DEF InterceptInit
  <2>2. lastID = 0 /\ held = {} /\ verdicts = {} /\ Intercept = FALSE
    BY DEF InterceptInit
  <2>3. DOMAIN sent = {} /\ DOMAIN InterceptPayload = {}
    BY <1>2 DEF InterceptInit
  <2>4. \A i \in DOMAIN InterceptPayload : InterceptPayload[i] \in Handlers
    BY <2>3
  <2>5. lastID \in Ids /\ DOMAIN sent \subseteq 1..lastID /\ held \subseteq 1..lastID
    BY <2>2, <2>3, HandlersAssumption DEF Ids
  <2>6. verdicts \subseteq held \X {"forward", "drop"}
    BY <2>2
  <2> QED
    BY <2>1, <2>2, <2>4, <2>5, <2>6 DEF InterceptTyped
<1>4. TunnelsSound
  BY <1>1 DEF InterceptInit, TunnelsSound, TunnelSound
<1>5. /\ EntriesSound /\ MutexSound /\ SentAsDecided /\ ForwardedIsSent
      /\ \A h \in Handlers : HandlerSound(h)
  BY <1>1, <1>2 DEF InterceptInit, EntriesSound, HandlerSound, MutexSound, SentAsDecided, ForwardedIsSent
<1> QED
  BY <1>3, <1>4, <1>5 DEF InterceptIInv

(* What a tunnel is at, in one place. *)
LEMMA TunnelFacts ==
  ASSUME InterceptIInv, NEW t \in Tunnels
  PROVE  /\ tunnel[t] \in TunnelRow /\ TunnelSound(t)
         /\ tunnel[t].at # "read" =>
              /\ tunnel[t].id \in 1..lastID
              /\ \A u \in Tunnels \ {t} : tunnel[u].id # tunnel[t].id
         /\ lastID \in Nat
BY HandlersAssumption DEF InterceptIInv, InterceptTyped, TunnelsSound, TunnelSound, Ids

(* A step of one tunnel leaves the others alone: what it changes is about   *)
(* the request i, which is not theirs.                                      *)
LEMMA OtherTunnels ==
  ASSUME InterceptIInv, NEW t \in Tunnels, NEW i \in Nat \ {0}, TunnelSound(t)',
         \A u \in Tunnels \ {t} : tunnel'[u] = tunnel[u] /\ tunnel[u].id # i,
         tunnel'[t].id = i \/ tunnel'[t] = NoTunnel,
         lastID' \in Nat, lastID <= lastID',
         \A j \in 1..lastID \ {i} :
            /\ j \in held' <=> j \in held
            /\ j \in DOMAIN sent' <=> j \in DOMAIN sent
            /\ j \in DOMAIN InterceptPayload => j \in DOMAIN InterceptPayload'
            /\ \A op : <<j, op>> \in verdicts' <=> <<j, op>> \in verdicts
  PROVE  TunnelsSound'
<1>1. ASSUME NEW u \in Tunnels PROVE TunnelSound(u)'
  <2>1. CASE u # t
    <3>1. PICK j : j = tunnel[u].id
      OBVIOUS
    <3>2. tunnel[u].at # "read" => j \in 1..lastID \ {i}
      BY <2>1, <3>1, TunnelFacts
    <3>3. TunnelSound(u) /\ tunnel'[u] = tunnel[u] /\ lastID \in Nat
      BY <2>1, TunnelFacts
    <3>4. tunnel[u].at # "read" => /\ (Decided(j)' <=> Decided(j))
                                   /\ (Forwarded(j)' <=> Forwarded(j)) /\ j \in 1..lastID'
      BY <3>2, <3>3 DEF Decided, Forwarded
    <3> QED
      BY <3>1, <3>2, <3>3, <3>4 DEF TunnelSound
  <2> QED
    BY <2>1
<1>2. ASSUME NEW u \in Tunnels, NEW v \in Tunnels, tunnel'[u].at # "read", tunnel'[v].id = tunnel'[u].id
      PROVE  u = v
  <2>1. CASE u # t /\ v # t
    BY <1>2, <2>1, TunnelFacts
  <2>2. NoTunnel.at = "read" /\ NoTunnel.id = 0
    BY DEF NoTunnel
  <2>3. CASE u = t
    BY <1>2, <2>2, <2>3
  <2>4. CASE v = t
    <3>1. u # t => tunnel[u].id \in 1..lastID
      BY <1>2, TunnelFacts
    <3> QED
      BY <1>2, <2>2, <2>4, <3>1, TunnelFacts
  <2> QED
    BY <2>1, <2>3, <2>4
<1> QED
  BY <1>1, <1>2 DEF TunnelsSound

(* The new row of one tunnel. *)
LEMMA TunnelSet ==
  ASSUME InterceptIInv, NEW t \in Tunnels, NEW row \in TunnelRow, tunnel' = [tunnel EXCEPT ![t] = row]
  PROVE  /\ tunnel' \in [Tunnels -> TunnelRow] /\ tunnel'[t] = row
         /\ \A u \in Tunnels \ {t} : tunnel'[u] = tunnel[u]
BY DEF InterceptIInv, InterceptTyped

(* A step that takes no handler further keeps what is known of them, if it  *)
(* starts no wait on a request that was held before, keeps the edited       *)
(* request of one that is waited for, and ends no wait without the mutex.   *)
LEMMA HandlersKeep ==
  ASSUME InterceptIInv, UNCHANGED <<handler, mutex, verdicts>>, held \subseteq held',
         \A t \in Tunnels, i \in held : Pending(t, i)' =>
            Pending(t, i) /\ (i \in DOMAIN InterceptPayload => i \in DOMAIN InterceptPayload'),
         mutex = "free" \/ \A t \in Tunnels, i \in held : Pending(t, i) => Pending(t, i)'
  PROVE  (\A h \in Handlers : HandlerSound(h)') /\ MutexSound'
<1>1. \A i : Decided(i)' <=> Decided(i)
  BY DEF Decided
<1>2. ASSUME NEW h \in Handlers PROVE HandlerSound(h)'
  <2>1. HandlerSound(h)
    BY DEF InterceptIInv
  <2> QED
    BY <2>1 DEF HandlerSound
<1>3. MutexSound'
  <2> SUFFICES ASSUME mutex # "free" PROVE MutexSound'
    BY DEF MutexSound
  <2>1. /\ mutex \in Handlers /\ handler[mutex].op = "drop" /\ HandlerSound(mutex)
        /\ Decided(handler[mutex].id) \/ Pending(handler[mutex].ch, handler[mutex].id)
    BY DEF InterceptIInv, MutexSound
  <2>2. handler[mutex].id \in held /\ handler[mutex].ch \in Tunnels
    BY <2>1 DEF HandlerSound
  <2> QED
    BY <1>1, <2>1, <2>2 DEF MutexSound
<1> QED
  BY <1>2, <1>3

(* The entries that a step leaves stay sound if their waits go on, or end   *)
(* with a decision.                                                         *)
LEMMA EntriesKeep ==
  ASSUME InterceptIInv, verdicts \subseteq verdicts', held \subseteq held',
         \A j \in DOMAIN Intercepts' :
            /\ j \in DOMAIN Intercepts /\ Intercepts'[j] = Intercepts[j]
            /\ \A t \in Tunnels : Pending(t, j) => Pending(t, j)' \/ Decided(j)'
  PROVE  EntriesSound'
<1> SUFFICES ASSUME NEW j \in DOMAIN Intercepts'
    PROVE  /\ j \in held' /\ Intercepts'[j] \in Tunnels
           /\ Decided(j)' \/ Pending(Intercepts[j], j)'
  BY DEF EntriesSound
<1>1. j \in DOMAIN Intercepts /\ Intercepts'[j] = Intercepts[j]
  OBVIOUS
<1>2. j \in held /\ Intercepts[j] \in Tunnels /\ (Decided(j) \/ Pending(Intercepts[j], j))
  BY <1>1 DEF InterceptIInv, EntriesSound
<1>3. PICK t \in Tunnels : t = Intercepts[j]
  BY <1>2
<1>4. Decided(j) => Decided(j)'
  BY DEF Decided
<1>5. Pending(t, j) => Pending(t, j)' \/ Decided(j)'
  OBVIOUS
<1> QED
  BY <1>1, <1>2, <1>3, <1>4, <1>5

(* A confirmed forward is kept by a step that confirms none. *)
LEMMA ForwardedKeep ==
  ASSUME InterceptIInv, verdicts' = verdicts, DOMAIN sent \subseteq DOMAIN sent',
         \A u \in Tunnels : tunnel[u].at \in {"apply", "send"} =>
            \/ tunnel[u].id \in DOMAIN sent'
            \/ tunnel'[u].id = tunnel[u].id /\ tunnel'[u].at \in {"apply", "send"}
  PROVE  ForwardedIsSent'
<1> SUFFICES ASSUME NEW j, <<j, "forward">> \in verdicts, j \notin DOMAIN sent'
    PROVE \E u \in Tunnels : tunnel'[u].id = j /\ tunnel'[u].at \in {"apply", "send"}
  BY DEF ForwardedIsSent
<1>1. j \in 1..lastID
  BY DEF InterceptIInv, InterceptTyped
<1>2. PICK u \in Tunnels : tunnel[u].id = j /\ tunnel[u].at \in {"apply", "send"}
  BY <1>1 DEF InterceptIInv, ForwardedIsSent
<1> QED
  BY <1>2

(* ReadRequest: a new request, of which nobody knows yet. *)
LEMMA ReadRequestKeeps ==
  ASSUME InterceptIInv, NEW t \in Tunnels, ReadRequest(t)
  PROVE  InterceptIInv'
<1> DEFINE row == [at |-> IF Intercept THEN "register" ELSE "send", id |-> lastID', req |-> Original]
<1>0. /\ UNCHANGED <<Intercept, Intercepts, InterceptPayload, mutex, handler, held, sent, verdicts>>
      /\ tunnel[t].at = "read" /\ tunnel' = [tunnel EXCEPT ![t] = row]
      /\ lastID' = lastID + 1 /\ lastID < MaxHeld
  BY DEF ReadRequest
<1>1. PICK i \in Nat \ {0} : /\ i = lastID' /\ lastID = i - 1 /\ i \in Ids
                            /\ i \notin held /\ i \notin DOMAIN sent
  BY <1>0, HandlersAssumption DEF InterceptIInv, InterceptTyped, Ids
<1>2. /\ row \in TunnelRow /\ row.at \in {"register", "send"} /\ row.id = i /\ row.req = Original
  BY <1>1 DEF TunnelRow
<1> HIDE DEF row
<1>3. /\ tunnel' \in [Tunnels -> TunnelRow] /\ tunnel'[t] = row
      /\ \A u \in Tunnels \ {t} : tunnel'[u] = tunnel[u]
  BY <1>0, <1>2, TunnelSet
<1>4. InterceptTyped'
  BY <1>0, <1>1, <1>3 DEF InterceptIInv, InterceptTyped
<1>5. \A u \in Tunnels : tunnel[u].id # i
  <2>1. NoTunnel.id = 0
    BY DEF NoTunnel
  <2> SUFFICES ASSUME NEW u \in Tunnels PROVE tunnel[u].id # i
    OBVIOUS
  <2>2. TunnelSound(u) /\ (tunnel[u].at # "read" => tunnel[u].id \in 1..lastID)
    BY TunnelFacts
  <2> QED
    BY <1>1, <2>1, <2>2 DEF TunnelSound
<1>6. TunnelSound(t)'
  BY <1>0, <1>1, <1>2, <1>3 DEF TunnelSound
<1>7. TunnelsSound'
  BY <1>0, <1>1, <1>2, <1>3, <1>5, <1>6, OtherTunnels
<1>8. \A u \in Tunnels, j \in held : Pending(u, j) <=> Pending(u, j)'
  <2>1. tunnel'[t].id \notin held
    BY <1>1, <1>2, <1>3
  <2> QED
    BY <1>0, <1>3, <2>1 DEF Pending
<1>9. EntriesSound'
  <2>1. \A j \in DOMAIN Intercepts : j \in held
    BY DEF InterceptIInv, EntriesSound
  <2> QED
    BY <1>0, <1>8, <2>1, EntriesKeep
<1>10. (\A h \in Handlers : HandlerSound(h)') /\ MutexSound'
  BY <1>0, <1>8, HandlersKeep
<1>11. SentAsDecided'
  BY <1>0 DEF InterceptIInv, SentAsDecided
<1>12. ForwardedIsSent'
  BY <1>0, <1>3, ForwardedKeep
<1> QED
  BY <1>4, <1>7, <1>9, <1>10, <1>11, <1>12 DEF InterceptIInv

(* Register: the request is held, and its wait begins. *)
LEMMA RegisterKeeps ==
  ASSUME InterceptIInv, NEW t \in Tunnels, Register(t)
  PROVE  InterceptIInv'
<1> DEFINE row == [tunnel[t] EXCEPT !.at = "wait"]
<1>0. /\ UNCHANGED <<Intercept, InterceptPayload, mutex, handler, lastID, sent, verdicts>>
      /\ tunnel[t].at = "register" /\ tunnel' = [tunnel EXCEPT ![t] = row]
      /\ Intercepts' = With(Intercepts, tunnel[t].id, t) /\ held' = held \cup {tunnel[t].id}
  BY DEF Register, Move
<1>1. PICK i \in 1..lastID : i = tunnel[t].id /\ i \notin held /\ i \notin DOMAIN sent
  BY <1>0, TunnelFacts DEF TunnelSound
<1>2. row \in TunnelRow /\ row.at = "wait" /\ row.id = i
  BY <1>1, TunnelFacts DEF TunnelRow
<1> HIDE DEF row
<1>3. /\ tunnel' \in [Tunnels -> TunnelRow] /\ tunnel'[t] = row
      /\ \A u \in Tunnels \ {t} : tunnel'[u] = tunnel[u]
  BY <1>0, <1>2, TunnelSet
<1>4. InterceptTyped'
  BY <1>0, <1>1, <1>3 DEF InterceptIInv, InterceptTyped
<1>5. ~Decided(i)
  BY <1>1 DEF InterceptIInv, InterceptTyped, Decided
<1>6. TunnelSound(t)'
  BY <1>0, <1>1, <1>2, <1>3, <1>5 DEF TunnelSound, Decided
<1>7. TunnelsSound'
  <2>1. lastID \in Nat /\ i \in Nat \ {0}
    BY TunnelFacts
  <2>2. \A u \in Tunnels \ {t} : tunnel[u].id # i
    BY <1>0, <1>1, TunnelFacts
  <2> QED
    BY <1>0, <1>1, <1>2, <1>3, <1>6, <2>1, <2>2, OtherTunnels
<1>8. \A u \in Tunnels, j \in held : Pending(u, j) <=> Pending(u, j)'
  BY <1>0, <1>1, <1>2, <1>3 DEF Pending
<1>9. EntriesSound'
  <2> SUFFICES ASSUME NEW j \in DOMAIN Intercepts'
      PROVE  /\ j \in held' /\ Intercepts'[j] \in Tunnels
             /\ Decided(j)' \/ Pending(Intercepts[j], j)'
    BY DEF EntriesSound
  <2>1. CASE j = i
    <3>1. Intercepts'[j] = t
      BY <1>0, <1>1, <2>1 DEF With
    <3>2. Pending(t, j)'
      BY <1>2, <1>3, <2>1 DEF Pending
    <3> QED
      BY <1>0, <1>1, <2>1, <3>1, <3>2
  <2>2. CASE j # i
    <3>1. j \in DOMAIN Intercepts /\ Intercepts'[j] = Intercepts[j]
      BY <1>0, <1>1, <2>2 DEF With
    <3>2. PICK u \in Tunnels : u = Intercepts[j] /\ j \in held /\ (Decided(j) \/ Pending(u, j))
      BY <3>1 DEF InterceptIInv, EntriesSound
    <3>3. Decided(j)' \/ Pending(u, j)'
      BY <1>0, <1>8, <3>2 DEF Decided
    <3> QED
      BY <1>0, <3>1, <3>2, <3>3
  <2> QED
    BY <2>1, <2>2
<1>10. (\A h \in Handlers : HandlerSound(h)') /\ MutexSound'
  BY <1>0, <1>8, HandlersKeep
<1>11. SentAsDecided'
  BY <1>0, <1>1 DEF InterceptIInv, SentAsDecided
<1>12. ForwardedIsSent'
  BY <1>0, <1>3, ForwardedKeep
<1> QED
  BY <1>4, <1>7, <1>9, <1>10, <1>11, <1>12 DEF InterceptIInv

(* Timeout: the wait is over, but the entry is still there. *)
LEMMA TimeoutKeeps ==
  ASSUME InterceptIInv, NEW t \in Tunnels, Timeout(t)
  PROVE  InterceptIInv'
<1> DEFINE row == [tunnel[t] EXCEPT !.at = "expire"]
<1>0. /\ UNCHANGED <<Intercept, Intercepts, InterceptPayload, mutex, handler, lastID, held, sent, verdicts>>
      /\ tunnel[t].at = "wait" /\ tunnel' = [tunnel EXCEPT ![t] = row]
  BY DEF Timeout, Move
<1>1. PICK i \in 1..lastID : i = tunnel[t].id /\ i \in held /\ i \notin DOMAIN sent /\ ~Decided(i)
  BY <1>0, TunnelFacts DEF TunnelSound
<1>2. row \in TunnelRow /\ row.at = "expire" /\ row.id = i
  BY <1>1, TunnelFacts DEF TunnelRow
<1> HIDE DEF row
<1>3. /\ tunnel' \in [Tunnels -> TunnelRow] /\ tunnel'[t] = row
      /\ \A u \in Tunnels \ {t} : tunnel'[u] = tunnel[u]
  BY <1>0, <1>2, TunnelSet
<1>4. InterceptTyped'
  BY <1>0, <1>3 DEF InterceptIInv, InterceptTyped
<1>6. TunnelSound(t)'
  BY <1>0, <1>1, <1>2, <1>3 DEF TunnelSound, Decided
<1>7. TunnelsSound'
  <2>1. lastID \in Nat /\ i \in Nat \ {0}
    BY TunnelFacts
  <2>2. \A u \in Tunnels \ {t} : tunnel[u].id # i
    BY <1>0, <1>1, TunnelFacts
  <2> QED
    BY <1>0, <1>1, <1>2, <1>3, <1>6, <2>1, <2>2, OtherTunnels
<1>8. \A u \in Tunnels : \A j : Pending(u, j) <=> Pending(u, j)'
  BY <1>0, <1>1, <1>2, <1>3 DEF Pending
<1>9. EntriesSound'
  BY <1>0, <1>8, EntriesKeep
<1>10. (\A h \in Handlers : HandlerSound(h)') /\ MutexSound'
  BY <1>0, <1>8, HandlersKeep
<1>11. SentAsDecided'
  BY <1>0 DEF InterceptIInv, SentAsDecided
<1>12. ForwardedIsSent'
  BY <1>0, <1>3, ForwardedKeep
<1> QED
  BY <1>4, <1>7, <1>9, <1>10, <1>11, <1>12 DEF InterceptIInv

(* A tunnel that goes back to its client for the next request. *)
LEMMA IdleTunnel ==
  /\ NoTunnel \in TunnelRow /\ NoTunnel.at = "read"
  /\ \A j : ~(NoTunnel.id = j /\ NoTunnel.at \in {"wait", "expire", "apply", "send"})
BY HandlersAssumption DEF NoTunnel, TunnelRow, Ids

(* Expire: with the mutex, the entry goes and nobody waits any more. *)
LEMMA ExpireKeeps ==
  ASSUME InterceptIInv, NEW t \in Tunnels, Expire(t)
  PROVE  InterceptIInv'
<1>0. /\ UNCHANGED <<Intercept, InterceptPayload, mutex, handler, lastID, held, sent, verdicts>>
      /\ tunnel[t].at = "expire" /\ tunnel' = [tunnel EXCEPT ![t] = NoTunnel] /\ mutex = "free"
      /\ Intercepts' = Without(Intercepts, tunnel[t].id)
  BY DEF Expire
<1>1. PICK i \in 1..lastID : i = tunnel[t].id
  BY <1>0, TunnelFacts
<1>3. /\ tunnel' \in [Tunnels -> TunnelRow] /\ tunnel'[t] = NoTunnel
      /\ \A u \in Tunnels \ {t} : tunnel'[u] = tunnel[u]
  BY <1>0, IdleTunnel, TunnelSet
<1>4. InterceptTyped'
  BY <1>0, <1>3 DEF InterceptIInv, InterceptTyped
<1>6. TunnelSound(t)'
  BY <1>3, IdleTunnel DEF TunnelSound
<1>7. TunnelsSound'
  <2>1. lastID \in Nat /\ i \in Nat \ {0}
    BY TunnelFacts
  <2>2. \A u \in Tunnels \ {t} : tunnel[u].id # i
    BY <1>0, <1>1, TunnelFacts
  <2> QED
    BY <1>0, <1>1, <1>3, <1>6, <2>1, <2>2, OtherTunnels
<1>8. \A u \in Tunnels : \A j : (Pending(u, j)' => Pending(u, j)) /\ (Pending(u, j) /\ j # i => Pending(u, j)')
  BY <1>1, <1>3, IdleTunnel DEF Pending
<1>9. EntriesSound'
  <2>1. \A j \in DOMAIN Intercepts' : /\ j \in DOMAIN Intercepts /\ j # i
                                       /\ Intercepts'[j] = Intercepts[j]
    BY <1>0, <1>1 DEF Without
  <2> QED
    BY <1>0, <1>8, <2>1, EntriesKeep
<1>10. (\A h \in Handlers : HandlerSound(h)') /\ MutexSound'
  BY <1>0, <1>8, HandlersKeep
<1>11. SentAsDecided'
  BY <1>0 DEF InterceptIInv, SentAsDecided
<1>12. ForwardedIsSent'
  BY <1>0, <1>3, ForwardedKeep
<1> QED
  BY <1>4, <1>7, <1>9, <1>10, <1>11, <1>12 DEF InterceptIInv

(* Apply: the request goes on as the version that was forwarded. *)
LEMMA ApplyKeeps ==
  ASSUME InterceptIInv, NEW t \in Tunnels, Apply(t)
  PROVE  InterceptIInv'
<1>1. PICK i \in 1..lastID : i = tunnel[t].id
  BY TunnelFacts DEF Apply
<1>2. /\ tunnel[t].at = "apply" /\ i \in held /\ i \notin DOMAIN sent /\ Forwarded(i)
      /\ i \in DOMAIN InterceptPayload /\ InterceptPayload[i] \in Handlers
  BY <1>1, TunnelFacts DEF Apply, TunnelSound, InterceptIInv, InterceptTyped
<1> DEFINE moved == [tunnel[t] EXCEPT !.at = "send"]
           row == [moved EXCEPT !.req = InterceptPayload[i]]
<1>3. /\ UNCHANGED <<Intercept, mutex, handler, lastID, held, sent, verdicts>>
      /\ tunnel' = [tunnel EXCEPT ![t] = row] /\ mutex = "free"
      /\ Intercepts' = Without(Intercepts, i) /\ InterceptPayload' = Without(InterceptPayload, i)
  BY <1>1, <1>2 DEF Apply
<1>4. moved \in TunnelRow /\ moved.at = "send" /\ moved.id = i
  BY <1>1, TunnelFacts DEF TunnelRow
<1> HIDE DEF moved
<1>5. row \in TunnelRow /\ row.at = "send" /\ row.id = i /\ row.req \in Handlers
  BY <1>2, <1>4 DEF TunnelRow
<1> HIDE DEF row
<1>6. /\ tunnel' \in [Tunnels -> TunnelRow] /\ tunnel'[t] = row
      /\ \A u \in Tunnels \ {t} : tunnel'[u] = tunnel[u]
  BY <1>3, <1>5, TunnelSet
<1>7. \A j \in DOMAIN InterceptPayload \ {i} :
         j \in DOMAIN InterceptPayload' /\ InterceptPayload'[j] = InterceptPayload[j]
  BY <1>3 DEF Without
<1>8. InterceptTyped'
  <2>1. \A j \in DOMAIN InterceptPayload' : InterceptPayload'[j] \in Handlers
    BY <1>3 DEF Without, InterceptIInv, InterceptTyped
  <2> QED
    BY <1>3, <1>6, <2>1 DEF InterceptIInv, InterceptTyped
<1>9. TunnelSound(t)'
  BY <1>1, <1>2, <1>3, <1>5, <1>6, HandlersAssumption DEF TunnelSound, Forwarded
<1>10. TunnelsSound'
  <2>1. lastID \in Nat /\ i \in Nat \ {0}
    BY TunnelFacts
  <2>2. \A u \in Tunnels \ {t} : tunnel[u].id # i
    BY <1>1, <1>2, TunnelFacts
  <2> QED
    BY <1>3, <1>5, <1>6, <1>7, <1>9, <2>1, <2>2, OtherTunnels
<1>11. \A u \in Tunnels : \A j : /\ Pending(u, j) <=> Pending(u, j)'
                                 /\ Pending(u, j) => j # i
  BY <1>1, <1>2, <1>5, <1>6, TunnelFacts DEF Pending
<1>12. EntriesSound'
  <2>1. \A j \in DOMAIN Intercepts' : j \in DOMAIN Intercepts /\ Intercepts'[j] = Intercepts[j]
    BY <1>3 DEF Without
  <2> QED
    BY <1>3, <1>11, <2>1, EntriesKeep
<1>13. (\A h \in Handlers : HandlerSound(h)') /\ MutexSound'
  BY <1>3, <1>7, <1>11, HandlersKeep
<1>14. SentAsDecided'
  BY <1>3 DEF InterceptIInv, SentAsDecided
<1>15. ForwardedIsSent'
  BY <1>1, <1>3, <1>5, <1>6, ForwardedKeep
<1> QED
  BY <1>8, <1>10, <1>12, <1>13, <1>14, <1>15 DEF InterceptIInv

(* SendRequest: what goes to the server is as it was decided. *)
LEMMA SendRequestKeeps ==
  ASSUME InterceptIInv, NEW t \in Tunnels, SendRequest(t)
  PROVE  InterceptIInv'
<1>0. /\ UNCHANGED <<Intercept, Intercepts, InterceptPayload, mutex, handler, lastID, held, verdicts>>
      /\ tunnel[t].at = "send" /\ tunnel' = [tunnel EXCEPT ![t] = NoTunnel]
      /\ sent' = With(sent, tunnel[t].id, tunnel[t].req)
  BY DEF SendRequest
<1>1. PICK i \in 1..lastID :
         /\ i = tunnel[t].id /\ i \notin DOMAIN sent
         /\ IF i \in held THEN tunnel[t].req # Original /\ Forwarded(i) ELSE tunnel[t].req = Original
  BY <1>0, TunnelFacts DEF TunnelSound
<1>2. /\ DOMAIN sent' = DOMAIN sent \cup {i} /\ sent'[i] = tunnel[t].req
      /\ \A j \in DOMAIN sent : sent'[j] = sent[j]
  BY <1>0, <1>1 DEF With
<1>3. /\ tunnel' \in [Tunnels -> TunnelRow] /\ tunnel'[t] = NoTunnel
      /\ \A u \in Tunnels \ {t} : tunnel'[u] = tunnel[u]
  BY <1>0, IdleTunnel, TunnelSet
<1>4. InterceptTyped'
  BY <1>0, <1>2, <1>3 DEF InterceptIInv, InterceptTyped
<1>6. TunnelSound(t)'
  BY <1>3, IdleTunnel DEF TunnelSound
<1>7. TunnelsSound'
  <2>1. lastID \in Nat /\ i \in Nat \ {0}
    BY TunnelFacts
  <2>2. \A u \in Tunnels \ {t} : tunnel[u].id # i
    BY <1>0, <1>1, TunnelFacts
  <2> QED
    BY <1>0, <1>2, <1>3, <1>6, <2>1, <2>2, OtherTunnels
<1>8. \A u \in Tunnels : \A j : Pending(u, j) <=> Pending(u, j)'
  BY <1>0, <1>3, IdleTunnel DEF Pending
<1>9. EntriesSound'
  BY <1>0, <1>8, EntriesKeep
<1>10. (\A h \in Handlers : HandlerSound(h)') /\ MutexSound'
  BY <1>0, <1>8, HandlersKeep
<1>11. SentAsDecided'
  BY <1>0, <1>1, <1>2 DEF InterceptIInv, SentAsDecided, Forwarded
<1>12. ForwardedIsSent'
  BY <1>0, <1>1, <1>2, <1>3, ForwardedKeep
<1> QED
  BY <1>4, <1>7, <1>9, <1>10, <1>11, <1>12 DEF InterceptIInv

(* A handler takes an entry: its request is held, and decided or waited for. *)
LEMMA EntryFacts ==
  ASSUME InterceptIInv, NEW i \in DOMAIN Intercepts
  PROVE  /\ i \in held /\ i \in Ids /\ Intercepts[i] \in Tunnels
         /\ Decided(i) \/ Pending(Intercepts[i], i)
<1>1. i \in held /\ Intercepts[i] \in Tunnels /\ (Decided(i) \/ Pending(Intercepts[i], i))
  BY DEF InterceptIInv, EntriesSound
<1>2. i \in Ids
  <2>1. i \in 1..lastID /\ lastID \in 0..MaxHeld
    BY <1>1 DEF InterceptIInv, InterceptTyped, Ids
  <2> QED
    BY <2>1, HandlersAssumption DEF Ids
<1> QED
  BY <1>1, <1>2

(* Forward, up to the send: the edited request is there before the mutex is *)
(* given back.                                                              *)
LEMMA ForwardKeeps ==
  ASSUME InterceptIInv, NEW h \in Handlers, NEW i \in 1..lastID, Forward(h, i)
  PROVE  InterceptIInv'
<1> DEFINE row == [op |-> "forward", id |-> i, ch |-> Intercepts[i]]
<1>0. /\ UNCHANGED <<Intercept, tunnel, Intercepts, mutex, lastID, held, sent, verdicts>>
      /\ mutex = "free" /\ i \in DOMAIN Intercepts
      /\ handler' = [handler EXCEPT ![h] = row] /\ InterceptPayload' = With(InterceptPayload, i, h)
  BY DEF Forward
<1>1. row \in HandlerRow /\ row.op = "forward" /\ row.id = i /\ i \in held /\ row.ch \in Tunnels
  BY <1>0, EntryFacts DEF HandlerRow
<1> HIDE DEF row
<1>2. /\ handler' \in [Handlers -> HandlerRow] /\ handler'[h] = row
      /\ \A g \in Handlers \ {h} : handler'[g] = handler[g]
  BY <1>0, <1>1 DEF InterceptIInv, InterceptTyped
<1>3. /\ DOMAIN InterceptPayload' = DOMAIN InterceptPayload \cup {i}
      /\ \A j \in DOMAIN InterceptPayload' : InterceptPayload'[j] \in Handlers
  BY <1>0 DEF With, InterceptIInv, InterceptTyped
<1>4. InterceptTyped'
  BY <1>0, <1>2, <1>3 DEF InterceptIInv, InterceptTyped
<1>5. TunnelsSound'
  BY <1>0, <1>3 DEF InterceptIInv, TunnelsSound, TunnelSound, Decided, Forwarded
<1>6. EntriesSound' /\ MutexSound' /\ SentAsDecided' /\ ForwardedIsSent'
  BY <1>0 DEF InterceptIInv, EntriesSound, MutexSound, SentAsDecided, ForwardedIsSent, Decided, Pending
<1>7. ASSUME NEW g \in Handlers PROVE HandlerSound(g)'
  <2>1. CASE g = h
    BY <1>0, <1>1, <1>2, <1>3, <2>1 DEF HandlerSound
  <2>2. CASE g # h
    BY <1>0, <1>2, <1>3, <2>2 DEF InterceptIInv, HandlerSound, Pending
  <2> QED
    BY <2>1, <2>2
<1> QED
  BY <1>4, <1>5, <1>6, <1>7 DEF InterceptIInv

(* Drop, up to the send: the mutex is kept. *)
LEMMA DropKeeps ==
  ASSUME InterceptIInv, NEW h \in Handlers, NEW i \in 1..lastID, Drop(h, i)
  PROVE  InterceptIInv'
<1> DEFINE row == [op |-> "drop", id |-> i, ch |-> Intercepts[i]]
<1>0. /\ UNCHANGED <<Intercept, tunnel, Intercepts, InterceptPayload, lastID, held, sent, verdicts>>
      /\ i \in DOMAIN Intercepts /\ handler' = [handler EXCEPT ![h] = row] /\ mutex' = h
  BY DEF Drop
<1>1. /\ row \in HandlerRow /\ row.op = "drop" /\ row.id = i /\ i \in held /\ row.ch \in Tunnels
      /\ Decided(i) \/ Pending(row.ch, i)
  BY <1>0, EntryFacts DEF HandlerRow
<1> HIDE DEF row
<1>2. /\ handler' \in [Handlers -> HandlerRow] /\ handler'[h] = row
      /\ \A g \in Handlers \ {h} : handler'[g] = handler[g]
  BY <1>0, <1>1 DEF InterceptIInv, InterceptTyped
<1>4. InterceptTyped'
  BY <1>0, <1>2 DEF InterceptIInv, InterceptTyped
<1>5. TunnelsSound'
  BY <1>0 DEF InterceptIInv, TunnelsSound, TunnelSound, Decided, Forwarded
<1>6. EntriesSound' /\ SentAsDecided' /\ ForwardedIsSent'
  BY <1>0 DEF InterceptIInv, EntriesSound, SentAsDecided, ForwardedIsSent, Decided, Pending
<1>7. ASSUME NEW g \in Handlers PROVE HandlerSound(g)'
  <2>1. CASE g = h
    BY <1>0, <1>1, <1>2, <2>1 DEF HandlerSound
  <2>2. CASE g # h
    BY <1>0, <1>2, <2>2 DEF InterceptIInv, HandlerSound, Pending
  <2> QED
    BY <2>1, <2>2
<1>8. MutexSound'
  BY <1>0, <1>1, <1>2 DEF MutexSound, Decided, Pending
<1> QED
  BY <1>4, <1>5, <1>6, <1>7, <1>8 DEF InterceptIInv

(* Decide: the decision is received by the connection that waits for it. *)
LEMMA DecideKeeps ==
  ASSUME InterceptIInv, NEW h \in Handlers, Decide(h)
  PROVE  InterceptIInv'
<1>1. PICK t \in Tunnels : t = handler[h].ch /\ tunnel[t].at = "wait" /\ tunnel[t].id = handler[h].id
  BY DEF Decide, Receiving
<1>2. PICK i \in 1..lastID : /\ i = tunnel[t].id /\ i = handler[h].id /\ i \in held
                             /\ i \notin DOMAIN sent /\ ~Decided(i)
  BY <1>1, TunnelFacts DEF TunnelSound
<1>3. HandlerSound(h) /\ handler[h] \in HandlerRow /\ handler[h] # NoHandler
  BY DEF Decide, InterceptIInv, InterceptTyped
<1>4. PICK op \in {"forward", "drop"} : op = handler[h].op
  BY <1>3 DEF HandlerSound, HandlerRow
<1> DEFINE row == IF op = "forward" THEN [tunnel[t] EXCEPT !.at = "apply"] ELSE NoTunnel
<1>5. /\ UNCHANGED <<Intercept, Intercepts, InterceptPayload, lastID, held, sent>>
      /\ tunnel' = [tunnel EXCEPT ![t] = row] /\ handler' = [handler EXCEPT ![h] = NoHandler]
      /\ verdicts' = verdicts \cup {<<i, op>>} /\ mutex' = IF mutex = h THEN "free" ELSE mutex
  BY <1>1, <1>2, <1>4 DEF Decide
<1>6. /\ row \in TunnelRow /\ row.at \in {"read", "apply"}
      /\ row.at = "apply" => op = "forward" /\ row.id = i
      /\ row.at = "read" => op = "drop" /\ row = NoTunnel
  BY <1>2, IdleTunnel, TunnelFacts DEF TunnelRow
<1> HIDE DEF row
<1>7. /\ tunnel' \in [Tunnels -> TunnelRow] /\ tunnel'[t] = row
      /\ \A u \in Tunnels \ {t} : tunnel'[u] = tunnel[u]
  BY <1>5, <1>6, TunnelSet
<1>8. /\ handler' \in [Handlers -> HandlerRow] /\ handler'[h] = NoHandler
      /\ \A g \in Handlers \ {h} : handler'[g] = handler[g]
  <2>1. NoHandler \in HandlerRow
    BY HandlersAssumption DEF NoHandler, HandlerRow, Ids
  <2> QED
    BY <1>5, <2>1 DEF InterceptIInv, InterceptTyped
<1>9. InterceptTyped'
  BY <1>2, <1>5, <1>7, <1>8 DEF InterceptIInv, InterceptTyped
<1>10. TunnelSound(t)'
  <2>1. CASE op = "forward"
    <3>1. i \in DOMAIN InterceptPayload
      BY <1>1, <1>2, <1>3, <1>4, <2>1 DEF HandlerSound, Pending
    <3>2. Forwarded(i)'
      BY <1>2, <1>5, <2>1 DEF Forwarded, Decided
    <3> QED
      BY <1>2, <1>5, <1>6, <1>7, <2>1, <3>1, <3>2 DEF TunnelSound
  <2>2. CASE op = "drop"
    BY <1>6, <1>7, <2>2 DEF TunnelSound
  <2> QED
    BY <2>1, <2>2
<1>11. \A u \in Tunnels \ {t} : tunnel[u].id # i
  BY <1>1, <1>2, TunnelFacts
<1>12. TunnelsSound'
  <2>1. lastID \in Nat /\ i \in Nat \ {0}
    BY TunnelFacts
  <2>2. \A j \in 1..lastID \ {i} : \A o : <<j, o>> \in verdicts' <=> <<j, o>> \in verdicts
    BY <1>5
  <2>3. tunnel'[t].id = i \/ tunnel'[t] = NoTunnel
    BY <1>6, <1>7
  <2> QED
    BY <1>5, <1>7, <1>10, <1>11, <2>1, <2>2, <2>3, OtherTunnels
<1>13. Decided(i)' /\ \A j : Decided(j) => Decided(j)'
  BY <1>5 DEF Decided
<1>14. \A u \in Tunnels : \A j : /\ Pending(u, j)' => Pending(u, j)
                                 /\ Pending(u, j) => Pending(u, j)' \/ j = i
  BY <1>2, <1>6, <1>7 DEF Pending
<1>15. EntriesSound'
  BY <1>5, <1>13, <1>14, EntriesKeep
<1>16. ASSUME NEW g \in Handlers PROVE HandlerSound(g)'
  <2>1. CASE g = h
    BY <1>8, <2>1 DEF HandlerSound, NoHandler
  <2>2. CASE g # h
    <3>1. HandlerSound(g) /\ handler'[g] = handler[g]
      BY <1>8, <2>2 DEF InterceptIInv
    <3>2. PICK j : j = handler[g].id
      OBVIOUS
    <3>3. \A u \in Tunnels : Pending(u, j)' => Pending(u, j)
      BY <1>14
    <3> QED
      BY <1>5, <3>1, <3>2, <3>3 DEF HandlerSound
  <2> QED
    BY <2>1, <2>2
<1>17. MutexSound'
  <2> SUFFICES ASSUME mutex' # "free" PROVE MutexSound'
    BY DEF MutexSound
  <2>1. mutex' = mutex /\ mutex # h /\ mutex \in Handlers /\ handler[mutex].op = "drop"
    BY <1>5 DEF InterceptIInv, MutexSound
  <2>2. PICK g \in Handlers \ {h} : g = mutex
    BY <2>1
  <2>3. PICK j : j = handler[g].id
    OBVIOUS
  <2>4. PICK u \in Tunnels : u = handler[g].ch
    BY <2>1, <2>2 DEF InterceptIInv, HandlerSound
  <2>5. Decided(j) \/ Pending(u, j)
    BY <2>1, <2>2, <2>3, <2>4 DEF InterceptIInv, MutexSound
  <2>6. Decided(j)' \/ Pending(u, j)'
    BY <1>13, <1>14, <2>5
  <2> QED
    BY <1>8, <2>1, <2>2, <2>3, <2>4, <2>6 DEF MutexSound
<1>18. SentAsDecided'
  BY <1>2, <1>5 DEF InterceptIInv, SentAsDecided
<1>19. ForwardedIsSent'
  <2> SUFFICES ASSUME NEW j \in 1..lastID, <<j, "forward">> \in verdicts', j \notin DOMAIN sent
      PROVE \E u \in Tunnels : tunnel'[u].id = j /\ tunnel'[u].at \in {"apply", "send"}
    BY <1>5 DEF ForwardedIsSent
  <2>1. CASE j = i /\ op = "forward"
    BY <1>6, <1>7, <2>1
  <2>2. CASE ~(j = i /\ op = "forward")
    <3>1. <<j, "forward">> \in verdicts
      BY <1>5, <2>2
    <3>2. PICK u \in Tunnels : tunnel[u].id = j /\ tunnel[u].at \in {"apply", "send"}
      BY <3>1 DEF InterceptIInv, ForwardedIsSent
    <3>3. u # t
      BY <1>1, <3>2
    <3> QED
      BY <1>7, <3>2, <3>3
  <2> QED
    BY <2>1, <2>2
<1> QED
  BY <1>9, <1>12, <1>15, <1>16, <1>17, <1>18, <1>19 DEF InterceptIInv

(* The invariant of the held requests is inductive. *)
LEMMA InterceptStep == InterceptIInv /\ [InterceptNext]_interceptVars => InterceptIInv'
<1> SUFFICES ASSUME InterceptIInv, [InterceptNext]_interceptVars PROVE InterceptIInv'
  OBVIOUS
<1>1. ASSUME NEW on \in BOOLEAN, SetIntercept(on) PROVE InterceptIInv'
  <2>1. UNCHANGED <<tunnel, Intercepts, InterceptPayload, mutex, handler, lastID, held, sent, verdicts>>
    BY <1>1 DEF SetIntercept
  <2>2. InterceptTyped'
    BY <1>1, <2>1 DEF SetIntercept, InterceptIInv, InterceptTyped
  <2> QED
    BY <2>1, <2>2 DEF InterceptIInv, TunnelsSound, TunnelSound, EntriesSound, HandlerSound, MutexSound,
                      SentAsDecided, ForwardedIsSent, Decided, Forwarded, Pending
<1>2. ASSUME NEW t \in Tunnels, ReadRequest(t) \/ TunnelStep(t) PROVE InterceptIInv'
  BY <1>2, ReadRequestKeeps, RegisterKeeps, TimeoutKeeps, ExpireKeeps, ApplyKeeps, SendRequestKeeps
     DEF TunnelStep
<1>3. ASSUME NEW h \in Handlers, Decide(h) \/ \E i \in 1..lastID : Forward(h, i) \/ Drop(h, i)
      PROVE  InterceptIInv'
  BY <1>3, DecideKeeps, ForwardKeeps, DropKeeps
<1>4. CASE UNCHANGED interceptVars
  BY <1>4 DEF interceptVars, InterceptIInv, InterceptTyped, TunnelsSound, TunnelSound, EntriesSound,
              HandlerSound, MutexSound, SentAsDecided, ForwardedIsSent, Decided, Forwarded, Pending
<1> QED
  BY <1>1, <1>2, <1>3, <1>4 DEF InterceptNext

(* What is known of the requests makes the runs' invariant true: a drop     *)
(* that holds the mutex and that nobody receives came too late.             *)
LEMMA InterceptIInvSuffices == InterceptIInv => DecisionsKept
<1> SUFFICES ASSUME InterceptIInv PROVE DecisionsKept
  OBVIOUS
<1>1. \A t \in Tunnels : tunnel[t] \in TunnelRow /\ TunnelSound(t) /\ lastID \in Nat
  BY TunnelFacts
<1>2. InterceptTypeOK
  <2>1. ASSUME NEW t \in Tunnels
        PROVE  /\ tunnel[t].at \in {"read", "register", "wait", "expire", "apply", "send"}
               /\ tunnel[t].id \in 0..lastID /\ tunnel[t].req \in Handlers \cup {Original}
               /\ tunnel[t].at = "read" => tunnel[t] = NoTunnel
    <3>1. tunnel[t].id \in 0..lastID
      BY <1>1 DEF TunnelSound, NoTunnel
    <3> QED
      BY <1>1, <3>1 DEF TunnelRow, TunnelSound
  <2>2. DOMAIN Intercepts \subseteq 1..lastID /\ Range(Intercepts) \subseteq Tunnels
    BY DEF InterceptIInv, InterceptTyped, EntriesSound, Range
  <2>3. Range(InterceptPayload) \subseteq Handlers
    BY DEF InterceptIInv, InterceptTyped, Range
  <2>4. mutex \in Handlers \cup {"free"}
    BY DEF InterceptIInv, MutexSound
  <2>5. held \subseteq 1..lastID /\ Intercept \in BOOLEAN /\ verdicts \subseteq (1..lastID) \X {"forward", "drop"}
    BY DEF InterceptIInv, InterceptTyped
  <2> QED
    BY <2>1, <2>2, <2>3, <2>4, <2>5 DEF InterceptTypeOK
<1>3. LockedUpByLateDrop
  <2> SUFFICES ASSUME LockedUp
      PROVE  /\ handler[mutex].op = "drop"
             /\ \/ Decided(handler[mutex].id)
                \/ \E t \in Tunnels : tunnel[t].id = handler[mutex].id /\ tunnel[t].at = "expire"
    BY DEF LockedUpByLateDrop, Decided
  <2>1. /\ mutex \in Handlers /\ handler[mutex].op = "drop" /\ ~Receiving(mutex)
        /\ Decided(handler[mutex].id) \/ Pending(handler[mutex].ch, handler[mutex].id)
    BY DEF LockedUp, InterceptIInv, MutexSound
  <2>2. handler[mutex].ch \in Tunnels
    BY <2>1 DEF InterceptIInv, HandlerSound
  <2> QED
    BY <2>1, <2>2 DEF Pending, Receiving
<1> QED
  BY <1>2, <1>3 DEF InterceptIInv, DecisionsKept

(* Held requests go as the user decided, and only a late drop locks the     *)
(* listener up, for any number of connections, handlers and requests.       *)
THEOREM AlwaysDecisionsKept == InterceptSpec => []DecisionsKept
BY InterceptInitIInv, InterceptStep, InterceptIInvSuffices, PTL DEF InterceptSpec

-----------------------------------------------------------------------------
(* Event streams and pages.                                                 *)

StreamRow == [open : BOOLEAN, ch : Seq(Nat), last : Nat]

EventsTyped ==
    /\ stream \in [Streams -> StreamRow]
    /\ published \in 0..MaxEvents /\ Results \in 0..MaxResults
    /\ \A s \in Streams : Len(stream[s].ch) <= StreamSize

(* An entry of Connections is an open stream of that address. *)
EntryOpen(a) == Connections[a] \in Streams /\ stream[Connections[a]].open /\ RemoteAddr[Connections[a]] = a

(* A stream that shares its address with none is the one in its entry. *)
AloneSound(s) ==
    stream[s].open /\ s \notin shared =>
        /\ RemoteAddr[s] \in DOMAIN Connections /\ Connections[RemoteAddr[s]] = s
        /\ SameAddr(s) = {}

(* ... and has all events, read or in its channel, if that was never full. *)
NoGap(s) ==
    stream[s].open /\ s \notin shared /\ s \notin slow =>
        /\ Len(stream[s].ch) = published - stream[s].last
        /\ \A k \in 1..Len(stream[s].ch) : stream[s].ch[k] = stream[s].last + k

EventsIInv ==
    /\ EventsTyped
    /\ \A a \in DOMAIN Connections : EntryOpen(a)
    /\ \A s \in Streams : AloneSound(s) /\ NoGap(s)

(* Pages of one length: the result r is on the page that the whole part of  *)
(* (r - 1) / limit counts, and on no other.                                 *)
OnlyOn(k, r, limit, total) == \A j \in Nat : r \in jobsResults(j * limit, limit, total) <=> j = k

(* Every result is on exactly one page: that of the quotient of what stands *)
(* before it by the length of a page.                                       *)
LEMMA OnePage ==
  ASSUME NEW limit \in Nat \ {0}, NEW total \in Nat, NEW r \in 1..total
  PROVE  \E k \in 0..(r - 1) : OnlyOn(k, r, limit, total)
<1> DEFINE k == (r - 1) \div limit
<1>1. k \in 0..(r - 1) /\ k * limit <= r - 1 /\ r - 1 < k * limit + limit
  OBVIOUS
<1> HIDE DEF k
<1> SUFFICES ASSUME NEW j \in Nat PROVE r \in jobsResults(j * limit, limit, total) <=> j = k
  BY <1>1 DEF OnlyOn
<1>2. PICK m \in Nat : m = j * limit
  OBVIOUS
<1>3. PICK n \in Nat : n = k * limit
  BY <1>1
<1>4. CASE j = k
  BY <1>1, <1>2, <1>3, <1>4 DEF jobsResults, Lesser
<1>5. CASE j < k
  <2>1. m + limit <= n
    BY <1>1, <1>2, <1>3, <1>5
  <2> QED
    BY <1>1, <1>2, <1>3, <1>5, <2>1 DEF jobsResults, Lesser
<1>6. CASE j > k
  <2>1. n + limit <= m
    BY <1>1, <1>2, <1>3, <1>6
  <2> QED
    BY <1>1, <1>2, <1>3, <1>6, <2>1 DEF jobsResults, Lesser
<1> QED
  BY <1>1, <1>4, <1>5, <1>6

(* The pages of any number of results tile them. *)
LEMMA PagesAlwaysTile == ASSUME Results \in 0..MaxResults PROVE PagesTile
<1>1. Results \in Nat /\ MaxResults \in Nat /\ DefaultLimit \in Nat \ {0}
  BY EventsAssumption
<1>2. ASSUME NEW limit \in 1..(MaxResults + 1), NEW r \in 1..Results
      PROVE  \E k \in 0..MaxResults :
                \A j \in 0..MaxResults : r \in jobsResults(j * limit, limit, Results) <=> j = k
  <2>1. limit \in Nat \ {0} /\ 0..MaxResults \subseteq Nat /\ 0..(r - 1) \subseteq 0..MaxResults
    BY <1>1
  <2>2. PICK k \in 0..(r - 1) : OnlyOn(k, r, limit, Results)
    BY <1>1, <2>1, OnePage
  <2> QED
    BY <2>1, <2>2, Zenon DEF OnlyOn
<1>3. ASSUME NEW limit \in 1..(MaxResults + 1), NEW k \in 0..MaxResults
      PROVE  jobsResults(k * limit, limit, Results) \subseteq 1..Results
  <2>1. PICK m \in Nat : m = k * limit
    BY <1>1
  <2> QED
    BY <1>1, <2>1 DEF jobsResults, Lesser
<1>4. jobsResultsPlain(Results) = jobsResults(0, DefaultLimit, Results)
  BY <1>1 DEF jobsResultsPlain, jobsResults, Lesser
<1> QED
  BY <1>2, <1>3, <1>4 DEF PagesTile

(* Before the first event nobody has missed any.                            *)
LEMMA EventsInitIInv == EventsInit => EventsIInv
<1> SUFFICES ASSUME EventsInit PROVE EventsIInv
  OBVIOUS
<1>1. Closed \in StreamRow /\ Closed.open = FALSE /\ Closed.ch = <<>>
  BY DEF Closed, StreamRow
<1>2. stream \in [Streams -> StreamRow] /\ \A s \in Streams : stream[s] = Closed
  BY <1>1 DEF EventsInit
<1>3. EventsTyped
  BY <1>1, <1>2, EventsAssumption DEF EventsInit, EventsTyped
<1>4. \A a \in DOMAIN Connections : EntryOpen(a)
  BY DEF EventsInit
<1>5. \A s \in Streams : AloneSound(s) /\ NoGap(s)
  BY <1>1, <1>2 DEF AloneSound, NoGap
<1> QED
  BY <1>3, <1>4, <1>5 DEF EventsIInv

(* The new row of one stream. *)
LEMMA StreamSet ==
  ASSUME EventsIInv, NEW s \in Streams, NEW row \in StreamRow, Len(row.ch) <= StreamSize,
         stream' = [stream EXCEPT ![s] = row], UNCHANGED <<published, Results>>
  PROVE  /\ EventsTyped' /\ stream'[s] = row
         /\ \A t \in Streams \ {s} : stream'[t] = stream[t]
BY DEF EventsIInv, EventsTyped

(* OpenStream: the entry of the address is the new stream; those that had   *)
(* the address are shared from now on.                                      *)
LEMMA OpenStreamKeeps ==
  ASSUME EventsIInv, NEW s \in Streams, OpenStream(s)
  PROVE  EventsIInv'
<1> DEFINE row == [open |-> TRUE, ch |-> <<>>, last |-> published]
<1>1. /\ ~stream[s].open /\ stream' = [stream EXCEPT ![s] = row] /\ UNCHANGED <<published, Results>>
      /\ DOMAIN Connections' = DOMAIN Connections \cup {RemoteAddr[s]}
      /\ Connections'[RemoteAddr[s]] = s
      /\ \A a \in DOMAIN Connections \ {RemoteAddr[s]} : Connections'[a] = Connections[a]
      /\ slow' = slow \ {s}
      /\ shared' = IF SameAddr(s) = {} THEN shared \ {s} ELSE shared \cup SameAddr(s) \cup {s}
  BY DEF OpenStream
<1>2. row \in StreamRow /\ row.open /\ row.ch = <<>> /\ row.last = published /\ published \in Nat
  BY EventsAssumption DEF StreamRow, EventsIInv, EventsTyped
<1> HIDE DEF row
<1>3. /\ EventsTyped' /\ stream'[s] = row
      /\ \A t \in Streams \ {s} : stream'[t] = stream[t]
  <2>1. Len(row.ch) <= StreamSize
    BY <1>2, EventsAssumption
  <2> QED
    BY <1>1, <1>2, <2>1, StreamSet
<1>4. ASSUME NEW a \in DOMAIN Connections' PROVE EntryOpen(a)'
  <2>1. CASE a = RemoteAddr[s]
    BY <1>1, <1>2, <1>3, <2>1 DEF EntryOpen
  <2>2. CASE a # RemoteAddr[s]
    <3>1. EntryOpen(a)
      BY <1>1, <2>2 DEF EventsIInv
    <3> QED
      BY <1>1, <1>3, <2>2, <3>1 DEF EntryOpen
  <2> QED
    BY <2>1, <2>2
<1>5. AloneSound(s)'
  <2> SUFFICES ASSUME s \notin shared' PROVE SameAddr(s)' = {}
    BY <1>1, <1>3 DEF AloneSound
  <2>1. SameAddr(s) = {}
    BY <1>1
  <2> QED
    BY <1>3, <2>1 DEF SameAddr
<1>6. NoGap(s)'
  BY <1>1, <1>2, <1>3 DEF NoGap
<1>7. ASSUME NEW t \in Streams \ {s}, stream[t].open, t \notin shared'
      PROVE  t \notin shared /\ RemoteAddr[t] # RemoteAddr[s]
  <2>1. t \notin SameAddr(s)
    BY <1>1, <1>7
  <2> QED
    BY <1>1, <1>7, <2>1 DEF SameAddr
<1>8. ASSUME NEW t \in Streams \ {s} PROVE AloneSound(t)'
  <2> SUFFICES ASSUME stream[t].open, t \notin shared' PROVE AloneSound(t)'
    BY <1>3 DEF AloneSound
  <2>1. /\ RemoteAddr[t] \in DOMAIN Connections /\ Connections[RemoteAddr[t]] = t
        /\ SameAddr(t) = {} /\ RemoteAddr[t] # RemoteAddr[s]
    BY <1>7 DEF EventsIInv, AloneSound
  <2>2. SameAddr(t)' = {}
    BY <1>3, <2>1 DEF SameAddr
  <2> QED
    BY <1>1, <2>1, <2>2 DEF AloneSound
<1>9. ASSUME NEW t \in Streams \ {s} PROVE NoGap(t)'
  <2>1. NoGap(t) /\ stream'[t] = stream[t]
    BY <1>3 DEF EventsIInv
  <2> QED
    BY <1>1, <1>7, <2>1 DEF NoGap
<1> QED
  BY <1>3, <1>4, <1>5, <1>6, <1>8, <1>9 DEF EventsIInv

(* ReadStream: the first event of the channel becomes the last that was read. *)
LEMMA ReadStreamKeeps ==
  ASSUME EventsIInv, NEW s \in Streams, ReadStream(s)
  PROVE  EventsIInv'
<1> DEFINE moved == [stream[s] EXCEPT !.ch = Tail(stream[s].ch)]
           row == [moved EXCEPT !.last = Head(stream[s].ch)]
<1>1. PICK q \in Seq(Nat) : q = stream[s].ch /\ q # <<>> /\ Len(q) <= StreamSize
  BY DEF ReadStream, EventsIInv, EventsTyped, StreamRow
<1>2. /\ stream[s].open /\ stream' = [stream EXCEPT ![s] = row]
      /\ UNCHANGED <<Connections, published, slow, shared, Results>> /\ stream[s] \in StreamRow
  BY DEF ReadStream, EventsIInv, EventsTyped
<1>3. Tail(q) \in Seq(Nat) /\ Len(Tail(q)) = Len(q) - 1 /\ Head(q) = q[1] /\ Head(q) \in Nat
  BY <1>1
<1>4. moved \in StreamRow /\ moved.open = stream[s].open /\ moved.ch = Tail(q)
  BY <1>1, <1>2, <1>3 DEF StreamRow
<1>5. row = [moved EXCEPT !.last = Head(q)]
  BY <1>1
<1> HIDE DEF moved
<1>6. row \in StreamRow /\ row.open = stream[s].open /\ row.ch = Tail(q) /\ row.last = Head(q)
  BY <1>3, <1>4, <1>5 DEF StreamRow
<1> HIDE DEF row
<1>7. /\ EventsTyped' /\ stream'[s] = row
      /\ \A t \in Streams \ {s} : stream'[t] = stream[t]
  <2>1. Len(row.ch) <= StreamSize
    BY <1>1, <1>3, <1>6, EventsAssumption
  <2> QED
    BY <1>2, <1>6, <2>1, StreamSet
<1>8. \A t \in Streams : stream'[t].open = stream[t].open
  BY <1>6, <1>7
<1>9. \A a \in DOMAIN Connections' : EntryOpen(a)'
  BY <1>2, <1>8 DEF EventsIInv, EntryOpen
<1>10. ASSUME NEW t \in Streams PROVE AloneSound(t)'
  <2>1. AloneSound(t) /\ SameAddr(t)' = SameAddr(t)
    BY <1>8 DEF EventsIInv, SameAddr
  <2> QED
    BY <1>2, <1>8, <2>1 DEF AloneSound
<1>11. ASSUME NEW t \in Streams PROVE NoGap(t)'
  <2>1. NoGap(t)
    BY DEF EventsIInv
  <2>2. CASE t = s
    <3> SUFFICES ASSUME s \notin shared, s \notin slow PROVE NoGap(s)'
      BY <1>2, <2>2 DEF NoGap
    <3>1. PICK l \in Nat, n \in Nat : l = stream[s].last /\ n = Len(q)
      BY <1>1, <1>2 DEF StreamRow
    <3>2. n = published - l /\ \A k \in 1..n : q[k] = l + k
      BY <1>1, <1>2, <2>1, <2>2, <3>1 DEF NoGap
    <3>3. published \in Nat /\ n # 0 /\ Len(Tail(q)) = n - 1
      BY <1>1, <1>3, <3>1, EventsAssumption DEF EventsIInv, EventsTyped
    <3>4. PICK d \in Nat : d = Head(q)
      BY <1>3
    <3>5. d = l + 1
      BY <1>3, <3>2, <3>3, <3>4
    <3>6. ASSUME NEW k \in 1..(n - 1) PROVE Tail(q)[k] = d + k
      <4>1. Tail(q)[k] = q[k + 1]
        BY <1>1, <3>1
      <4>2. k + 1 \in 1..n
        BY <3>1
      <4>3. q[k + 1] = l + (k + 1)
        BY <3>2, <4>2
      <4>4. l + (k + 1) = d + k
        BY <3>5
      <4> QED
        BY <4>1, <4>3, <4>4, Zenon
    <3>7. n - 1 = published - d
      BY <3>1, <3>2, <3>3, <3>5
    <3>8. stream'[s].ch = Tail(q) /\ stream'[s].last = d /\ published' = published
      BY <1>2, <1>6, <1>7, <3>4
    <3> QED
      BY <3>3, <3>6, <3>7, <3>8 DEF NoGap
  <2>3. CASE t # s
    BY <1>2, <1>7, <2>1, <2>3 DEF NoGap
  <2> QED
    BY <2>2, <2>3
<1> QED
  BY <1>7, <1>9, <1>10, <1>11 DEF EventsIInv

(* CloseStream: no stream that shares its address with none loses its entry. *)
LEMMA CloseStreamKeeps ==
  ASSUME EventsIInv, NEW s \in Streams, CloseStream(s)
  PROVE  EventsIInv'
<1>1. /\ stream[s].open /\ stream' = [stream EXCEPT ![s] = Closed]
      /\ UNCHANGED <<published, slow, shared, Results>>
      /\ DOMAIN Connections' = DOMAIN Connections \ {RemoteAddr[s]}
      /\ \A a \in DOMAIN Connections' : Connections'[a] = Connections[a]
  BY DEF CloseStream
<1>2. Closed \in StreamRow /\ Closed.open = FALSE /\ Closed.ch = <<>>
  BY DEF Closed, StreamRow
<1>3. /\ EventsTyped' /\ stream'[s] = Closed
      /\ \A t \in Streams \ {s} : stream'[t] = stream[t]
  <2>1. Len(Closed.ch) <= StreamSize
    BY <1>2, EventsAssumption
  <2> QED
    BY <1>1, <1>2, <2>1, StreamSet
<1>4. ASSUME NEW a \in DOMAIN Connections' PROVE EntryOpen(a)'
  <2>1. EntryOpen(a) /\ a # RemoteAddr[s]
    BY <1>1 DEF EventsIInv
  <2> QED
    BY <1>1, <1>3, <2>1 DEF EntryOpen
<1>5. ASSUME NEW t \in Streams PROVE AloneSound(t)'
  <2> SUFFICES ASSUME t # s, stream[t].open, t \notin shared PROVE AloneSound(t)'
    BY <1>1, <1>2, <1>3 DEF AloneSound
  <2>1. /\ RemoteAddr[t] \in DOMAIN Connections /\ Connections[RemoteAddr[t]] = t /\ SameAddr(t) = {}
    BY DEF EventsIInv, AloneSound
  <2>2. RemoteAddr[t] # RemoteAddr[s]
    BY <1>1, <2>1 DEF SameAddr
  <2>3. SameAddr(t)' = {}
    BY <1>2, <1>3, <2>1 DEF SameAddr
  <2> QED
    BY <1>1, <2>1, <2>2, <2>3 DEF AloneSound
<1>6. \A t \in Streams : NoGap(t)'
  BY <1>1, <1>2, <1>3 DEF EventsIInv, NoGap
<1> QED
  BY <1>3, <1>4, <1>5, <1>6 DEF EventsIInv

(* Broadcast: a stream whose channel is not full gets the event, unless it  *)
(* has lost its entry.                                                      *)
LEMMA BroadcastKeeps ==
  ASSUME EventsIInv, Broadcast
  PROVE  EventsIInv'
<1>1. PICK p \in Nat : p = published
  BY EventsAssumption DEF EventsIInv, EventsTyped
<1>2. /\ published' = p + 1 /\ p + 1 \in 0..MaxEvents /\ slow' = slow \cup Full
      /\ UNCHANGED <<Connections, shared, Results>>
      /\ stream' = [s \in Streams |->
            IF s \in Registered \ Full THEN [stream[s] EXCEPT !.ch = Append(@, p + 1)] ELSE stream[s]]
  BY <1>1, EventsAssumption DEF Broadcast, EventsIInv, EventsTyped
<1>3. ASSUME NEW s \in Streams
      PROVE  /\ stream'[s] \in StreamRow /\ stream'[s].open = stream[s].open /\ stream'[s].last = stream[s].last
             /\ stream'[s].ch = IF s \in Registered \ Full THEN Append(stream[s].ch, p + 1) ELSE stream[s].ch
             /\ Len(stream'[s].ch) <= StreamSize
  <2>1. stream[s] \in StreamRow /\ Len(stream[s].ch) <= StreamSize
    BY DEF EventsIInv, EventsTyped
  <2>2. PICK q \in Seq(Nat) : q = stream[s].ch
    BY <2>1 DEF StreamRow
  <2>3. CASE s \in Registered \ Full
    <3> DEFINE row == [stream[s] EXCEPT !.ch = Append(q, p + 1)]
    <3>1. stream'[s] = row
      BY <1>2, <2>2, <2>3
    <3>2. Append(q, p + 1) \in Seq(Nat) /\ Len(Append(q, p + 1)) = Len(q) + 1
      BY AppendAt
    <3>3. /\ row \in StreamRow /\ row.open = stream[s].open /\ row.last = stream[s].last
          /\ row.ch = Append(q, p + 1)
      BY <2>1, <3>2 DEF StreamRow
    <3> HIDE DEF row
    <3>4. Len(q) # StreamSize
      BY <2>2, <2>3 DEF Full
    <3>5. Len(q) + 1 <= StreamSize
      BY <2>1, <2>2, <3>4, EventsAssumption
    <3> QED
      BY <2>2, <2>3, <3>1, <3>2, <3>3, <3>5
  <2>4. CASE ~(s \in Registered \ Full)
    BY <1>2, <2>1, <2>4
  <2> QED
    BY <2>3, <2>4
<1>4. EventsTyped'
  <2>1. stream' \in [Streams -> StreamRow]
    <3>1. stream' = [s \in Streams |-> stream'[s]]
      BY <1>2
    <3> QED
      BY <1>3, <3>1
  <2> QED
    BY <1>2, <1>3, <2>1 DEF EventsIInv, EventsTyped
<1>5. \A a \in DOMAIN Connections' : EntryOpen(a)'
  BY <1>2, <1>3 DEF EventsIInv, EntryOpen
<1>6. ASSUME NEW s \in Streams PROVE AloneSound(s)'
  <2>1. AloneSound(s) /\ SameAddr(s)' = SameAddr(s)
    BY <1>3 DEF EventsIInv, SameAddr
  <2> QED
    BY <1>2, <1>3, <2>1 DEF AloneSound
<1>7. ASSUME NEW s \in Streams PROVE NoGap(s)'
  <2> SUFFICES ASSUME stream[s].open, s \notin shared, s \notin slow, s \notin Full PROVE NoGap(s)'
    BY <1>2, <1>3 DEF NoGap
  <2>1. s \in Registered
    BY DEF EventsIInv, AloneSound, Registered
  <2>2. PICK q \in Seq(Nat), l \in Nat : q = stream[s].ch /\ l = stream[s].last
    BY DEF EventsIInv, EventsTyped, StreamRow
  <2>3. PICK n \in Nat : n = Len(q)
    OBVIOUS
  <2>4. n = p - l /\ \A k \in 1..n : q[k] = l + k
    BY <1>1, <2>2, <2>3 DEF EventsIInv, NoGap
  <2>5. stream'[s].ch = Append(q, p + 1) /\ stream'[s].last = l
    BY <1>3, <2>1, <2>2
  <2>6. Len(Append(q, p + 1)) = n + 1 /\ n + 1 = (p + 1) - l /\ l + (n + 1) = p + 1
    <3>1. Len(Append(q, p + 1)) = n + 1
      BY <1>1, <2>2, <2>3, AppendAt
    <3>2. n + 1 = (p + 1) - l /\ l + (n + 1) = p + 1
      BY SMTT(30), <1>1, <2>2, <2>3, <2>4
    <3> QED
      BY <3>1, <3>2
  <2>7. ASSUME NEW k \in 1..(n + 1) PROVE Append(q, p + 1)[k] = l + k
    <3>1. CASE k \in 1..n
      <4>1. Append(q, p + 1)[k] = q[k]
        BY <1>1, <2>2, <2>3, <3>1, AppendAt
      <4> QED
        BY <2>4, <3>1, <4>1
    <3>2. CASE k = n + 1
      <4>1. Append(q, p + 1)[k] = p + 1
        BY <1>1, <2>2, <2>3, <3>2, AppendAt
      <4>2. p + 1 = l + k
        BY <2>6, <3>2
      <4> QED
        BY <4>1, <4>2
    <3> QED
      BY <2>3, <3>1, <3>2
  <2> QED
    BY ZenonT(40), <1>2, <2>5, <2>6, <2>7 DEF NoGap
<1> QED
  BY <1>4, <1>5, <1>6, <1>7 DEF EventsIInv

(* The invariant of the streams is inductive. *)
LEMMA EventsStep == EventsIInv /\ [EventsNext]_eventVars => EventsIInv'
<1> SUFFICES ASSUME EventsIInv, [EventsNext]_eventVars PROVE EventsIInv'
  OBVIOUS
<1>1. CASE AppendResult
  <2>1. UNCHANGED <<Connections, stream, published, slow, shared>> /\ Results' \in 0..MaxResults
    BY <1>1, EventsAssumption DEF AppendResult, EventsIInv, EventsTyped
  <2> QED
    BY <2>1 DEF EventsIInv, EventsTyped, EntryOpen, AloneSound, SameAddr, NoGap
<1>2. CASE UNCHANGED eventVars
  BY <1>2 DEF eventVars, EventsIInv, EventsTyped, EntryOpen, AloneSound, SameAddr, NoGap
<1> QED
  BY <1>1, <1>2, OpenStreamKeeps, ReadStreamKeeps, CloseStreamKeeps, BroadcastKeeps DEF EventsNext

(* Streams have no silent gap and pages tile the results, for any number of *)
(* streams, whatever addresses they share, and for any number of results.   *)
THEOREM AlwaysStreamsAndPages == EventsSpec => []StreamsAndPages
<1>1. EventsIInv => StreamsAndPages
  <2> SUFFICES ASSUME EventsIInv PROVE StreamsAndPages
    OBVIOUS
  <2>1. EventsTypeOK
    BY DEF EventsIInv, EventsTyped, EntryOpen, EventsTypeOK
  <2>2. NoSilentGap
    BY DEF EventsIInv, NoGap, NoSilentGap
  <2>3. PagesTile
    BY PagesAlwaysTile DEF EventsIInv, EventsTyped
  <2> QED
    BY <2>1, <2>2, <2>3 DEF StreamsAndPages
<1> QED
  BY <1>1, EventsInitIInv, EventsStep, PTL DEF EventsSpec

-----------------------------------------------------------------------------
(* Flows.                                                                   *)

Piece == [id : Nat, n : Nat, resp : BOOLEAN]
ConnRow == [at : {"read", "insert", "publish", "forward", "respond"}, id : Nat, n : Nat]

FlowsTyped ==
    /\ served \in 0..MaxReqs /\ FlowCounter \in 0..served
    /\ starts \in Nat \ {0} /\ served + starts <= MaxReqs + 1
    /\ conn \in [Conns -> ConnRow]
    /\ OutFlow \in Seq(Piece) /\ Len(OutFlow) <= OutSize
    /\ \A i \in DOMAIN store : store[i] \in [n : Nat, resp : BOOLEAN]
    /\ restore \in [at : {"load", "compare", "set", "attach", "done", "failed"}, max : 0..served]
    /\ \A i \in DOMAIN PersistedFlows : PersistedFlows[i] \in 1..served

(* The map of the listener: a flow before the cursor came late.             *)
MapSound ==
    /\ DOMAIN Flows \subseteq 1..served /\ \A i \in DOMAIN Flows : Flows[i] \in 1..served
    /\ IsFiniteSet(DOMAIN Flows) /\ Cardinality(DOMAIN Flows) <= MaxFlows
    /\ nextEvictID \in Nat
    /\ \A i \in DOMAIN Flows : i < nextEvictID => i \in late

(* Somewhere the id i is for the request n: at its connection, on its way   *)
(* to the database, or there.                                               *)
Holds(i, n) ==
    \/ \E c \in Conns : conn[c].id = i /\ conn[c].n = n /\ n # 0
    \/ \E k \in 1..Len(OutFlow) : OutFlow[k].id = i /\ OutFlow[k].n = n
    \/ i \in DOMAIN store /\ store[i].n = n

PiecesSound == \A i, n : Holds(i, n) => i \in 1..served /\ n \in 1..served

(* Past the restoring of the counter. *)
Counting == restore.at \in {"attach", "done"}

(* An id is for one request only, but for those that came too early; their  *)
(* like is not in the channel or at a connection before the counter is set. *)
UniqueIds == \A i, m, n : Holds(i, m) /\ Holds(i, n) /\ m \notin early /\ n \notin early => m = n
Counted == Counting => \A i, n : Holds(i, n) /\ n \notin early => i <= FlowCounter
OnlyEarly ==
    ~Counting =>
        /\ \A c \in Conns : conn[c].n = 0 \/ conn[c].n \in early
        /\ \A k \in 1..Len(OutFlow) : OutFlow[k].n \in early
LoadedMax ==
    /\ restore.at \in {"compare", "set", "attach"} => \A i \in DOMAIN store : i <= restore.max
    /\ restore.at = "attach" => restore.max <= FlowCounter

(* The version of a flow with its response comes after the one without.     *)
Known(n) ==
    \/ \E i \in DOMAIN store : store[i].n = n
    \/ \E k \in 1..Len(OutFlow) : OutFlow[k].n = n
QueueInOrder ==
    \A k, l \in 1..Len(OutFlow) : k < l /\ OutFlow[k].n = OutFlow[l].n => OutFlow[l].resp
StoreInOrder ==
    \A i \in DOMAIN store : \A k \in 1..Len(OutFlow) : store[i].n = OutFlow[k].n => OutFlow[k].resp
ConnSound(c) ==
    /\ conn[c].n = 0 => conn[c].id = 0
    /\ conn[c].at # "read" => conn[c].n # 0
    /\ conn[c].at \in {"insert", "publish"} =>
         ~Known(conn[c].n) /\ \A d \in Conns : conn[d].n = conn[c].n => d = c

FlowsIInv ==
    /\ FlowsTyped
    /\ MapSound
    /\ PiecesSound /\ UniqueIds /\ Counted /\ OnlyEarly /\ LoadedMax
    /\ QueueInOrder /\ StoreInOrder
    /\ \A c \in Conns : ConnSound(c)

(* A proxy that starts for the first time, without stored flows.            *)
LEMMA FlowsInitIInv == FlowsInit => FlowsIInv
<1> SUFFICES ASSUME FlowsInit PROVE FlowsIInv
  OBVIOUS
<1>1. NoRequest \in ConnRow /\ NoRequest.at = "read" /\ NoRequest.n = 0 /\ NoRequest.id = 0
  BY DEF NoRequest, ConnRow
<1>2. DOMAIN NoFlows = {}
  BY DEF NoFlows
<1>3. /\ OutFlow \in Seq(Piece) /\ Len(OutFlow) = 0 /\ DOMAIN store = {}
      /\ \A c \in Conns : conn[c] = NoRequest
  BY <1>2 DEF FlowsInit
<1>4. FlowsTyped
  <2>1. conn \in [Conns -> ConnRow] /\ DOMAIN PersistedFlows = {}
    BY <1>1, <1>2 DEF FlowsInit
  <2>2. /\ served \in 0..MaxReqs /\ FlowCounter \in 0..served
        /\ starts \in Nat \ {0} /\ served + starts <= MaxReqs + 1
    BY FlowsAssumption DEF FlowsInit
  <2>3. restore \in [at : {"load", "compare", "set", "attach", "done", "failed"}, max : 0..served]
    BY DEF FlowsInit
  <2>4. Len(OutFlow) <= OutSize
    BY <1>3, FlowsAssumption
  <2> QED
    BY <1>3, <2>1, <2>2, <2>3, <2>4 DEF FlowsTyped
<1>5. MapSound
  BY <1>2, FS_EmptySet, FlowsAssumption DEF FlowsInit, MapSound
<1>6. \A i, n : ~Holds(i, n) /\ ~Known(n)
  BY <1>1, <1>3 DEF Holds, Known
<1>7. OnlyEarly /\ LoadedMax /\ ~Counting
  BY <1>1, <1>3 DEF FlowsInit, OnlyEarly, LoadedMax, Counting
<1>8. QueueInOrder /\ StoreInOrder /\ \A c \in Conns : ConnSound(c)
  BY <1>1, <1>3 DEF QueueInOrder, StoreInOrder, ConnSound
<1> QED
  BY <1>4, <1>5, <1>6, <1>7, <1>8 DEF FlowsIInv, PiecesSound, UniqueIds, Counted

(* A flow that leaves a map that is too large: no flow that stays is older, *)
(* but for those before the cursor.                                         *)
LEMMA Evicts ==
  ASSUME nextEvictID \in Nat, FlowCounter \in Nat, NEW f, DOMAIN f \subseteq Nat, IsFiniteSet(DOMAIN f)
  PROVE  \/ /\ Cardinality(DOMAIN f) <= MaxFlows
            /\ evictOldFlows(f).gone = {} /\ evictOldFlows(f).next = nextEvictID
         \/ /\ Cardinality(DOMAIN f) > MaxFlows
            /\ \E i \in DOMAIN f :
                  /\ evictOldFlows(f).gone = {i} /\ evictOldFlows(f).next = i + 1
                  /\ \A j \in DOMAIN f : j < i => j < nextEvictID
<1>1. Cardinality(DOMAIN f) \in Nat
  BY FS_CardinalityType
<1>2. CASE Cardinality(DOMAIN f) <= MaxFlows
  BY <1>2 DEF evictOldFlows
<1>3. CASE ~(Cardinality(DOMAIN f) <= MaxFlows)
  <2> DEFINE ahead == Ahead(f)
             S == IF ahead # {} THEN ahead ELSE DOMAIN f
  <2>1. DOMAIN f # {} /\ Cardinality(DOMAIN f) > MaxFlows
    BY <1>1, <1>3, FS_EmptySet, FlowsAssumption
  <2>2. S \in SUBSET Nat /\ S # {} /\ S \subseteq DOMAIN f
    BY <2>1 DEF Ahead
  <2>3. Least(S) \in S /\ \A j \in S : Least(S) <= j
    BY <2>2, LeastIs
  <2>4. evictOldFlows(f).gone = {Least(S)} /\ evictOldFlows(f).next = Least(S) + 1
    BY <1>3 DEF evictOldFlows
  <2>5. ASSUME NEW j \in DOMAIN f, j < Least(S) PROVE j < nextEvictID
    <3>1. j \notin S /\ j \in Nat /\ Least(S) \in Nat
      BY <2>2, <2>3, <2>5
    <3>2. Least(S) \in ahead /\ j \notin ahead
      BY <2>3, <2>5, <3>1
    <3>3. CASE Least(S) = nextEvictID
      BY <2>5, <3>3
    <3>4. CASE Least(S) \in nextEvictID..FlowCounter
      <4>1. j \notin nextEvictID..FlowCounter
        BY <3>2 DEF Ahead
      <4> QED
        BY <2>5, <3>1, <3>4, <4>1
    <3> QED
      BY <3>2, <3>3, <3>4 DEF Ahead
  <2>6. Least(S) \in DOMAIN f
    BY <2>2, <2>3
  <2> HIDE DEF S
  <2> QED
    BY <2>1, <2>4, <2>5, <2>6
<1> QED
  BY <1>2, <1>3

(* InsertFlow: the map stays bounded; what is before the cursor came late,  *)
(* and so did what is older than the flow that goes.                        *)
LEMMA InsertedMap ==
  ASSUME FlowsIInv, NEW c \in Conns, InsertFlow(c)
  PROVE  /\ MapSound'
         /\ \A i \in DOMAIN Flows \ DOMAIN Flows' : \A j \in DOMAIN Flows' : j < i => j \in late'
<1> DEFINE f == Put(Flows, conn[c].id, conn[c].n)
           e == evictOldFlows(f)
<1>1. PICK i : i = conn[c].id
  OBVIOUS
<1>2. PICK n : n = conn[c].n
  OBVIOUS
<1>3. i \in 1..served /\ n \in 1..served /\ served \in Nat
  <2>1. Holds(i, n)
    BY <1>1, <1>2 DEF InsertFlow, FlowsIInv, ConnSound, Holds
  <2> QED
    BY <2>1, FlowsAssumption DEF FlowsIInv, PiecesSound, FlowsTyped
<1>4. /\ DOMAIN Flows' = DOMAIN f \ e.gone /\ nextEvictID' = e.next
      /\ \A j \in DOMAIN Flows' : Flows'[j] = f[j]
      /\ late' = (IF i < nextEvictID THEN late \cup {i} ELSE late) \cap DOMAIN Flows'
      /\ served' = served
  BY <1>1 DEF InsertFlow
<1>5. DOMAIN f = DOMAIN Flows \cup {i} /\ \A j \in DOMAIN f : f[j] = IF j = i THEN n ELSE Flows[j]
  BY <1>1, <1>2 DEF Put
<1>6. /\ IsFiniteSet(DOMAIN f) /\ Cardinality(DOMAIN f) \in Nat /\ Cardinality(DOMAIN f) <= MaxFlows + 1
      /\ DOMAIN f \subseteq 1..served /\ \A j \in DOMAIN f : f[j] \in 1..served
  <2>1. IsFiniteSet(DOMAIN Flows) /\ Cardinality(DOMAIN Flows) <= MaxFlows
    BY DEF FlowsIInv, MapSound
  <2>2. Cardinality(DOMAIN Flows) \in Nat
    BY <2>1, FS_CardinalityType
  <2>3. /\ IsFiniteSet(DOMAIN Flows \cup {i})
        /\ Cardinality(DOMAIN Flows \cup {i}) =
              IF i \in DOMAIN Flows THEN Cardinality(DOMAIN Flows) ELSE Cardinality(DOMAIN Flows) + 1
    BY <2>1, FS_AddElement
  <2>4. \A j \in DOMAIN f : j \in 1..served /\ f[j] \in 1..served
    BY <1>3, <1>5 DEF FlowsIInv, MapSound
  <2>5. IsFiniteSet(DOMAIN f) /\ Cardinality(DOMAIN f) = Cardinality(DOMAIN Flows \cup {i})
    BY <1>5, <2>3
  <2>6. Cardinality(DOMAIN f) \in Nat /\ Cardinality(DOMAIN f) <= MaxFlows + 1
    <3> HIDE DEF f
    <3>1. MaxFlows \in Nat
      BY FlowsAssumption
    <3> QED
      BY <2>1, <2>2, <2>3, <2>5, <3>1
  <2> QED
    BY <2>4, <2>5, <2>6
<1>7. nextEvictID \in Nat /\ \A j \in DOMAIN Flows : j < nextEvictID => j \in late
  BY DEF FlowsIInv, MapSound
<1> HIDE DEF f
<1>8. ASSUME NEW j \in DOMAIN Flows', j < nextEvictID PROVE j \in late'
  BY <1>4, <1>5, <1>7, <1>8
<1>9. CASE Cardinality(DOMAIN f) <= MaxFlows /\ e.gone = {} /\ e.next = nextEvictID
  <2>1. DOMAIN Flows' = DOMAIN f /\ DOMAIN Flows \subseteq DOMAIN Flows'
    BY <1>4, <1>5, <1>9
  <2> QED
    BY <1>3, <1>4, <1>6, <1>7, <1>8, <1>9, <2>1 DEF MapSound
<1>10. ASSUME Cardinality(DOMAIN f) > MaxFlows, NEW g \in DOMAIN f, e.gone = {g}, e.next = g + 1,
              \A j \in DOMAIN f : j < g => j < nextEvictID
       PROVE  /\ MapSound'
              /\ \A j \in DOMAIN Flows \ DOMAIN Flows' : \A k \in DOMAIN Flows' : k < j => k \in late'
  <2>1. DOMAIN Flows' = DOMAIN f \ {g} /\ g \in Nat /\ nextEvictID' = g + 1
    BY <1>3, <1>4, <1>6, <1>10
  <2>2. IsFiniteSet(DOMAIN f \ {g}) /\ Cardinality(DOMAIN f \ {g}) = Cardinality(DOMAIN f) - 1
    BY <1>6, <1>10, FS_RemoveElement
  <2>3. IsFiniteSet(DOMAIN Flows') /\ Cardinality(DOMAIN Flows') <= MaxFlows
    BY <1>6, <2>1, <2>2, FlowsAssumption
  <2>4. ASSUME NEW j \in DOMAIN Flows', j < g PROVE j \in late'
    BY <1>8, <1>10, <2>1, <2>4
  <2>5. ASSUME NEW j \in DOMAIN Flows', j < nextEvictID' PROVE j \in late'
    <3>1. j \in Nat /\ j # g
      BY <1>3, <1>6, <2>1
    <3> QED
      BY <2>1, <2>4, <2>5, <3>1
  <2>6. DOMAIN Flows \ DOMAIN Flows' \subseteq {g}
    BY <1>5, <2>1
  <2> QED
    BY <1>3, <1>4, <1>6, <2>1, <2>3, <2>4, <2>5, <2>6 DEF MapSound
<1> QED
  <2>1. DOMAIN f \subseteq Nat
    BY <1>3, <1>6
  <2>2. FlowCounter \in Nat
    BY <1>3 DEF FlowsIInv, FlowsTyped
  <2> QED
    BY <1>6, <1>7, <1>9, <1>10, <2>1, <2>2, Evicts

(* A step that gives no id to a request it was not for. *)
LEMMA PiecesKeep ==
  ASSUME FlowsIInv, UNCHANGED <<early, served>>, \A i, n : Holds(i, n)' => Holds(i, n)
  PROVE  /\ PiecesSound' /\ UniqueIds'
         /\ (Counting' => Counting) /\ FlowCounter' = FlowCounter => Counted'
BY DEF FlowsIInv, PiecesSound, UniqueIds, Counted

(* A connection that moves keeps its request. *)
LEMMA ConnMoves ==
  ASSUME FlowsIInv, NEW c \in Conns, NEW stage \in {"read", "insert", "publish", "forward", "respond"},
         Goto(c, stage)
  PROVE  /\ conn' \in [Conns -> ConnRow] /\ conn'[c].at = stage
         /\ \A d \in Conns : conn'[d].id = conn[d].id /\ conn'[d].n = conn[d].n
         /\ \A d \in Conns \ {c} : conn'[d].at = conn[d].at
<1> DEFINE row == [conn[c] EXCEPT !.at = stage]
<1>1. conn' = [conn EXCEPT ![c] = row] /\ conn \in [Conns -> ConnRow]
  BY DEF Goto, FlowsIInv, FlowsTyped
<1>2. row \in ConnRow /\ row.at = stage /\ row.id = conn[c].id /\ row.n = conn[c].n
  BY <1>1 DEF ConnRow
<1> HIDE DEF row
<1> QED
  BY <1>1, <1>2

(* Connections before their first flow in the channel stay unknown there.   *)
LEMMA ConnsKeep ==
  ASSUME FlowsIInv,
         \A d \in Conns :
            /\ conn'[d].id = conn[d].id /\ conn'[d].n = conn[d].n
            /\ conn'[d].at # "read" => conn[d].at # "read"
            /\ conn'[d].at \in {"insert", "publish"} =>
                  conn[d].at \in {"insert", "publish"} /\ \A n : n = conn[d].n /\ Known(n)' => Known(n)
  PROVE  \A c \in Conns : ConnSound(c)'
<1> SUFFICES ASSUME NEW c \in Conns PROVE ConnSound(c)'
  OBVIOUS
<1>1. ConnSound(c)
  BY DEF FlowsIInv
<1>2. PICK n : n = conn[c].n
  OBVIOUS
<1>3. conn'[c].at \in {"insert", "publish"} => ~Known(n)'
  BY <1>1, <1>2 DEF ConnSound
<1> QED
  BY <1>1, <1>2, <1>3 DEF ConnSound

(* InsertFlow: the flow goes into the map, and the oldest ones leave it     *)
(* when it is full.                                                         *)
LEMMA InsertFlowKeeps ==
  ASSUME FlowsIInv, NEW c \in Conns, InsertFlow(c)
  PROVE  FlowsIInv'
<1>1. /\ conn[c].at = "insert" /\ Goto(c, "publish")
      /\ UNCHANGED <<FlowCounter, OutFlow, store, PersistedFlows, restore, served, early, starts>>
  BY DEF InsertFlow
<1>2. /\ conn' \in [Conns -> ConnRow] /\ conn'[c].at = "publish"
      /\ \A d \in Conns : conn'[d].id = conn[d].id /\ conn'[d].n = conn[d].n
      /\ \A d \in Conns \ {c} : conn'[d].at = conn[d].at
  BY <1>1, ConnMoves
<1>3. FlowsTyped'
  BY <1>1, <1>2 DEF FlowsIInv, FlowsTyped
<1>4. \A i, n : (Holds(i, n)' => Holds(i, n)) /\ (Known(n)' <=> Known(n))
  BY <1>1, <1>2 DEF Holds, Known
<1>5. PiecesSound' /\ UniqueIds' /\ Counted'
  BY <1>1, <1>4, PiecesKeep DEF Counting
<1>6. OnlyEarly' /\ LoadedMax' /\ QueueInOrder' /\ StoreInOrder'
  BY <1>1, <1>2 DEF FlowsIInv, OnlyEarly, Counting, LoadedMax, QueueInOrder, StoreInOrder
<1>7. \A d \in Conns : ConnSound(d)'
  BY <1>1, <1>2, <1>4, ConnsKeep
<1> QED
  BY <1>3, <1>5, <1>6, <1>7, InsertedMap DEF FlowsIInv

(* RoundTrip: nothing of the flow goes anywhere. *)
LEMMA RoundTripKeeps ==
  ASSUME FlowsIInv, NEW c \in Conns, NEW ok \in BOOLEAN, RoundTrip(c, ok)
  PROVE  FlowsIInv'
<1>1. PICK stage \in {"read", "respond"} : Goto(c, stage)
  BY DEF RoundTrip
<1>2. /\ conn[c].at = "forward"
      /\ UNCHANGED <<FlowCounter, Flows, nextEvictID, OutFlow, store, PersistedFlows, restore,
                     served, early, late, starts>>
  BY DEF RoundTrip
<1>3. /\ conn' \in [Conns -> ConnRow] /\ conn'[c].at = stage
      /\ \A d \in Conns : conn'[d].id = conn[d].id /\ conn'[d].n = conn[d].n
      /\ \A d \in Conns \ {c} : conn'[d].at = conn[d].at
  BY <1>1, ConnMoves
<1>4. FlowsTyped' /\ MapSound'
  BY <1>2, <1>3 DEF FlowsIInv, FlowsTyped, MapSound
<1>5. \A i, n : (Holds(i, n)' => Holds(i, n)) /\ (Known(n)' <=> Known(n))
  BY <1>2, <1>3 DEF Holds, Known
<1>6. PiecesSound' /\ UniqueIds' /\ Counted'
  BY <1>2, <1>5, PiecesKeep DEF Counting
<1>7. OnlyEarly' /\ LoadedMax' /\ QueueInOrder' /\ StoreInOrder'
  BY <1>2, <1>3 DEF FlowsIInv, OnlyEarly, Counting, LoadedMax, QueueInOrder, StoreInOrder
<1>8. \A d \in Conns : ConnSound(d)'
  BY <1>2, <1>3, <1>5, ConnsKeep
<1> QED
  BY <1>4, <1>6, <1>7, <1>8 DEF FlowsIInv

(* Publish: the first version of a flow is new in the channel, and the one  *)
(* with the response comes after it.                                        *)
LEMMA PublishKeeps ==
  ASSUME FlowsIInv, NEW c \in Conns, Publish(c)
  PROVE  FlowsIInv'
<1> DEFINE piece == [id |-> conn[c].id, n |-> conn[c].n, resp |-> conn[c].at = "respond"]
           stage == IF conn[c].at = "publish" THEN "forward" ELSE "read"
<1>1. /\ conn[c].at \in {"publish", "respond"} /\ Goto(c, stage) /\ stage \in {"read", "forward"}
      /\ Len(OutFlow) < OutSize /\ OutFlow' = Append(OutFlow, piece)
      /\ UNCHANGED <<FlowCounter, Flows, nextEvictID, store, PersistedFlows, restore, served,
                     early, late, starts>>
  BY DEF Publish
<1>2. PICK i, n : i = conn[c].id /\ n = conn[c].n
  OBVIOUS
<1>3. piece \in Piece /\ piece.id = i /\ piece.n = n /\ (piece.resp <=> conn[c].at = "respond")
  BY <1>2 DEF Piece, FlowsIInv, FlowsTyped, ConnRow
<1>4. n # 0 /\ Holds(i, n)
  BY <1>1, <1>2 DEF FlowsIInv, ConnSound, Holds
<1>5. /\ conn' \in [Conns -> ConnRow] /\ conn'[c].at \in {"read", "forward"}
      /\ \A d \in Conns : conn'[d].id = conn[d].id /\ conn'[d].n = conn[d].n
      /\ \A d \in Conns \ {c} : conn'[d].at = conn[d].at
  BY <1>1, ConnMoves
<1> HIDE DEF piece, stage
<1>6. PICK len \in Nat : len = Len(OutFlow)
  BY DEF FlowsIInv, FlowsTyped
<1>7. /\ OutFlow' \in Seq(Piece) /\ Len(OutFlow') = len + 1
      /\ \A k \in 1..len : OutFlow'[k] = OutFlow[k]
      /\ OutFlow'[len + 1] = piece
  BY <1>1, <1>3, <1>6, AppendAt DEF FlowsIInv, FlowsTyped
<1>8. \A k \in 1..Len(OutFlow') : k \in 1..len \/ k = len + 1
  BY <1>6, <1>7
<1>9. FlowsTyped' /\ MapSound'
  <2>1. Len(OutFlow') <= OutSize
    BY <1>1, <1>6, <1>7, FlowsAssumption
  <2> QED
    BY <1>1, <1>5, <1>7, <2>1 DEF FlowsIInv, FlowsTyped, MapSound
<1>10. ASSUME NEW j, NEW m, Holds(j, m)' PROVE Holds(j, m)
  <2>1. CASE j = i /\ m = n
    BY <1>4, <2>1
  <2>2. CASE ~(j = i /\ m = n)
    <3>1. ASSUME NEW k \in 1..Len(OutFlow'), OutFlow'[k].id = j, OutFlow'[k].n = m
          PROVE  k \in 1..len /\ OutFlow[k].id = j /\ OutFlow[k].n = m
      BY <1>3, <1>7, <1>8, <2>2, <3>1
    <3> QED
      BY <1>1, <1>5, <1>6, <1>10, <3>1 DEF Holds
  <2> QED
    BY <2>1, <2>2
<1>11. PiecesSound' /\ UniqueIds' /\ Counted'
  BY <1>1, <1>10, PiecesKeep DEF Counting
<1>12. OnlyEarly' /\ LoadedMax'
  <2>1. LoadedMax'
    BY <1>1 DEF FlowsIInv, LoadedMax
  <2> SUFFICES ASSUME ~Counting PROVE OnlyEarly'
    BY <1>1, <2>1 DEF OnlyEarly, Counting
  <2>2. n \in early
    BY <1>2, <1>4 DEF FlowsIInv, OnlyEarly
  <2>3. \A k \in 1..Len(OutFlow') : OutFlow'[k].n \in early
    BY <1>3, <1>6, <1>7, <1>8, <2>2 DEF FlowsIInv, OnlyEarly
  <2> QED
    BY <1>1, <1>5, <2>3 DEF FlowsIInv, OnlyEarly
<1>13. conn[c].at = "publish" => ~Known(n)
  BY <1>2 DEF FlowsIInv, ConnSound
<1>14. QueueInOrder'
  <2> SUFFICES ASSUME NEW k \in 1..Len(OutFlow'), NEW l \in 1..Len(OutFlow'), k < l,
                      OutFlow'[k].n = OutFlow'[l].n
      PROVE OutFlow'[l].resp
    BY DEF QueueInOrder
  <2>1. k \in 1..len
    BY <1>6, <1>7
  <2>2. CASE l \in 1..len
    BY <1>6, <1>7, <2>1, <2>2 DEF FlowsIInv, QueueInOrder
  <2>3. CASE l = len + 1
    BY <1>1, <1>3, <1>6, <1>7, <1>13, <2>1, <2>3 DEF Known
  <2> QED
    BY <1>8, <2>2, <2>3
<1>15. StoreInOrder'
  <2> SUFFICES ASSUME NEW j \in DOMAIN store, NEW k \in 1..Len(OutFlow'), store[j].n = OutFlow'[k].n
      PROVE OutFlow'[k].resp
    BY <1>1 DEF StoreInOrder
  <2>1. CASE k \in 1..len
    BY <1>6, <1>7, <2>1 DEF FlowsIInv, StoreInOrder
  <2>2. CASE k = len + 1
    BY <1>1, <1>3, <1>7, <1>13, <2>2 DEF Known
  <2> QED
    BY <1>8, <2>1, <2>2
<1>16. \A d \in Conns : ConnSound(d)'
  <2>1. ASSUME NEW d \in Conns \ {c}, conn[d].at \in {"insert", "publish"}, NEW m, m = conn[d].n, Known(m)'
        PROVE  Known(m)
    <3>1. m # n
      BY <1>2, <2>1 DEF FlowsIInv, ConnSound
    <3> QED
      BY <1>1, <1>3, <1>6, <1>7, <1>8, <2>1, <3>1 DEF Known
  <2> QED
    BY <1>1, <1>5, <2>1, ConnsKeep
<1> QED
  BY <1>9, <1>11, <1>12, <1>14, <1>15, <1>16 DEF FlowsIInv

(* Drain: the first flow of the channel goes to the database. *)
LEMMA DrainKeeps ==
  ASSUME FlowsIInv, Drain
  PROVE  FlowsIInv'
<1>1. /\ restore.at \in {"done", "failed"} /\ OutFlow # <<>> /\ OutFlow' = Tail(OutFlow) /\ OutFlow \in Seq(Piece)
      /\ UNCHANGED <<FlowCounter, conn, Flows, nextEvictID, PersistedFlows, restore, served,
                     early, late, starts>>
  BY DEF Drain, FlowsIInv, FlowsTyped
<1>2. PICK f \in Piece : f = OutFlow[1] /\ f = Head(OutFlow)
  BY <1>1, TailAt
<1>3. PICK len \in Nat : len = Len(OutFlow)
  BY <1>1
<1>4. /\ OutFlow' \in Seq(Piece) /\ Len(OutFlow') = len - 1 /\ 1 \in 1..len
      /\ \A k \in 1..Len(OutFlow') : k + 1 \in 1..len /\ OutFlow'[k] = OutFlow[k + 1]
  BY <1>1, <1>3, TailAt
<1>5. /\ DOMAIN store' = DOMAIN store \cup {f.id}
      /\ \A i \in DOMAIN store' : store'[i] = IF i = f.id THEN [n |-> f.n, resp |-> f.resp] ELSE store[i]
  BY <1>2 DEF Drain, Put
<1>6. FlowsTyped' /\ MapSound'
  <2>1. Len(OutFlow') <= OutSize
    BY <1>3, <1>4, FlowsAssumption DEF FlowsIInv, FlowsTyped
  <2>2. [n |-> f.n, resp |-> f.resp] \in [n : Nat, resp : BOOLEAN]
    BY DEF Piece
  <2>3. \A i \in DOMAIN store' : store'[i] \in [n : Nat, resp : BOOLEAN]
    BY <1>5, <2>2 DEF FlowsIInv, FlowsTyped
  <2> QED
    BY <1>1, <1>4, <2>1, <2>3 DEF FlowsIInv, FlowsTyped, MapSound
<1>7. ASSUME NEW i, NEW n, Holds(i, n)' PROVE Holds(i, n)
  <2>1. CASE \E c \in Conns : conn'[c].id = i /\ conn'[c].n = n /\ n # 0
    BY <1>1, <2>1 DEF Holds
  <2>2. CASE \E k \in 1..Len(OutFlow') : OutFlow'[k].id = i /\ OutFlow'[k].n = n
    BY <1>3, <1>4, <2>2 DEF Holds
  <2>3. CASE i \in DOMAIN store' /\ store'[i].n = n
    BY <1>2, <1>3, <1>4, <1>5, <2>3 DEF Holds
  <2> QED
    BY <1>7, <2>1, <2>2, <2>3 DEF Holds
<1>8. PiecesSound' /\ UniqueIds' /\ Counted'
  BY <1>1, <1>7, PiecesKeep DEF Counting
<1>9. OnlyEarly' /\ LoadedMax'
  <2>1. LoadedMax'
    BY <1>1 DEF LoadedMax
  <2>2. ~Counting => \A k \in 1..Len(OutFlow') : OutFlow'[k].n \in early
    BY <1>3, <1>4 DEF FlowsIInv, OnlyEarly
  <2>3. OnlyEarly'
    BY <1>1, <2>2 DEF FlowsIInv, OnlyEarly, Counting
  <2> QED
    BY <2>1, <2>3
<1>10. QueueInOrder'
  <2> SUFFICES ASSUME NEW k \in 1..Len(OutFlow'), NEW l \in 1..Len(OutFlow'), k < l,
                      OutFlow'[k].n = OutFlow'[l].n
      PROVE OutFlow'[l].resp
    BY DEF QueueInOrder
  <2>1. k + 1 \in 1..len /\ OutFlow'[k] = OutFlow[k + 1] /\ l + 1 \in 1..len /\ OutFlow'[l] = OutFlow[l + 1]
    BY <1>4, Zenon
  <2>2. k + 1 < l + 1
    BY <1>3, <1>4
  <2>3. \A a, b \in 1..len : a < b /\ OutFlow[a].n = OutFlow[b].n => OutFlow[b].resp
    BY <1>3 DEF FlowsIInv, QueueInOrder
  <2> QED
    BY <2>1, <2>2, <2>3, Zenon
<1>11. StoreInOrder'
  <2> SUFFICES ASSUME NEW i \in DOMAIN store', NEW k \in 1..Len(OutFlow'), store'[i].n = OutFlow'[k].n
      PROVE OutFlow'[k].resp
    BY DEF StoreInOrder
  <2>1. k + 1 \in 1..len /\ OutFlow'[k] = OutFlow[k + 1] /\ 1 < k + 1
    BY <1>3, <1>4
  <2>2. CASE i = f.id
    BY <1>2, <1>3, <1>4, <1>5, <2>1, <2>2 DEF FlowsIInv, QueueInOrder
  <2>3. CASE i # f.id
    BY <1>3, <1>5, <2>1, <2>3 DEF FlowsIInv, StoreInOrder
  <2> QED
    BY <2>2, <2>3
<1>12. ASSUME NEW n, Known(n)' PROVE Known(n)
  <2>1. CASE \E k \in 1..Len(OutFlow') : OutFlow'[k].n = n
    BY <1>3, <1>4, <2>1 DEF Known
  <2>2. CASE \E i \in DOMAIN store' : store'[i].n = n
    BY <1>2, <1>3, <1>4, <1>5, <2>2 DEF Known
  <2> QED
    BY <1>12, <2>1, <2>2 DEF Known
<1>13. \A c \in Conns : ConnSound(c)'
  BY <1>1, <1>12, ConnsKeep
<1> QED
  BY <1>6, <1>8, <1>9, <1>10, <1>11, <1>13 DEF FlowsIInv

(* What a step leaves alone that only restores. *)
LEMMA RestoreKeeps ==
  ASSUME FlowsIInv, UNCHANGED <<conn, Flows, nextEvictID, OutFlow, store, served, early, late, starts>>
  PROVE  /\ MapSound' /\ PiecesSound' /\ UniqueIds' /\ QueueInOrder' /\ StoreInOrder'
         /\ \A c \in Conns : ConnSound(c)'
         /\ \A i, n : Holds(i, n)' <=> Holds(i, n)
<1>1. \A i, n : Holds(i, n)' <=> Holds(i, n)
  BY DEF Holds
<1>2. \A n : Known(n)' <=> Known(n)
  BY DEF Known
<1>3. PiecesSound' /\ UniqueIds'
  BY <1>1, PiecesKeep
<1>4. \A c \in Conns : ConnSound(c)'
  BY <1>2, ConnsKeep
<1> QED
  BY <1>1, <1>3, <1>4 DEF FlowsIInv, MapSound, QueueInOrder, StoreInOrder

(* restoreState, step by step: the greatest id is that of the database,     *)
(* which nobody writes yet, and the counter ends at or above it.            *)
LEMMA RestoreStepKeeps ==
  ASSUME FlowsIInv, RestoreLoad \/ RestoreFails \/ RestoreCompare \/ RestoreSet \/ RestoreAttach
  PROVE  FlowsIInv'
<1>1. UNCHANGED <<conn, Flows, nextEvictID, OutFlow, store, served, early, late, starts>>
  BY DEF RestoreLoad, RestoreFails, RestoreCompare, RestoreSet, RestoreAttach
<1>2. /\ MapSound' /\ PiecesSound' /\ UniqueIds' /\ QueueInOrder' /\ StoreInOrder'
      /\ \A c \in Conns : ConnSound(c)'
      /\ \A i, n : Holds(i, n)' <=> Holds(i, n)
  BY <1>1, RestoreKeeps
<1>3. \A i \in DOMAIN store : i \in 1..served /\ store[i].n \in 1..served
  BY DEF FlowsIInv, PiecesSound, Holds
<1>4. /\ served \in Nat /\ FlowCounter \in 0..served
      /\ restore \in [at : {"load", "compare", "set", "attach", "done", "failed"}, max : 0..served]
  BY FlowsAssumption DEF FlowsIInv, FlowsTyped
<1>5. ASSUME ~Counting PROVE \A i, n : Holds(i, n) /\ n \notin early => i \in DOMAIN store
  BY <1>5 DEF FlowsIInv, OnlyEarly, Holds
<1> DEFINE RestoreRow == [at : {"load", "compare", "set", "attach", "done", "failed"}, max : 0..served]
<1>6. ASSUME restore' \in RestoreRow, FlowCounter' \in 0..served,
             \A i \in DOMAIN PersistedFlows' : PersistedFlows'[i] \in 1..served
      PROVE  FlowsTyped'
  BY <1>1, <1>6 DEF FlowsIInv, FlowsTyped
<1>7. CASE RestoreLoad
  <2> DEFINE max == IF DOMAIN store = {} THEN 0
                    ELSE CHOOSE i \in DOMAIN store : \A j \in DOMAIN store : i >= j
  <2>1. max \in 0..served /\ \A j \in DOMAIN store : j <= max
    <3>1. CASE DOMAIN store = {}
      BY <1>4, <3>1
    <3>2. CASE DOMAIN store # {}
      <4>1. DOMAIN store \in SUBSET (0..served)
        BY <1>3
      <4>2. max \in DOMAIN store /\ \A j \in DOMAIN store : max >= j
        BY <1>4, <3>2, <4>1, GreatestIs
      <4> QED
        BY <1>3, <4>1, <4>2
    <3> QED
      BY <3>1, <3>2
  <2>2. restore' = [at |-> "compare", max |-> max] /\ UNCHANGED <<FlowCounter, PersistedFlows>>
        /\ restore.at = "load"
    BY <1>7 DEF RestoreLoad
  <2> HIDE DEF max
  <2>3. restore' \in RestoreRow /\ restore'.at = "compare" /\ restore'.max = max
    BY <2>1, <2>2
  <2>4. FlowsTyped'
    BY <1>4, <1>6, <2>2, <2>3 DEF FlowsIInv, FlowsTyped
  <2>5. ~Counting /\ ~Counting'
    BY <2>2, <2>3 DEF Counting
  <2>6. Counted' /\ OnlyEarly' /\ LoadedMax'
    BY <1>1, <2>1, <2>3, <2>5 DEF FlowsIInv, Counted, OnlyEarly, LoadedMax
  <2> QED
    BY <1>2, <2>4, <2>6 DEF FlowsIInv
<1>8. CASE RestoreCompare
  <2>1. /\ restore.at = "compare" /\ UNCHANGED <<FlowCounter, PersistedFlows>>
        /\ restore' = [restore EXCEPT !.at = IF restore.max > FlowCounter THEN "set" ELSE "attach"]
    BY <1>8 DEF RestoreCompare
  <2>2. /\ restore' \in RestoreRow /\ restore'.max = restore.max
        /\ restore'.at = IF restore.max > FlowCounter THEN "set" ELSE "attach"
    BY <1>4, <2>1
  <2>3. FlowsTyped'
    BY <1>4, <1>6, <2>1, <2>2 DEF FlowsIInv, FlowsTyped
  <2>4. /\ ~Counting /\ \A i \in DOMAIN store : i <= restore.max
        /\ restore'.at = "attach" => restore.max <= FlowCounter
    BY <1>4, <2>1, <2>2 DEF Counting, FlowsIInv, LoadedMax
  <2>5. LoadedMax'
    BY <1>1, <2>1, <2>2, <2>4 DEF LoadedMax
  <2>6. OnlyEarly'
    BY <1>1, <2>4 DEF FlowsIInv, OnlyEarly
  <2>7. Counted'
    <3> SUFFICES ASSUME restore'.at = "attach", NEW i, NEW n, Holds(i, n)', n \notin early
        PROVE i <= FlowCounter
      BY <1>1, <2>1, <2>2 DEF Counted, Counting
    <3>1. i \in DOMAIN store
      BY <1>2, <1>5, <2>4
    <3> QED
      BY <1>3, <1>4, <2>4, <3>1
  <2> QED
    BY <1>2, <2>3, <2>5, <2>6, <2>7 DEF FlowsIInv
<1>9. CASE RestoreSet
  <2>1. /\ restore.at = "set" /\ PersistedFlows' = PersistedFlows /\ FlowCounter' = restore.max
        /\ restore' = [restore EXCEPT !.at = "attach"]
    BY <1>9 DEF RestoreSet
  <2>2. restore' \in RestoreRow /\ restore'.max = restore.max /\ restore'.at = "attach"
    BY <1>4, <2>1
  <2>3. FlowsTyped'
    BY <1>4, <1>6, <2>1, <2>2 DEF FlowsIInv, FlowsTyped
  <2>4. ~Counting /\ Counting' /\ \A i \in DOMAIN store : i <= restore.max
    BY <2>1, <2>2 DEF Counting, FlowsIInv, LoadedMax
  <2>5. LoadedMax'
    BY <1>1, <1>4, <2>1, <2>2, <2>4 DEF LoadedMax
  <2>6. OnlyEarly'
    BY <2>4 DEF OnlyEarly
  <2>7. Counted'
    <3> SUFFICES ASSUME NEW i, NEW n, Holds(i, n)', n \notin early
        PROVE i <= restore.max
      BY <1>1, <2>1 DEF Counted
    <3> QED
      BY <1>2, <1>5, <2>4
  <2> QED
    BY <1>2, <2>3, <2>5, <2>6, <2>7 DEF FlowsIInv
<1>10. CASE RestoreAttach
  <2>1. /\ restore.at = "attach" /\ FlowCounter' = FlowCounter
        /\ PersistedFlows' = [i \in DOMAIN store |-> store[i].n]
        /\ restore' = [restore EXCEPT !.at = "done"]
    BY <1>10 DEF RestoreAttach
  <2>2. restore' \in RestoreRow /\ restore'.at = "done"
    BY <1>4, <2>1
  <2>3. FlowsTyped'
    BY <1>3, <1>4, <1>6, <2>1, <2>2
  <2>4. Counting /\ Counting'
    BY <2>1, <2>2 DEF Counting
  <2>5. LoadedMax' /\ OnlyEarly'
    BY <2>2, <2>4 DEF LoadedMax, OnlyEarly
  <2>6. Counted'
    BY <1>1, <1>2, <2>1, <2>4 DEF FlowsIInv, Counted
  <2> QED
    BY <1>2, <2>3, <2>5, <2>6 DEF FlowsIInv
<1>11. CASE RestoreFails
  <2>1. /\ restore.at = "load" /\ UNCHANGED <<FlowCounter, PersistedFlows>>
        /\ restore' = [restore EXCEPT !.at = "failed"]
    BY <1>11 DEF RestoreFails
  <2>2. restore' \in RestoreRow /\ restore'.at = "failed"
    BY <1>4, <2>1
  <2>3. FlowsTyped'
    BY <1>4, <1>6, <2>1, <2>2 DEF FlowsIInv, FlowsTyped
  <2>4. ~Counting /\ ~Counting'
    BY <2>1, <2>2 DEF Counting
  <2>5. Counted' /\ OnlyEarly' /\ LoadedMax'
    BY <1>1, <2>2, <2>4 DEF FlowsIInv, Counted, OnlyEarly, LoadedMax
  <2> QED
    BY <1>2, <2>3, <2>5 DEF FlowsIInv
<1> QED
  BY <1>7, <1>8, <1>9, <1>10, <1>11

(* HitmStarts: only the database is left. *)
LEMMA HitmStartsKeeps ==
  ASSUME FlowsIInv, HitmStarts
  PROVE  FlowsIInv'
<1>1. /\ FlowCounter' = 0 /\ conn' = [c \in Conns |-> NoRequest] /\ Flows' = NoFlows /\ nextEvictID' = 0
      /\ OutFlow' = <<>> /\ PersistedFlows' = NoFlows /\ restore' = [at |-> "load", max |-> 0]
      /\ served + starts < MaxReqs /\ starts' = starts + 1 /\ UNCHANGED <<store, served, early>>
  BY DEF HitmStarts
<1>2. NoRequest \in ConnRow /\ NoRequest.at = "read" /\ NoRequest.n = 0 /\ NoRequest.id = 0
  BY DEF NoRequest, ConnRow
<1>3. DOMAIN NoFlows = {}
  BY DEF NoFlows
<1>4. served \in 0..MaxReqs /\ starts \in Nat \ {0}
  BY DEF FlowsIInv, FlowsTyped
<1>5. FlowsTyped'
  <2>1. conn' \in [Conns -> ConnRow] /\ OutFlow' \in Seq(Piece) /\ Len(OutFlow') = 0
    BY <1>1, <1>2
  <2>2. served' + starts' <= MaxReqs + 1 /\ starts' \in Nat \ {0} /\ FlowCounter' \in 0..served'
    BY <1>1, <1>4, FlowsAssumption
  <2>3. restore' \in [at : {"load", "compare", "set", "attach", "done", "failed"}, max : 0..served']
    BY <1>1, <1>4, FlowsAssumption
  <2>4. Len(OutFlow') <= OutSize
    BY <2>1, FlowsAssumption
  <2> QED
    BY <1>1, <1>3, <2>1, <2>2, <2>3, <2>4 DEF FlowsIInv, FlowsTyped
<1>6. MapSound'
  BY <1>1, <1>3, FS_EmptySet, FlowsAssumption DEF MapSound
<1>7. \A i, n : Holds(i, n)' => Holds(i, n)
  BY <1>1, <1>2 DEF Holds
<1>8. ~Counting' /\ OnlyEarly' /\ LoadedMax' /\ Counted'
  BY <1>1, <1>2 DEF Counting, OnlyEarly, LoadedMax, Counted
<1>9. PiecesSound' /\ UniqueIds'
  BY <1>1, <1>7, PiecesKeep
<1>10. QueueInOrder' /\ StoreInOrder' /\ \A c \in Conns : ConnSound(c)'
  BY <1>1, <1>2 DEF QueueInOrder, StoreInOrder, ConnSound
<1> QED
  BY <1>5, <1>6, <1>8, <1>9, <1>10 DEF FlowsIInv

(* NewFlow: the id is above all that the counter has seen, or the request   *)
(* is one that came too early.                                              *)
LEMMA NewFlowKeeps ==
  ASSUME FlowsIInv, NEW c \in Conns, NewFlow(c)
  PROVE  FlowsIInv'
<1>1. PICK new \in Nat : new = served'
  BY FlowsAssumption DEF NewFlow, FlowsIInv, FlowsTyped
<1>2. PICK id \in Nat : id = FlowCounter'
  BY FlowsAssumption DEF NewFlow, FlowsIInv, FlowsTyped
<1>3. /\ served = new - 1 /\ new \in 1..MaxReqs /\ FlowCounter = id - 1 /\ id \in 1..new
      /\ starts' = starts /\ starts \in Nat \ {0} /\ new + starts <= MaxReqs + 1
  BY <1>1, <1>2, FlowsAssumption DEF NewFlow, FlowsIInv, FlowsTyped
<1> DEFINE row == [at |-> "insert", id |-> id, n |-> new]
<1>4. /\ conn[c].at = "read" /\ conn' = [conn EXCEPT ![c] = row]
      /\ early' = IF Counting THEN early ELSE early \cup {new}
      /\ UNCHANGED <<Flows, nextEvictID, OutFlow, store, PersistedFlows, restore, late>>
  BY <1>1, <1>2 DEF NewFlow, Counting
<1>5. row \in ConnRow /\ row.at = "insert" /\ row.id = id /\ row.n = new
  BY DEF ConnRow
<1> HIDE DEF row
<1>6. /\ conn' \in [Conns -> ConnRow] /\ conn'[c] = row
      /\ \A d \in Conns \ {c} : conn'[d] = conn[d]
  BY <1>4, <1>5 DEF FlowsIInv, FlowsTyped
<1>7. \A i, n : Holds(i, n) => i \in 1..(new - 1) /\ n \in 1..(new - 1)
  BY <1>3 DEF FlowsIInv, PiecesSound
<1>8. \A i, n : Holds(i, n)' => Holds(i, n) \/ (i = id /\ n = new)
  <2> SUFFICES ASSUME NEW i, NEW n, Holds(i, n)' PROVE Holds(i, n) \/ (i = id /\ n = new)
    OBVIOUS
  <2>1. CASE \E d \in Conns : conn'[d].id = i /\ conn'[d].n = n /\ n # 0
    BY <1>5, <1>6, <2>1 DEF Holds
  <2>2. CASE ~(\E d \in Conns : conn'[d].id = i /\ conn'[d].n = n /\ n # 0)
    BY <1>4, <2>2 DEF Holds
  <2> QED
    BY <2>1, <2>2
<1>9. FlowsTyped'
  <2>1. restore' \in [at : {"load", "compare", "set", "attach", "done", "failed"}, max : 0..served']
    <3>1. 0..served \subseteq 0..new
      BY <1>3
    <3> QED
      BY <1>1, <1>4, <3>1 DEF FlowsIInv, FlowsTyped
  <2>2. \A i \in DOMAIN PersistedFlows : PersistedFlows[i] \in 1..new
    BY <1>3 DEF FlowsIInv, FlowsTyped
  <2>3. served' \in 0..MaxReqs /\ FlowCounter' \in 0..served' /\ served' + starts' <= MaxReqs + 1
    BY <1>1, <1>2, <1>3
  <2> QED
    BY <1>1, <1>3, <1>4, <1>6, <2>1, <2>2, <2>3 DEF FlowsIInv, FlowsTyped
<1>10. MapSound'
  <2>1. \A i \in DOMAIN Flows : i \in 1..new /\ Flows[i] \in 1..new
    BY <1>3 DEF FlowsIInv, MapSound
  <2> QED
    BY <1>1, <1>4, <2>1 DEF FlowsIInv, MapSound
<1>11. PiecesSound'
  <2> SUFFICES ASSUME NEW i, NEW n, Holds(i, n)' PROVE i \in 1..new /\ n \in 1..new
    BY <1>1 DEF PiecesSound
  <2> QED
    BY <1>3, <1>7, <1>8
<1>12. \A n \in 1..(new - 1) : n \in early' <=> n \in early
  BY <1>3, <1>4
<1>13. Counting' <=> Counting
  BY <1>4 DEF Counting
<1>14. new \notin early' => Counting
  BY <1>4
<1>15. UniqueIds'
  <2> SUFFICES ASSUME NEW i, NEW m, NEW n, Holds(i, m)', Holds(i, n)', m \notin early', n \notin early'
      PROVE m = n
    BY DEF UniqueIds
  <2>1. ASSUME NEW l, Holds(i, l), l \notin early', i = id, Counting PROVE FALSE
    <3>1. id <= id - 1
      BY <1>3, <1>7, <1>12, <2>1 DEF FlowsIInv, Counted
    <3> QED
      BY <3>1
  <2>2. CASE Holds(i, m) /\ Holds(i, n)
    BY <1>7, <1>12, <2>2 DEF FlowsIInv, UniqueIds
  <2>3. CASE ~(Holds(i, m) /\ Holds(i, n))
    BY <1>8, <1>14, <2>1, <2>3
  <2> QED
    BY <2>2, <2>3
<1>16. Counted'
  <2> SUFFICES ASSUME Counting, NEW i, NEW n, Holds(i, n)', n \notin early' PROVE i <= id
    BY <1>2, <1>13 DEF Counted
  <2>1. CASE Holds(i, n)
    <3>1. i <= id - 1 /\ i \in Nat
      BY <1>3, <1>7, <1>12, <2>1 DEF FlowsIInv, Counted
    <3> QED
      BY <3>1
  <2>2. CASE i = id
    BY <2>2
  <2> QED
    BY <1>8, <2>1, <2>2
<1>17. OnlyEarly'
  <2> SUFFICES ASSUME ~Counting PROVE OnlyEarly'
    BY <1>13 DEF OnlyEarly
  <2>1. early' = early \cup {new}
    BY <1>4
  <2> QED
    BY <1>4, <1>5, <1>6, <2>1 DEF FlowsIInv, OnlyEarly
<1>18. LoadedMax'
  BY <1>2, <1>3, <1>4 DEF FlowsIInv, FlowsTyped, LoadedMax
<1>19. QueueInOrder' /\ StoreInOrder'
  BY <1>4 DEF FlowsIInv, QueueInOrder, StoreInOrder
<1>20. \A n : Known(n)' <=> Known(n)
  BY <1>4 DEF Known
<1>21. ASSUME NEW d \in Conns PROVE conn[d].n \in 0..(new - 1)
  <2>1. PICK i, n : i = conn[d].id /\ n = conn[d].n
    OBVIOUS
  <2>2. n # 0 => Holds(i, n)
    BY <2>1 DEF Holds
  <2> QED
    BY <1>3, <1>7, <2>1, <2>2
<1>22. ConnSound(c)'
  <2>1. ~Known(new)
    <3>1. \A n : Known(n) => \E i : Holds(i, n)
      BY DEF Known, Holds
    <3> QED
      BY <1>3, <1>7, <3>1
  <2>2. \A d \in Conns : conn'[d].n = new => d = c
    BY <1>3, <1>6, <1>21
  <2> QED
    BY <1>3, <1>5, <1>6, <1>20, <2>1, <2>2 DEF ConnSound
<1>23. ASSUME NEW d \in Conns \ {c} PROVE ConnSound(d)'
  <2>1. ConnSound(d) /\ conn'[d] = conn[d] /\ conn[d].n # new
    BY <1>3, <1>6, <1>21 DEF FlowsIInv
  <2>2. PICK n : n = conn[d].n
    OBVIOUS
  <2>3. Known(n)' <=> Known(n)
    BY <1>20
  <2> QED
    BY <1>5, <1>6, <2>1, <2>2, <2>3 DEF ConnSound
<1> QED
  BY <1>9, <1>10, <1>11, <1>15, <1>16, <1>17, <1>18, <1>19, <1>22, <1>23 DEF FlowsIInv

(* The invariant of the flows is inductive. *)
LEMMA FlowsStep == FlowsIInv /\ [FlowsNext]_flowVars => FlowsIInv'
<1> SUFFICES ASSUME FlowsIInv, [FlowsNext]_flowVars PROVE FlowsIInv'
  OBVIOUS
<1>1. CASE UNCHANGED flowVars
  <2>1. (\A i, n : Holds(i, n)' => Holds(i, n)) /\ (\A n : Known(n)' => Known(n))
    BY <1>1 DEF flowVars, Holds, Known
  <2>2. PiecesSound' /\ UniqueIds' /\ Counted'
    BY <1>1, <2>1, PiecesKeep DEF flowVars, Counting
  <2>3. \A c \in Conns : ConnSound(c)'
    BY <1>1, <2>1, ConnsKeep DEF flowVars
  <2> QED
    BY <1>1, <2>2, <2>3 DEF flowVars, FlowsIInv, FlowsTyped, MapSound, OnlyEarly, Counting, LoadedMax,
                            QueueInOrder, StoreInOrder
<1> QED
  BY <1>1, NewFlowKeeps, InsertFlowKeeps, PublishKeeps, RoundTripKeeps, DrainKeeps, RestoreStepKeeps,
     HitmStartsKeeps DEF FlowsNext

(* The flows in memory are bounded and the history opens what it lists, for *)
(* any number of connections, requests, starts and flows kept.              *)
THEOREM AlwaysFlowsListed == FlowsSpec => []FlowsListed
<1>1. FlowsIInv => FlowsListed
  <2> SUFFICES ASSUME FlowsIInv PROVE FlowsListed
    OBVIOUS
  <2>1. served \in Nat /\ served <= MaxReqs /\ FlowCounter \in 0..served
    BY FlowsAssumption DEF FlowsIInv, FlowsTyped
  <2>2. ASSUME NEW c \in Conns
        PROVE  /\ conn[c].at \in {"read", "insert", "publish", "forward", "respond"}
               /\ conn[c].id \in 0..FlowCounter \/ conn[c].n \in early
    <3>1. conn[c] \in ConnRow /\ ConnSound(c)
      BY DEF FlowsIInv, FlowsTyped
    <3>2. PICK i \in Nat : i = conn[c].id
      BY <3>1 DEF ConnRow
    <3>3. PICK n \in Nat : n = conn[c].n
      BY <3>1 DEF ConnRow
    <3>4. CASE n = 0
      BY <2>1, <3>1, <3>3, <3>4 DEF ConnRow, ConnSound
    <3>5. CASE n # 0
      <4>1. Holds(i, n)
        BY <3>2, <3>3, <3>5 DEF Holds
      <4>2. n \in early \/ i <= FlowCounter
        BY <3>3, <3>5, <4>1 DEF FlowsIInv, Counted, OnlyEarly
      <4> QED
        BY <2>1, <3>1, <3>2, <3>3, <4>2 DEF ConnRow
    <3> QED
      BY <3>4, <3>5
  <2>3. \A i \in DOMAIN store : store[i].n \in 1..served /\ store[i].resp \in BOOLEAN
    BY DEF FlowsIInv, FlowsTyped, PiecesSound, Holds
  <2>4. Range(Flows) \subseteq 1..served /\ Range(PersistedFlows) \subseteq 1..served
    BY DEF FlowsIInv, FlowsTyped, MapSound, Range
  <2>5. FlowsTypeOK
    <3>1. FlowCounter \in 0..(MaxReqs + 1) /\ served \in 0..MaxReqs
      BY <2>1, FlowsAssumption
    <3>2. Len(OutFlow) <= OutSize /\ restore.at \in {"load", "compare", "set", "attach", "done", "failed"}
      BY DEF FlowsIInv, FlowsTyped
    <3> QED
      BY <2>2, <2>3, <2>4, <3>1, <3>2 DEF FlowsTypeOK
  <2>6. FlowsBounded
    BY DEF FlowsIInv, MapSound, FlowsBounded
  <2>7. OpensWhatItLists
    BY DEF OpensWhatItLists, history, flow
  <2> QED
    BY <2>5, <2>6, <2>7 DEF FlowsListed
<1> QED
  BY <1>1, FlowsInitIInv, FlowsStep, PTL DEF FlowsSpec

(* What no step does: lose a flow of the map but the oldest, or replace one *)
(* in the database by another request's or by itself without its response.  *)
LEMMA FlowsStepKeeps ==
  ASSUME FlowsIInv, [FlowsNext]_flowVars
  PROVE  /\ \A i \in DOMAIN Flows \ DOMAIN Flows' :
              starts' = starts => \A j \in DOMAIN Flows' : j < i => j \in late'
         /\ \A i \in DOMAIN store :
              store'[i].n # store[i].n => {store[i].n, store'[i].n} \cap early # {}
         /\ \A i \in DOMAIN store :
              store[i].resp /\ store'[i].n = store[i].n => store'[i].resp
<1>1. CASE \E c \in Conns : InsertFlow(c)
  BY <1>1, InsertedMap DEF InsertFlow
<1>2. CASE Drain
  <2>1. OutFlow \in Seq(Piece) /\ OutFlow # <<>> /\ Flows' = Flows
    BY <1>2 DEF Drain, FlowsIInv, FlowsTyped
  <2>2. PICK f \in Piece : f = OutFlow[1] /\ f = Head(OutFlow) /\ 1 \in 1..Len(OutFlow)
    BY <2>1, TailAt
  <2>3. \A i \in DOMAIN store : store'[i] = IF i = f.id THEN [n |-> f.n, resp |-> f.resp] ELSE store[i]
    BY <1>2, <2>2 DEF Drain, Put
  <2>4. f.id \in DOMAIN store => Holds(f.id, store[f.id].n) /\ Holds(f.id, f.n)
    BY <2>2 DEF Holds
  <2>5. f.id \in DOMAIN store /\ f.n # store[f.id].n => {store[f.id].n, f.n} \cap early # {}
    BY <2>4 DEF FlowsIInv, UniqueIds
  <2>6. f.id \in DOMAIN store /\ f.n = store[f.id].n => f.resp
    BY <2>2 DEF FlowsIInv, StoreInOrder
  <2> QED
    BY <2>1, <2>3, <2>5, <2>6
<1>3. CASE HitmStarts
  BY <1>3 DEF HitmStarts, FlowsIInv, FlowsTyped
<1>4. CASE UNCHANGED <<Flows, store>>
  BY <1>4
<1> QED
  BY <1>1, <1>2, <1>3, <1>4
     DEF FlowsNext, flowVars, NewFlow, Publish, RoundTrip, RestoreLoad, RestoreFails, RestoreCompare,
         RestoreSet, RestoreAttach

(* Eviction takes the oldest flow, and a saved flow is not replaced by      *)
(* another request's, nor its response by its absence, through ends of the  *)
(* process at any time.                                                     *)
THEOREM AlwaysFlowsKept == FlowsSpec => FlowsKept
<1>1. FlowsIInv /\ [FlowsNext]_flowVars =>
        [\A i \in DOMAIN Flows \ DOMAIN Flows' :
           starts' = starts => \A j \in DOMAIN Flows' : j < i => j \in late']_flowVars
  BY FlowsStepKeeps
<1>2. FlowsIInv /\ [FlowsNext]_flowVars =>
        [\A i \in DOMAIN store :
           store'[i].n # store[i].n => {store[i].n, store'[i].n} \cap early # {}]_flowVars
  BY FlowsStepKeeps
<1>3. FlowsIInv /\ [FlowsNext]_flowVars =>
        [\A i \in DOMAIN store :
           store[i].resp /\ store'[i].n = store[i].n => store'[i].resp]_flowVars
  BY FlowsStepKeeps
<1> QED
  BY <1>1, <1>2, <1>3, FlowsInitIInv, FlowsStep, PTL
     DEF FlowsSpec, FlowsKept, OldestEvicted, FlowsNotReplaced, ResponseStays

-----------------------------------------------------------------------------
(* The SSH router.                                                          *)

Message(kinds) == [m : kinds, n : Nat]
UpMessage == Message({"req", "in", "eof", "close"})
DownMessage == Message({"req", "out", "err", "eof", "close"})
PeerState == [sent : Nat, err : Nat, asked : Nat, answered : Nat, got : Nat, heard : Nat,
         eof : BOOLEAN, closed : BOOLEAN]
RouterEnd == [buf : Seq(Nat), reqs : 0..ReqCap, eof : BOOLEAN, closed : BOOLEAN]
Copier == [at : {"read", "write", "done"}, hold : Nat]

SessionTyped ==
    /\ up \in Seq(UpMessage) /\ down \in Seq(DownMessage)
    /\ cl \in PeerState /\ tg \in PeerState /\ src \in RouterEnd /\ dst \in RouterEnd
    /\ copyIn \in Copier /\ copyOut \in Copier
    /\ askIn \in {"next", "reply", "done"} /\ askOut \in {"next", "done"}
    /\ chan \in {"none", "refused", "open", "closed"}

(* How many messages of a kind the library has yet to see.                  *)
OnTheWay(s, kind) == Cardinality({k \in DOMAIN s : s[k].m = kind})
InHand(c) == IF c.at = "write" THEN 1 ELSE 0

(* Requests and answers are forwarded one by one.                           *)
RequestsUp == tg.heard + src.reqs + OnTheWay(up, "req") <= cl.asked
RequestsDown == cl.heard + dst.reqs + OnTheWay(down, "req") <= tg.asked
Answered ==
    /\ cl.answered <= tg.answered /\ tg.answered <= tg.heard
    /\ askIn = "reply" => cl.answered < tg.heard

(* Input arrives or is lost, output is lost only to a client that closed.   *)
InputCounted == tg.got + InHand(copyIn) + Len(src.buf) + OnTheWay(up, "in") <= cl.sent
OutputCounted ==
    LET came == cl.got + InHand(copyOut) + Len(dst.buf) + OnTheWay(down, "out") IN
    /\ came <= tg.sent
    /\ ~src.closed => came = tg.sent

(* The copies end for a reason, and no output follows the end of the output.*)
InputEnds ==
    /\ \A i \in DOMAIN up : up[i].m \in {"eof", "close"} => cl.eof
    /\ src.eof => cl.eof
    /\ copyIn.at = "done" => src.eof \/ (dst.closed /\ tg.got < cl.sent)
OutputEnds ==
    /\ \A i, j \in DOMAIN down : i < j /\ down[i].m \in {"eof", "close"} => down[j].m # "out"
    /\ \A i \in DOMAIN down : dst.eof => down[i].m # "out"
    /\ \A i \in DOMAIN down : down[i].m \in {"eof", "close"} => tg.eof
    /\ dst.eof => tg.eof
    /\ copyOut.at = "done" => src.closed \/ (dst.eof /\ dst.buf = <<>>)
ClosedDone == chan = "closed" => CopiesDone

(* The requests that input followed have been answered.                     *)
InputMarked ==
    /\ \A i \in DOMAIN up : up[i].n <= cl.answered
    /\ \A i \in DOMAIN src.buf : src.buf[i] <= cl.answered
    /\ copyIn.hold <= cl.answered

(* Who visited what was routed there.                                       *)
Routed ==
    /\ \A v \in visits : v[2] \in GetTarget(v[1])
    /\ target = NoTarget => login = <<>>

SessionIInv ==
    /\ SessionTyped
    /\ RequestsUp /\ RequestsDown /\ Answered
    /\ InputCounted /\ OutputCounted
    /\ InputEnds /\ OutputEnds /\ ClosedDone
    /\ InputMarked
SshIInv == SessionIInv /\ Routed

(* What is sent is one more on the way, *)
LEMMA SentOnTheWay ==
  ASSUME NEW S, NEW s \in Seq(S), NEW x \in S, NEW kind
  PROVE  /\ OnTheWay(s, kind) \in Nat
         /\ OnTheWay(Append(s, x), kind) = OnTheWay(s, kind) + (IF x.m = kind THEN 1 ELSE 0)
<1> DEFINE K(q) == {k \in DOMAIN q : q[k].m = kind}
<1>0. \A q : OnTheWay(q, kind) = Cardinality(K(q))
  BY DEF OnTheWay
<1>1. /\ \A k \in 1..Len(s) : Append(s, x)[k] = s[k]
      /\ Append(s, x)[Len(s) + 1] = x /\ DOMAIN s = 1..Len(s) /\ Len(s) \in Nat
      /\ DOMAIN Append(s, x) = 1..(Len(s) + 1)
  OBVIOUS
<1>2. IsFiniteSet(K(s)) /\ Cardinality(K(s)) \in Nat /\ Len(s) + 1 \notin K(s)
  <2>1. IsFiniteSet(1..Len(s))
    BY <1>1, FS_Interval
  <2> QED
    BY <1>1, <2>1, FS_Subset, FS_CardinalityType
<1>3. CASE x.m = kind
  <2>1. K(Append(s, x)) = K(s) \cup {Len(s) + 1}
    BY <1>1, <1>3
  <2> HIDE DEF K
  <2> QED
    BY <1>0, <1>2, <1>3, <2>1, FS_AddElement
<1>4. CASE x.m # kind
  <2>1. K(Append(s, x)) = K(s)
    BY <1>1, <1>4
  <2> HIDE DEF K
  <2> QED
    BY <1>0, <1>2, <1>4, <2>1
<1> QED
  BY <1>3, <1>4

(* and what the library takes one less. *)
LEMMA TakenFromTheWay ==
  ASSUME NEW S, NEW s \in Seq(S), s # <<>>, NEW kind
  PROVE  /\ OnTheWay(s, kind) \in Nat
         /\ OnTheWay(Tail(s), kind) = OnTheWay(s, kind) - (IF Head(s).m = kind THEN 1 ELSE 0)
<1> DEFINE K(q) == {k \in DOMAIN q : q[k].m = kind}
           f == [k \in K(Tail(s)) |-> k + 1]
<1>0. \A q : OnTheWay(q, kind) = Cardinality(K(q))
  BY DEF OnTheWay
<1>1. /\ Head(s) = s[1] /\ Len(s) \in Nat /\ Len(s) >= 1 /\ DOMAIN s = 1..Len(s)
      /\ DOMAIN Tail(s) = 1..(Len(s) - 1) /\ \A k \in 1..(Len(s) - 1) : Tail(s)[k] = s[k + 1]
  OBVIOUS
<1>2. IsFiniteSet(K(s)) /\ Cardinality(K(s)) \in Nat
  <2>1. IsFiniteSet(1..Len(s))
    BY <1>1, FS_Interval
  <2> QED
    BY <1>1, <2>1, FS_Subset, FS_CardinalityType
<1>3. IsFiniteSet(K(Tail(s))) /\ Cardinality(K(Tail(s))) \in Nat
  <2>1. IsFiniteSet(1..(Len(s) - 1))
    BY <1>1, FS_Interval
  <2> QED
    BY <1>1, <2>1, FS_Subset, FS_CardinalityType
<1>4. f \in Bijection(K(Tail(s)), K(s) \ {1})
  <2>1. \A k \in K(Tail(s)) : k + 1 \in K(s) \ {1}
    BY <1>1
  <2>2. \A k \in K(s) \ {1} : k - 1 \in K(Tail(s)) /\ (k - 1) + 1 = k
    BY <1>1
  <2>3. \A k, l \in K(Tail(s)) : k + 1 = l + 1 => k = l
    BY <1>1
  <2> HIDE DEF K
  <2>4. f \in [K(Tail(s)) -> K(s) \ {1}] /\ \A k \in K(Tail(s)) : f[k] = k + 1
    BY <2>1
  <2>5. \A k \in K(s) \ {1} : \E l \in K(Tail(s)) : f[l] = k
    BY <2>2, <2>4
  <2>6. \A k, l \in K(Tail(s)) : f[k] = f[l] => k = l
    BY <2>3, <2>4
  <2> QED
    BY <2>4, <2>5, <2>6, Fun_IsBij
<1>5. Cardinality(K(Tail(s))) = Cardinality(K(s) \ {1})
  <2> DEFINE D == K(Tail(s))  R == K(s) \ {1}
  <2>1. ExistsBijection(D, R)
    BY <1>4 DEF ExistsBijection
  <2>2. IsFiniteSet(D)
    BY <1>3
  <2> HIDE DEF D, R
  <2>3. Cardinality(R) = Cardinality(D)
    BY <2>1, <2>2, FS_Bijection
  <2> QED
    BY <2>3 DEF D, R
<1>6. CASE s[1].m = kind
  <2>1. 1 \in K(s)
    BY <1>1, <1>6
  <2> HIDE DEF K
  <2> QED
    BY <1>0, <1>1, <1>2, <1>5, <1>6, <2>1, FS_RemoveElement 
<1>7. CASE s[1].m # kind
  <2>1. K(s) \ {1} = K(s)
    BY <1>1, <1>7
  <2>2. Cardinality(K(Tail(s))) = Cardinality(K(s))
    BY <1>5, <2>1
  <2> HIDE DEF K
  <2> QED
    BY <1>0, <1>1, <1>2, <1>7, <2>2 
<1> QED
  BY <1>6, <1>7

(* A connection without messages of a kind has none of them on the way.     *)
LEMMA NoneOnTheWay ==
  ASSUME NEW s, NEW kind, \A k \in DOMAIN s : s[k].m # kind
  PROVE  OnTheWay(s, kind) = 0
<1>1. {k \in DOMAIN s : s[k].m = kind} = {}
  OBVIOUS
<1> QED
  BY <1>1, FS_EmptySet DEF OnTheWay

(* What the variables of a session are. *)
LEMMA SessionIs ==
  ASSUME SessionTyped
  PROVE  /\ up \in Seq(UpMessage) /\ down \in Seq(DownMessage)
         /\ src.buf \in Seq(Nat) /\ dst.buf \in Seq(Nat)
         /\ src.reqs \in 0..ReqCap /\ dst.reqs \in 0..ReqCap
         /\ src.eof \in BOOLEAN /\ dst.eof \in BOOLEAN /\ src.closed \in BOOLEAN /\ dst.closed \in BOOLEAN
         /\ cl.sent \in Nat /\ cl.asked \in Nat /\ cl.answered \in Nat /\ cl.got \in Nat
         /\ cl.heard \in Nat /\ cl.eof \in BOOLEAN /\ cl.closed \in BOOLEAN /\ cl.err \in Nat
         /\ tg.sent \in Nat /\ tg.asked \in Nat /\ tg.answered \in Nat /\ tg.got \in Nat
         /\ tg.heard \in Nat /\ tg.eof \in BOOLEAN /\ tg.closed \in BOOLEAN /\ tg.err \in Nat
         /\ copyIn.at \in {"read", "write", "done"} /\ copyIn.hold \in Nat
         /\ copyOut.at \in {"read", "write", "done"} /\ copyOut.hold \in Nat
         /\ InHand(copyIn) \in Nat /\ InHand(copyOut) \in Nat /\ src.reqs \in Nat /\ dst.reqs \in Nat
         /\ Len(src.buf) \in Nat /\ Len(dst.buf) \in Nat /\ ReqCap \in Nat
<1>1. up \in Seq(UpMessage) /\ down \in Seq(DownMessage)
  BY DEF SessionTyped
<1>2. /\ src.buf \in Seq(Nat) /\ dst.buf \in Seq(Nat)
      /\ src.reqs \in 0..ReqCap /\ dst.reqs \in 0..ReqCap
      /\ src.eof \in BOOLEAN /\ dst.eof \in BOOLEAN /\ src.closed \in BOOLEAN /\ dst.closed \in BOOLEAN
  BY DEF SessionTyped, RouterEnd
<1>3. /\ cl.sent \in Nat /\ cl.asked \in Nat /\ cl.answered \in Nat /\ cl.got \in Nat
      /\ cl.heard \in Nat /\ cl.eof \in BOOLEAN /\ cl.closed \in BOOLEAN /\ cl.err \in Nat
      /\ tg.sent \in Nat /\ tg.asked \in Nat /\ tg.answered \in Nat /\ tg.got \in Nat
      /\ tg.heard \in Nat /\ tg.eof \in BOOLEAN /\ tg.closed \in BOOLEAN /\ tg.err \in Nat
  BY DEF SessionTyped, PeerState
<1>4. /\ copyIn.at \in {"read", "write", "done"} /\ copyIn.hold \in Nat
      /\ copyOut.at \in {"read", "write", "done"} /\ copyOut.hold \in Nat
  BY DEF SessionTyped, Copier
<1>5. ReqCap \in Nat
  BY SshAssumption
<1>6. Len(src.buf) \in Nat /\ Len(dst.buf) \in Nat
  BY <1>2
<1>7. InHand(copyIn) \in Nat /\ InHand(copyOut) \in Nat
  BY DEF InHand
<1>8. src.reqs \in Nat /\ dst.reqs \in Nat
  BY <1>2, <1>5
<1> QED
  BY <1>1, <1>2, <1>3, <1>4, <1>5, <1>6, <1>7, <1>8

(* More input is on the way. *)
LEMMA MoreInput ==
  ASSUME SessionTyped, InputCounted, UNCHANGED <<tg, src, copyIn>>, NEW d \in Nat, OnTheWay(up, "in") \in Nat,
         cl'.sent = cl.sent + d, OnTheWay(up', "in") = OnTheWay(up, "in") + d
  PROVE  InputCounted'
<1> DEFINE b == tg.got + InHand(copyIn) + Len(src.buf)
           n == OnTheWay(up, "in")
<1>1. b \in Nat /\ cl.sent \in Nat
  <2>1. tg.got \in Nat /\ InHand(copyIn) \in Nat /\ Len(src.buf) \in Nat /\ cl.sent \in Nat
    BY SessionIs
  <2> QED
    BY <2>1
<1>2. b + n <= cl.sent
  BY DEF InputCounted
<1>3. b' = b
  OBVIOUS
<1>4. n' = n + d /\ n \in Nat /\ cl'.sent = cl.sent + d
  OBVIOUS
<1>5. InputCounted' <=> b' + n' <= cl'.sent
  BY DEF InputCounted
<1> HIDE DEF b, n
<1>6. b + (n + d) <= cl.sent + d
  BY <1>1, <1>2, <1>4
<1> QED
  BY <1>3, <1>4, <1>5, <1>6

(* More output is on the way. *)
LEMMA MoreOutput ==
  ASSUME SessionTyped, OutputCounted, UNCHANGED <<cl, src, dst, copyOut>>, NEW d \in Nat,
         OnTheWay(down, "out") \in Nat,
         tg'.sent = tg.sent + d, OnTheWay(down', "out") = OnTheWay(down, "out") + d
  PROVE  OutputCounted'
<1> DEFINE b == cl.got + InHand(copyOut) + Len(dst.buf)
           n == OnTheWay(down, "out")
<1>1. b \in Nat /\ tg.sent \in Nat
  <2>1. cl.got \in Nat /\ InHand(copyOut) \in Nat /\ Len(dst.buf) \in Nat /\ tg.sent \in Nat
    BY SessionIs
  <2> QED
    BY <2>1
<1>2. b + n <= tg.sent /\ (~src.closed => b + n = tg.sent)
  BY DEF OutputCounted
<1>3. b' = b /\ src'.closed = src.closed
  OBVIOUS
<1>4. n' = n + d /\ n \in Nat /\ tg'.sent = tg.sent + d
  OBVIOUS
<1>5. OutputCounted' <=> b' + n' <= tg'.sent /\ (~src'.closed => b' + n' = tg'.sent)
  BY DEF OutputCounted
<1> HIDE DEF b, n
<1>6. b + (n + d) <= tg.sent + d /\ (~src.closed => b + (n + d) = tg.sent + d)
  BY <1>1, <1>2, <1>4
<1> QED
  BY <1>3, <1>4, <1>5, <1>6

(* The client sends. *)
LEMMA SendUp ==
  ASSUME SessionIInv, NEW x \in UpMessage, up' = Append(up, x), cl' \in PeerState,
         UNCHANGED <<chan, down, tg, src, dst, copyIn, copyOut, askIn, askOut>>,
         cl'.asked = cl.asked + (IF x.m = "req" THEN 1 ELSE 0),
         cl'.sent = cl.sent + (IF x.m = "in" THEN 1 ELSE 0),
         cl'.got = cl.got, cl'.heard = cl.heard, cl'.answered = cl.answered,
         x.m \in {"eof", "close"} => cl'.eof, cl.eof => cl'.eof, x.n <= cl.answered
  PROVE  SessionIInv'
<1>1. SessionTyped /\ up \in Seq(UpMessage)
  BY DEF SessionIInv, SessionTyped
<1>2. /\ up' \in Seq(UpMessage) /\ DOMAIN up = 1..Len(up) /\ Len(up) \in Nat
      /\ DOMAIN up' = 1..(Len(up) + 1)
      /\ \A k \in 1..Len(up) : up'[k] = up[k]
      /\ up'[Len(up) + 1] = x
  BY <1>1, AppendAt
<1>3. /\ OnTheWay(up', "req") = OnTheWay(up, "req") + (IF x.m = "req" THEN 1 ELSE 0)
      /\ OnTheWay(up', "in") = OnTheWay(up, "in") + (IF x.m = "in" THEN 1 ELSE 0)
      /\ OnTheWay(up, "req") \in Nat /\ OnTheWay(up, "in") \in Nat
  BY <1>1, SentOnTheWay
<1>4. \A k \in DOMAIN up' : k \in DOMAIN up \/ k = Len(up) + 1
  BY <1>2
<1>5. SessionTyped' /\ Answered' /\ RequestsDown' /\ OutputCounted' /\ OutputEnds' /\ ClosedDone'
  <2>1. SessionTyped'
    BY <1>1, <1>2 DEF SessionTyped
  <2>2. Answered' /\ RequestsDown'
    BY DEF SessionIInv, Answered, RequestsDown
  <2>3. OutputCounted'
    BY DEF SessionIInv, OutputCounted
  <2>4. OutputEnds' /\ ClosedDone'
    BY DEF SessionIInv, OutputEnds, ClosedDone, CopiesDone
  <2> QED
    BY <2>1, <2>2, <2>3, <2>4
<1>6. RequestsUp'
  <2>1. RequestsUp /\ cl.asked \in Nat /\ tg.heard \in Nat /\ src.reqs \in Nat /\ tg' = tg /\ src' = src
    BY <1>1, SessionIs DEF SessionIInv
  <2> QED
    BY <1>3, <2>1 DEF RequestsUp
<1>7. InputCounted'
  <2>1. InputCounted /\ OnTheWay(up, "in") \in Nat /\ UNCHANGED <<tg, src, copyIn>>
    BY <1>3 DEF SessionIInv
  <2>2. PICK d \in Nat : cl'.sent = cl.sent + d /\ OnTheWay(up', "in") = OnTheWay(up, "in") + d
    BY <1>3
  <2> QED
    BY <1>1, <2>1, <2>2, MoreInput
<1>8. InputEnds'
  <2>1. cl.sent \in Nat /\ tg.got \in Nat
    BY <1>1, SessionIs
  <2>2. \A i \in DOMAIN up' : up'[i].m \in {"eof", "close"} => cl'.eof
    BY <1>2, <1>4 DEF SessionIInv, InputEnds
  <2>3. tg.got < cl.sent => tg.got < cl'.sent
    BY <2>1
  <2> QED
    BY <2>2, <2>3 DEF SessionIInv, InputEnds
<1>9. InputMarked'
  BY <1>2, <1>4 DEF SessionIInv, InputMarked
<1> QED
  BY <1>5, <1>6, <1>7, <1>8, <1>9 DEF SessionIInv

(* The target sends. *)
LEMMA SendDown ==
  ASSUME SessionIInv, NEW x \in DownMessage, down' = Append(down, x), tg' \in PeerState,
         UNCHANGED <<chan, up, cl, src, dst, copyIn, copyOut, askIn, askOut>>,
         tg'.asked = tg.asked + (IF x.m = "req" THEN 1 ELSE 0),
         tg'.sent = tg.sent + (IF x.m = "out" THEN 1 ELSE 0),
         tg'.got = tg.got, tg'.heard = tg.heard, tg'.answered = tg.answered,
         x.m \in {"eof", "close"} => tg'.eof, tg.eof => tg'.eof, x.m = "out" => ~tg.eof
  PROVE  SessionIInv'
<1>1. SessionTyped /\ down \in Seq(DownMessage)
  BY DEF SessionIInv, SessionTyped
<1>2. /\ down' \in Seq(DownMessage) /\ DOMAIN down = 1..Len(down) /\ Len(down) \in Nat
      /\ DOMAIN down' = 1..(Len(down) + 1)
      /\ \A k \in 1..Len(down) : down'[k] = down[k]
      /\ down'[Len(down) + 1] = x
  BY <1>1, AppendAt
<1>3. /\ OnTheWay(down', "req") = OnTheWay(down, "req") + (IF x.m = "req" THEN 1 ELSE 0)
      /\ OnTheWay(down', "out") = OnTheWay(down, "out") + (IF x.m = "out" THEN 1 ELSE 0)
      /\ OnTheWay(down, "req") \in Nat /\ OnTheWay(down, "out") \in Nat
  BY <1>1, SentOnTheWay
<1>4. \A k \in DOMAIN down' : k \in DOMAIN down \/ k = Len(down) + 1
  BY <1>2
<1>5. SessionTyped' /\ Answered' /\ RequestsUp' /\ InputCounted' /\ InputEnds' /\ ClosedDone' /\ InputMarked'
  <2>1. SessionTyped'
    BY <1>1, <1>2 DEF SessionTyped
  <2>2. Answered' /\ RequestsUp'
    BY DEF SessionIInv, Answered, RequestsUp
  <2>3. InputCounted' /\ InputMarked'
    BY DEF SessionIInv, InputCounted, InputMarked
  <2>4. InputEnds' /\ ClosedDone'
    BY DEF SessionIInv, InputEnds, ClosedDone, CopiesDone
  <2> QED
    BY <2>1, <2>2, <2>3, <2>4
<1>6. RequestsDown'
  <2>1. RequestsDown /\ tg.asked \in Nat /\ cl.heard \in Nat /\ dst.reqs \in Nat /\ cl' = cl /\ dst' = dst
    BY <1>1, SessionIs DEF SessionIInv
  <2> QED
    BY <1>3, <2>1 DEF RequestsDown
<1>7. OutputCounted'
  <2>1. OutputCounted /\ OnTheWay(down, "out") \in Nat /\ UNCHANGED <<cl, src, dst, copyOut>>
    BY <1>3 DEF SessionIInv
  <2>2. PICK d \in Nat : tg'.sent = tg.sent + d /\ OnTheWay(down', "out") = OnTheWay(down, "out") + d
    BY <1>3
  <2> QED
    BY <1>1, <2>1, <2>2, MoreOutput
<1>8. OutputEnds'
  <2>1. \A i, j \in DOMAIN down' : i < j /\ down'[i].m \in {"eof", "close"} => down'[j].m # "out"
    <3> SUFFICES ASSUME NEW i \in DOMAIN down', NEW j \in DOMAIN down', i < j,
                        down'[i].m \in {"eof", "close"}
                 PROVE  down'[j].m # "out"
      OBVIOUS
    <3>1. i \in DOMAIN down /\ down'[i] = down[i]
      BY <1>2
    <3>2. tg.eof
      BY <3>1 DEF SessionIInv, OutputEnds
    <3> QED
      BY <1>2, <1>4, <3>1, <3>2 DEF SessionIInv, OutputEnds
  <2>2. \A i \in DOMAIN down' : dst.eof => down'[i].m # "out"
    BY <1>2, <1>4 DEF SessionIInv, OutputEnds
  <2>3. \A i \in DOMAIN down' : down'[i].m \in {"eof", "close"} => tg'.eof
    BY <1>2, <1>4 DEF SessionIInv, OutputEnds
  <2> QED
    BY <2>1, <2>2, <2>3 DEF SessionIInv, OutputEnds
<1> QED
  BY <1>5, <1>6, <1>7, <1>8 DEF SessionIInv

(* A peer counts one more. *)
LEMMA PeerPlus ==
  ASSUME NEW p \in PeerState
  PROVE  /\ [p EXCEPT !.asked = @ + 1] \in PeerState
         /\ [p EXCEPT !.sent = @ + 1] \in PeerState
         /\ [p EXCEPT !.err = @ + 1] \in PeerState
         /\ [p EXCEPT !.got = @ + 1] \in PeerState
         /\ [p EXCEPT !.heard = @ + 1] \in PeerState
         /\ [p EXCEPT !.answered = @ + 1] \in PeerState
  BY DEF PeerState

(* The client asks, sends and ends its input.                               *)
LEMMA ClientKeeps ==
  ASSUME SessionIInv, Ask \/ Input \/ \E what \in {"eof", "close"} : ClientEnds(what)
  PROVE  SessionIInv'
<1>1. SessionTyped /\ cl \in PeerState
  BY DEF SessionIInv, SessionTyped
<1>2. cl.asked \in Nat /\ cl.sent \in Nat /\ cl.answered \in Nat
  BY <1>1, SessionIs
<1>3. CASE Ask
  <2>1. Msg("req") \in UpMessage /\ Msg("req").m = "req" /\ Msg("req").n = 0
    BY DEF Msg, UpMessage, Message
  <2>2. /\ cl' = [cl EXCEPT !.asked = @ + 1] /\ up' = Append(up, Msg("req"))
        /\ UNCHANGED <<chan, down, tg, src, dst, copyIn, copyOut, askIn, askOut>>
    BY <1>3 DEF Ask
  <2>3. /\ cl' \in PeerState /\ cl'.asked = cl.asked + 1 /\ cl'.sent = cl.sent /\ cl'.got = cl.got
        /\ cl'.heard = cl.heard /\ cl'.answered = cl.answered /\ cl'.eof = cl.eof
    BY <1>1, <2>2, PeerPlus DEF PeerState
  <2>4. Msg("req").n <= cl.answered
    BY <1>2, <2>1
  <2> QED
    BY <1>2, <2>1, <2>2, <2>3, <2>4, SendUp
<1>4. CASE Input
  <2> DEFINE x == [m |-> "in", n |-> IF cl.asked = cl.answered THEN cl.asked ELSE 0]
  <2>1. x \in UpMessage /\ x.m = "in" /\ x.n <= cl.answered
    BY <1>2 DEF UpMessage, Message
  <2>2. /\ up' = Append(up, x) /\ cl' = [cl EXCEPT !.sent = @ + 1]
        /\ UNCHANGED <<chan, down, tg, src, dst, copyIn, copyOut, askIn, askOut>>
    BY <1>4 DEF Input
  <2> HIDE DEF x
  <2>3. /\ cl' \in PeerState /\ cl'.asked = cl.asked /\ cl'.sent = cl.sent + 1 /\ cl'.got = cl.got
        /\ cl'.heard = cl.heard /\ cl'.answered = cl.answered /\ cl'.eof = cl.eof
    BY <1>1, <2>2, PeerPlus DEF PeerState
  <2> QED
    BY <1>2, <2>1, <2>2, <2>3, SendUp
<1>5. ASSUME NEW what \in {"eof", "close"}, ClientEnds(what)
      PROVE  SessionIInv'
  <2>1. Msg(what) \in UpMessage /\ Msg(what).m = what /\ Msg(what).n = 0
    BY DEF Msg, UpMessage, Message
  <2>2. /\ up' = Append(up, Msg(what)) /\ cl' = [cl EXCEPT !.eof = TRUE, !.closed = (what = "close")]
        /\ UNCHANGED <<chan, down, tg, src, dst, copyIn, copyOut, askIn, askOut>>
    BY <1>5 DEF ClientEnds
  <2>3. /\ cl' \in PeerState /\ cl'.asked = cl.asked /\ cl'.sent = cl.sent /\ cl'.got = cl.got
        /\ cl'.heard = cl.heard /\ cl'.answered = cl.answered /\ cl'.eof = TRUE
    BY <1>1, <2>2 DEF PeerState
  <2>4. Msg(what).n <= cl.answered
    BY <1>2, <2>1
  <2> QED
    BY <1>2, <2>1, <2>2, <2>3, <2>4, SendUp
<1> QED
  BY <1>3, <1>4, <1>5

(* The target writes, exits and closes.                                     *)
LEMMA TargetKeeps ==
  ASSUME SessionIInv,
         \/ Exit \/ \E what \in {"eof", "close"} : TargetEnds(what)
         \/ \E what \in {"out", "err"} : Output(what)
  PROVE  SessionIInv'
<1>1. SessionTyped /\ tg \in PeerState
  BY DEF SessionIInv, SessionTyped
<1>2. tg.asked \in Nat /\ tg.sent \in Nat
  BY <1>1, SessionIs
<1>3. ASSUME NEW what \in {"eof", "close"}, TargetEnds(what)
      PROVE  SessionIInv'
  <2>1. Msg(what) \in DownMessage /\ Msg(what).m = what
    BY DEF Msg, DownMessage, Message
  <2>2. /\ down' = Append(down, Msg(what)) /\ tg' = [tg EXCEPT !.eof = TRUE, !.closed = (what = "close")]
        /\ UNCHANGED <<chan, up, cl, src, dst, copyIn, copyOut, askIn, askOut>>
    BY <1>3 DEF TargetEnds
  <2>3. /\ tg' \in PeerState /\ tg'.asked = tg.asked /\ tg'.sent = tg.sent /\ tg'.got = tg.got
        /\ tg'.heard = tg.heard /\ tg'.answered = tg.answered /\ tg'.eof = TRUE
    BY <1>1, <2>2 DEF PeerState
  <2> QED
    BY <1>2, <2>1, <2>2, <2>3, SendDown
<1>4. ASSUME NEW what \in {"out", "err"}, Output(what)
      PROVE  SessionIInv'
  <2>1. Msg(what) \in DownMessage /\ Msg(what).m = what
    BY DEF Msg, DownMessage, Message
  <2>2. /\ down' = Append(down, Msg(what)) /\ ~tg.eof
        /\ tg' = IF what = "out" THEN [tg EXCEPT !.sent = @ + 1] ELSE [tg EXCEPT !.err = @ + 1]
        /\ UNCHANGED <<chan, up, cl, src, dst, copyIn, copyOut, askIn, askOut>>
    BY <1>4 DEF Output
  <2>3. /\ tg' \in PeerState /\ tg'.asked = tg.asked /\ tg'.sent = tg.sent + (IF what = "out" THEN 1 ELSE 0)
        /\ tg'.got = tg.got /\ tg'.heard = tg.heard /\ tg'.answered = tg.answered /\ tg'.eof = tg.eof
    <3>1. CASE what = "out"
      BY <1>1, <2>2, <3>1, PeerPlus DEF PeerState
    <3>2. CASE what = "err"
      <4>1. tg' = [tg EXCEPT !.err = @ + 1]
        BY <2>2, <3>2
      <4> QED
        BY <1>1, <1>2, <3>2, <4>1, PeerPlus DEF PeerState
    <3> QED
      BY <3>1, <3>2
  <2> QED
    BY <1>2, <2>1, <2>2, <2>3, SendDown
<1>5. CASE Exit
  <2>1. Msg("req") \in DownMessage /\ Msg("req").m = "req"
    BY DEF Msg, DownMessage, Message
  <2>2. /\ down' = Append(down, Msg("req")) /\ tg' = [tg EXCEPT !.asked = 1] /\ tg.asked = 0
        /\ UNCHANGED <<chan, up, cl, src, dst, copyIn, copyOut, askIn, askOut>>
    BY <1>5 DEF Exit
  <2>3. /\ tg' \in PeerState /\ tg'.asked = tg.asked + 1 /\ tg'.sent = tg.sent /\ tg'.got = tg.got
        /\ tg'.heard = tg.heard /\ tg'.answered = tg.answered /\ tg'.eof = tg.eof
    BY <1>1, <2>2 DEF PeerState
  <2> QED
    BY <1>2, <2>1, <2>2, <2>3, SendDown
<1> QED
  BY <1>3, <1>4, <1>5

(* The target answers the oldest request.                                   *)
LEMMA AnswerKeeps ==
  ASSUME SessionIInv, Answer
  PROVE  SessionIInv'
<1>1. SessionTyped /\ tg \in PeerState
  BY DEF SessionIInv, SessionTyped
<1>2. /\ tg.answered < tg.heard /\ tg' = [tg EXCEPT !.answered = @ + 1]
      /\ UNCHANGED <<chan, up, down, cl, src, dst, copyIn, copyOut, askIn, askOut>>
  BY DEF Answer
<1>3. /\ tg' \in PeerState /\ tg'.asked = tg.asked /\ tg'.sent = tg.sent /\ tg'.got = tg.got
      /\ tg'.heard = tg.heard /\ tg'.answered = tg.answered + 1 /\ tg'.eof = tg.eof
  BY <1>1, <1>2, PeerPlus DEF PeerState
<1>4. SessionTyped'
  BY <1>1, <1>2, <1>3 DEF SessionTyped
<1>5. RequestsUp' /\ RequestsDown' /\ InputCounted' /\ OutputCounted' /\ InputMarked'
  BY <1>2, <1>3 DEF SessionIInv, RequestsUp, RequestsDown, InputCounted, OutputCounted, InputMarked
<1>6. InputEnds' /\ OutputEnds' /\ ClosedDone'
  BY <1>2, <1>3 DEF SessionIInv, InputEnds, OutputEnds, ClosedDone, CopiesDone
<1>7. Answered'
  <2>1. Answered /\ tg.answered \in Nat /\ tg.heard \in Nat /\ cl.answered \in Nat /\ cl' = cl /\ askIn' = askIn
    BY <1>1, <1>2, SessionIs DEF SessionIInv
  <2> QED
    BY <1>2, <1>3, <2>1 DEF Answered
<1> QED
  BY <1>4, <1>5, <1>6, <1>7 DEF SessionIInv

(* The library's loop takes a message apart. *)
LEMMA TakeIs ==
  ASSUME NEW e \in RouterEnd, NEW x \in Message({"req", "in", "out", "err", "eof", "close"}), Room(e, x)
  PROVE  LET t == Take(e, x) IN
         /\ t \in RouterEnd
         /\ t.reqs = e.reqs + (IF x.m = "req" THEN 1 ELSE 0)
         /\ t.buf = IF x.m \in {"in", "out"} THEN Append(e.buf, x.n) ELSE e.buf
         /\ t.eof <=> e.eof \/ x.m \in {"eof", "close"}
         /\ t.closed <=> e.closed \/ x.m = "close"
<1>1. x.m \in {"req", "in", "out", "err", "eof", "close"} /\ x.n \in Nat
  BY DEF Message
<1>2. e.reqs \in 0..ReqCap /\ e.buf \in Seq(Nat) /\ e.eof \in BOOLEAN /\ e.closed \in BOOLEAN /\ ReqCap \in Nat
  BY SshAssumption DEF RouterEnd
<1>3. Append(e.buf, x.n) \in Seq(Nat)
  BY <1>1, <1>2
<1>4. CASE x.m = "req"
  <2>1. e.reqs + 1 \in 0..ReqCap
    BY <1>2, <1>4 DEF Room
  <2>2. Take(e, x) = [e EXCEPT !.reqs = @ + 1]
    BY <1>4 DEF Take
  <2> QED
    BY <1>2, <1>4, <2>1, <2>2 DEF RouterEnd
<1>5. CASE x.m = "err"
  <2>1. Take(e, x) = e
    BY <1>5 DEF Take
  <2> QED
    BY <1>2, <1>5, <2>1
<1>6. CASE x.m = "eof"
  <2>1. Take(e, x) = [e EXCEPT !.eof = TRUE]
    BY <1>6 DEF Take
  <2>2. /\ Take(e, x) \in RouterEnd /\ Take(e, x).reqs = e.reqs /\ Take(e, x).buf = e.buf
        /\ Take(e, x).eof = TRUE /\ Take(e, x).closed = e.closed
    BY <2>1 DEF RouterEnd
  <2> QED
    BY <1>2, <1>6, <2>2
<1>7. CASE x.m = "close"
  <2>1. Take(e, x) = [e EXCEPT !.eof = TRUE, !.closed = TRUE]
    BY <1>7 DEF Take
  <2>2. /\ Take(e, x) \in RouterEnd /\ Take(e, x).reqs = e.reqs /\ Take(e, x).buf = e.buf
        /\ Take(e, x).eof = TRUE /\ Take(e, x).closed = TRUE
    BY <2>1 DEF RouterEnd
  <2> QED
    BY <1>2, <1>7, <2>2
<1>8. CASE x.m \in {"in", "out"}
  <2>1. Take(e, x) = [e EXCEPT !.buf = Append(@, x.n)]
    BY <1>8 DEF Take
  <2>2. /\ Take(e, x) \in RouterEnd /\ Take(e, x).reqs = e.reqs
        /\ Take(e, x).buf = Append(e.buf, x.n)
        /\ Take(e, x).eof = e.eof /\ Take(e, x).closed = e.closed
    <3> DEFINE longer == Append(e.buf, x.n)
    <3>1. longer \in Seq(Nat) /\ Take(e, x) = [e EXCEPT !.buf = longer]
      BY <1>3, <2>1
    <3> HIDE DEF longer
    <3>2. /\ Take(e, x) \in RouterEnd /\ Take(e, x).reqs = e.reqs /\ Take(e, x).buf = longer
          /\ Take(e, x).eof = e.eof /\ Take(e, x).closed = e.closed
      BY <3>1 DEF RouterEnd
    <3> QED
      BY <3>2 DEF longer
  <2> QED
    BY <1>2, <1>8, <2>2
<1> QED
  BY <1>1, <1>4, <1>5, <1>6, <1>7, <1>8

(* A message of one direction is taken: what is requested or sent stays     *)
(* counted.                                                                 *)
LEMMA TakenCounted ==
  ASSUME NEW S, NEW s \in Seq(S), s # <<>>, S \subseteq Message({"req", "in", "out", "err", "eof", "close"}),
         NEW e \in RouterEnd, Room(e, Head(s)), NEW kind \in {"in", "out"},
         \A x \in S : x.m \in {"in", "out"} => x.m = kind
  PROVE  LET t == Take(e, Head(s)) IN
         /\ t.reqs + OnTheWay(Tail(s), "req") = e.reqs + OnTheWay(s, "req")
         /\ Len(t.buf) + OnTheWay(Tail(s), kind) = Len(e.buf) + OnTheWay(s, kind)
         /\ OnTheWay(s, "req") \in Nat /\ OnTheWay(Tail(s), "req") \in Nat
         /\ OnTheWay(s, kind) \in Nat /\ OnTheWay(Tail(s), kind) \in Nat
<1> DEFINE x == Head(s)
           t == Take(e, x)
<1>1. x \in S /\ x \in Message({"req", "in", "out", "err", "eof", "close"}) /\ Tail(s) \in Seq(S)
  BY TailAt
<1>2. /\ t.reqs = e.reqs + (IF x.m = "req" THEN 1 ELSE 0)
      /\ t.buf = IF x.m \in {"in", "out"} THEN Append(e.buf, x.n) ELSE e.buf
  BY <1>1, TakeIs
<1>3. /\ OnTheWay(s, "req") \in Nat
      /\ OnTheWay(Tail(s), "req") = OnTheWay(s, "req") - (IF x.m = "req" THEN 1 ELSE 0)
      /\ OnTheWay(s, kind) \in Nat
      /\ OnTheWay(Tail(s), kind) = OnTheWay(s, kind) - (IF x.m = kind THEN 1 ELSE 0)
  BY TakenFromTheWay
<1>4. OnTheWay(Tail(s), "req") \in Nat /\ OnTheWay(Tail(s), kind) \in Nat
  <2>1. CASE Tail(s) = <<>>
    <3> DEFINE r == Tail(s)
    <3>1. (\A k \in DOMAIN r : r[k].m # "req") /\ (\A k \in DOMAIN r : r[k].m # kind)
      BY <2>1
    <3> HIDE DEF r
    <3>2. OnTheWay(r, "req") = 0 /\ OnTheWay(r, kind) = 0
      BY <3>1, NoneOnTheWay
    <3> QED
      BY <3>2 DEF r
  <2>2. CASE Tail(s) # <<>>
    BY <1>1, <2>2, TakenFromTheWay
  <2> QED
    BY <2>1, <2>2
<1>5. e.reqs \in Nat /\ e.buf \in Seq(Nat) /\ x.n \in Nat /\ Len(e.buf) \in Nat
  <2>1. e.reqs \in 0..ReqCap /\ e.buf \in Seq(Nat) /\ ReqCap \in Nat
    BY SshAssumption DEF RouterEnd
  <2> QED
    BY <1>1, <2>1 DEF Message
<1>6. \/ x.m = kind /\ Len(t.buf) = Len(e.buf) + 1
      \/ x.m # kind /\ Len(t.buf) = Len(e.buf)
  <2>1. x.m \in {"in", "out"} <=> x.m = kind
    BY <1>1
  <2>2. Len(Append(e.buf, x.n)) = Len(e.buf) + 1
    BY <1>5, AppendAt
  <2>3. CASE x.m = kind
    BY <1>2, <2>1, <2>2, <2>3
  <2>4. CASE x.m # kind
    BY <1>2, <2>1, <2>4
  <2> QED
    BY <2>3, <2>4
<1> HIDE DEF t, x
<1>7. t.reqs + OnTheWay(Tail(s), "req") = e.reqs + OnTheWay(s, "req")
  BY <1>2, <1>3, <1>5
<1>8. Len(t.buf) + OnTheWay(Tail(s), kind) = Len(e.buf) + OnTheWay(s, kind)
  <2>1. CASE x.m = kind
    BY <1>3, <1>5, <1>6, <2>1
  <2>2. CASE x.m # kind
    BY <1>3, <1>5, <1>6, <2>2
  <2> QED
    BY <2>1, <2>2
<1> QED
  BY <1>3, <1>4, <1>7, <1>8 DEF t, x

(* What is taken is not counted twice. *)
LEMMA SumKept ==
  ASSUME NEW a \in Nat, NEW b \in Nat, NEW c \in Nat, NEW b2 \in Nat, NEW c2 \in Nat, b2 + c2 = b + c
  PROVE  a + b2 + c2 = a + b + c
  OBVIOUS

(* The router's connection to the client takes what has arrived.            *)
LEMMA MuxUpKeeps ==
  ASSUME SessionIInv, MuxUp
  PROVE  SessionIInv'
<1> DEFINE x == Head(up)
<1>1. /\ up # <<>> /\ Room(src, x) /\ src' = Take(src, x) /\ up' = Tail(up)
      /\ UNCHANGED <<chan, down, cl, tg, dst, copyIn, copyOut, askIn, askOut>>
  BY DEF MuxUp
<1>2. SessionTyped /\ up \in Seq(UpMessage) /\ src \in RouterEnd
  BY DEF SessionIInv, SessionTyped
<1>3. UpMessage \subseteq Message({"req", "in", "out", "err", "eof", "close"})
      /\ \A m \in UpMessage : m.m \in {"in", "out"} => m.m = "in"
  BY DEF UpMessage, Message
<1>4. /\ x = up[1] /\ x \in UpMessage /\ 1 \in DOMAIN up /\ up' \in Seq(UpMessage)
      /\ \A k \in DOMAIN up' : k + 1 \in DOMAIN up /\ up'[k] = up[k + 1]
  BY <1>1, <1>2, TailAt
<1>5. /\ src' \in RouterEnd
      /\ src'.buf = IF x.m \in {"in", "out"} THEN Append(src.buf, x.n) ELSE src.buf
      /\ (src'.eof <=> src.eof \/ x.m \in {"eof", "close"})
      /\ (src'.closed <=> src.closed \/ x.m = "close")
  <2>1. x \in Message({"req", "in", "out", "err", "eof", "close"})
    BY <1>3, <1>4
  <2> QED
    BY <1>1, <1>2, <2>1, TakeIs
<1>6. /\ src'.reqs + OnTheWay(up', "req") = src.reqs + OnTheWay(up, "req")
      /\ Len(src'.buf) + OnTheWay(up', "in") = Len(src.buf) + OnTheWay(up, "in")
      /\ OnTheWay(up, "req") \in Nat /\ OnTheWay(up', "req") \in Nat
      /\ OnTheWay(up, "in") \in Nat /\ OnTheWay(up', "in") \in Nat
  <2>1. \A m \in UpMessage : m.m \in {"in", "out"} => m.m = "in"
    BY <1>3
  <2>2. UpMessage \subseteq Message({"req", "in", "out", "err", "eof", "close"})
    BY <1>3
  <2> QED
    BY <1>1, <1>2, <2>1, <2>2, TakenCounted
<1> HIDE DEF x
<1>7. SessionTyped'
  BY <1>1, <1>2, <1>4, <1>5 DEF SessionTyped
<1>8. RequestsDown' /\ Answered' /\ ClosedDone'
  BY <1>1 DEF SessionIInv, RequestsDown, Answered, ClosedDone, CopiesDone
<1>9. RequestsUp'
  <2>1. /\ RequestsUp /\ tg.heard \in Nat /\ src.reqs \in Nat /\ src'.reqs \in Nat /\ cl.asked \in Nat
        /\ tg' = tg /\ cl' = cl
    BY <1>1, <1>2, <1>7, SessionIs DEF SessionIInv, SessionTyped, RouterEnd
  <2>2. tg.heard + src'.reqs + OnTheWay(up', "req") = tg.heard + src.reqs + OnTheWay(up, "req")
    BY <1>6, <2>1, SumKept, SMTT(30)
  <2> QED
    BY <2>1, <2>2 DEF RequestsUp
<1>10. InputCounted'
  <2>1. /\ InputCounted /\ tg.got \in Nat /\ Len(src.buf) \in Nat /\ cl.sent \in Nat
        /\ InHand(copyIn) \in Nat /\ tg' = tg /\ cl' = cl /\ copyIn' = copyIn
    BY <1>1, <1>2, SessionIs DEF SessionIInv
  <2>2. Len(src'.buf) \in Nat
    BY <1>5 DEF RouterEnd
  <2> DEFINE a == tg.got + InHand(copyIn)
  <2>3. a \in Nat
    BY <2>1
  <2> HIDE DEF a
  <2>5. /\ Len(src.buf) \in Nat /\ Len(src'.buf) \in Nat
        /\ OnTheWay(up, "in") \in Nat /\ OnTheWay(up', "in") \in Nat
        /\ Len(src'.buf) + OnTheWay(up', "in") = Len(src.buf) + OnTheWay(up, "in")
    BY <1>6, <2>1, <2>2
  <2>4. a + Len(src'.buf) + OnTheWay(up', "in") = a + Len(src.buf) + OnTheWay(up, "in")
    BY <2>3, <2>5, SumKept, SMTT(30)
  <2> QED
    BY <2>1, <2>4 DEF InputCounted, a
<1>11. OutputCounted'
  BY <1>1, <1>5 DEF SessionIInv, OutputCounted
<1>12. InputEnds'
  <2>1. x.m \in {"eof", "close"} => cl.eof
    BY <1>4 DEF SessionIInv, InputEnds
  <2>2. \A i \in DOMAIN up' : up'[i].m \in {"eof", "close"} => cl.eof
    BY <1>4 DEF SessionIInv, InputEnds
  <2> QED
    BY <1>1, <1>5, <2>1, <2>2 DEF SessionIInv, InputEnds
<1>13. OutputEnds'
  BY <1>1, <1>5 DEF SessionIInv, OutputEnds
<1>14. InputMarked'
  <2>1. x.n <= cl.answered /\ x.n \in Nat
    BY <1>4 DEF SessionIInv, InputMarked, UpMessage, Message
  <2>2. \A i \in DOMAIN up' : up'[i].n <= cl.answered
    BY <1>4 DEF SessionIInv, InputMarked
  <2>3. \A i \in DOMAIN src'.buf : src'.buf[i] <= cl.answered
    <3>1. \A i \in DOMAIN src.buf : src.buf[i] <= cl.answered
      BY DEF SessionIInv, InputMarked
    <3>2. src.buf \in Seq(Nat)
      BY <1>2 DEF RouterEnd
    <3>3. \A i \in DOMAIN Append(src.buf, x.n) : Append(src.buf, x.n)[i] <= cl.answered
      BY <2>1, <3>1, <3>2
    <3> QED
      BY <1>5, <3>1, <3>3
  <2> QED
    BY <1>1, <2>2, <2>3 DEF SessionIInv, InputMarked
<1> QED
  BY <1>7, <1>8, <1>9, <1>10, <1>11, <1>12, <1>13, <1>14 DEF SessionIInv

(* The router's connection to the target takes what has arrived.            *)
LEMMA MuxDownKeeps ==
  ASSUME SessionIInv, MuxDown
  PROVE  SessionIInv'
<1> DEFINE x == Head(down)
<1>1. /\ down # <<>> /\ Room(dst, x) /\ dst' = Take(dst, x) /\ down' = Tail(down)
      /\ UNCHANGED <<chan, up, cl, tg, src, copyIn, copyOut, askIn, askOut>>
  BY DEF MuxDown
<1>2. SessionTyped /\ down \in Seq(DownMessage) /\ dst \in RouterEnd
  BY DEF SessionIInv, SessionTyped
<1>3. DownMessage \subseteq Message({"req", "in", "out", "err", "eof", "close"})
      /\ \A m \in DownMessage : m.m \in {"in", "out"} => m.m = "out"
  BY DEF DownMessage, Message
<1>4. /\ x = down[1] /\ x \in DownMessage /\ 1 \in DOMAIN down /\ down' \in Seq(DownMessage)
      /\ \A k \in DOMAIN down' : k + 1 \in DOMAIN down /\ down'[k] = down[k + 1] /\ k \in Nat \ {0}
  BY <1>1, <1>2, TailAt
<1>5. /\ dst' \in RouterEnd
      /\ dst'.buf = IF x.m \in {"in", "out"} THEN Append(dst.buf, x.n) ELSE dst.buf
      /\ (dst'.eof <=> dst.eof \/ x.m \in {"eof", "close"})
      /\ (dst'.closed <=> dst.closed \/ x.m = "close")
  <2>1. x \in Message({"req", "in", "out", "err", "eof", "close"})
    BY <1>3, <1>4
  <2> QED
    BY <1>1, <1>2, <2>1, TakeIs
<1>6. /\ dst'.reqs + OnTheWay(down', "req") = dst.reqs + OnTheWay(down, "req")
      /\ Len(dst'.buf) + OnTheWay(down', "out") = Len(dst.buf) + OnTheWay(down, "out")
      /\ OnTheWay(down, "req") \in Nat /\ OnTheWay(down', "req") \in Nat
      /\ OnTheWay(down, "out") \in Nat /\ OnTheWay(down', "out") \in Nat
  <2>1. \A m \in DownMessage : m.m \in {"in", "out"} => m.m = "out"
    BY <1>3
  <2>2. DownMessage \subseteq Message({"req", "in", "out", "err", "eof", "close"})
    BY <1>3
  <2> QED
    BY <1>1, <1>2, <2>1, <2>2, TakenCounted
<1> HIDE DEF x
<1>7. SessionTyped'
  BY <1>1, <1>2, <1>4, <1>5 DEF SessionTyped
<1>8. RequestsUp' /\ Answered' /\ InputCounted' /\ ClosedDone' /\ InputMarked'
  BY <1>1 DEF SessionIInv, RequestsUp, Answered, InputCounted, ClosedDone, CopiesDone, InputMarked
<1>9. RequestsDown'
  <2>1. /\ RequestsDown /\ cl.heard \in Nat /\ dst.reqs \in Nat /\ dst'.reqs \in Nat /\ tg.asked \in Nat
        /\ tg' = tg /\ cl' = cl
    BY <1>1, <1>2, <1>7, SessionIs DEF SessionIInv, SessionTyped, RouterEnd
  <2>2. cl.heard + dst'.reqs + OnTheWay(down', "req") = cl.heard + dst.reqs + OnTheWay(down, "req")
    BY <1>6, <2>1, SumKept, SMTT(30)
  <2> QED
    BY <2>1, <2>2 DEF RequestsDown
<1>10. OutputCounted'
  <2>1. /\ OutputCounted /\ cl.got \in Nat /\ Len(dst.buf) \in Nat /\ tg.sent \in Nat
        /\ InHand(copyOut) \in Nat /\ tg' = tg /\ cl' = cl /\ src' = src /\ copyOut' = copyOut
    BY <1>1, <1>2, SessionIs DEF SessionIInv
  <2>2. Len(dst'.buf) \in Nat
    BY <1>5 DEF RouterEnd
  <2> DEFINE a == cl.got + InHand(copyOut)
  <2>3. a \in Nat
    BY <2>1
  <2> HIDE DEF a
  <2>5. /\ Len(dst.buf) \in Nat /\ Len(dst'.buf) \in Nat
        /\ OnTheWay(down, "out") \in Nat /\ OnTheWay(down', "out") \in Nat
        /\ Len(dst'.buf) + OnTheWay(down', "out") = Len(dst.buf) + OnTheWay(down, "out")
    BY <1>6, <2>1, <2>2
  <2>4. a + Len(dst'.buf) + OnTheWay(down', "out") = a + Len(dst.buf) + OnTheWay(down, "out")
    BY <2>3, <2>5, SumKept, SMTT(30)
  <2> QED
    BY <2>1, <2>4 DEF OutputCounted, a
<1>11. InputEnds'
  BY <1>1, <1>5 DEF SessionIInv, InputEnds
<1>12. OutputEnds'
  <2>1. x.m \in {"eof", "close"} => tg.eof /\ \A j \in DOMAIN down' : down'[j].m # "out"
    <3> SUFFICES ASSUME x.m \in {"eof", "close"}, NEW j \in DOMAIN down'
                 PROVE  down'[j].m # "out"
      BY <1>4 DEF SessionIInv, OutputEnds
    <3>1. 1 < j + 1 /\ j + 1 \in DOMAIN down /\ down'[j] = down[j + 1]
      BY <1>4
    <3> QED
      BY <1>4, <3>1 DEF SessionIInv, OutputEnds
  <2>2. \A i, j \in DOMAIN down' : i < j /\ down'[i].m \in {"eof", "close"} => down'[j].m # "out"
    <3> SUFFICES ASSUME NEW i \in DOMAIN down', NEW j \in DOMAIN down', i < j,
                        down'[i].m \in {"eof", "close"}
                 PROVE  down'[j].m # "out"
      OBVIOUS
    <3>1. /\ i + 1 < j + 1 /\ i + 1 \in DOMAIN down /\ j + 1 \in DOMAIN down
          /\ down'[i] = down[i + 1] /\ down'[j] = down[j + 1]
      BY <1>4
    <3> QED
      BY <3>1 DEF SessionIInv, OutputEnds
  <2>3. dst.eof => x.m # "out" /\ \A i \in DOMAIN down' : down'[i].m # "out"
    BY <1>4 DEF SessionIInv, OutputEnds
  <2>4. \A i \in DOMAIN down' : down'[i].m \in {"eof", "close"} => tg.eof
    BY <1>4 DEF SessionIInv, OutputEnds
  <2>5. copyOut.at = "done" => src.closed \/ (dst'.eof /\ dst'.buf = <<>>)
    <3>1. copyOut.at = "done" => src.closed \/ (dst.eof /\ dst.buf = <<>>)
      BY DEF SessionIInv, OutputEnds
    <3>2. dst.eof => x.m \notin {"in", "out"}
      BY <1>3, <1>4, <2>3
    <3> QED
      BY <1>5, <3>1, <3>2
  <2>6. dst.eof => tg.eof
    BY DEF SessionIInv, OutputEnds
  <2> QED
    BY <1>1, <1>5, <2>1, <2>2, <2>3, <2>4, <2>5, <2>6 DEF OutputEnds
<1> QED
  BY <1>7, <1>8, <1>9, <1>10, <1>11, <1>12 DEF SessionIInv

(* A unit moves from the buffer into the hand, and from there onwards. *)
LEMMA UnitMoves ==
  ASSUME NEW a \in Nat, NEW c \in Nat, NEW n \in Nat, NEW s \in Nat, NEW c2 \in Nat
  PROVE  /\ c = c2 + 1 => a + 1 + c2 + n = a + 0 + c + n
         /\ (a + 1) + 0 + c + n = a + 1 + c + n
         /\ a + 1 + c + n <= s => a < s /\ a + 0 + c + n <= s
  OBVIOUS

(* io.Copy moves on. *)
LEMMA InputMoves ==
  ASSUME SessionIInv, chan = "open", UNCHANGED <<chan, up, down, cl, dst, copyOut, askIn, askOut>>,
         tg' \in PeerState, src' \in RouterEnd, copyIn' \in Copier,
         tg'.heard = tg.heard, tg'.answered = tg.answered, tg'.asked = tg.asked,
         tg'.sent = tg.sent, tg'.eof = tg.eof,
         src'.reqs = src.reqs, src'.eof = src.eof, src'.closed = src.closed,
         copyIn'.hold <= cl.answered,
         \A i \in DOMAIN src'.buf : src'.buf[i] <= cl.answered,
         copyIn'.at = "done" => src.eof \/ (dst.closed /\ tg'.got < cl.sent),
         tg'.got + InHand(copyIn') + Len(src'.buf) + OnTheWay(up, "in") <= cl.sent
  PROVE  SessionIInv'
<1>1. SessionTyped'
  BY DEF SessionIInv, SessionTyped
<1>2. RequestsUp' /\ RequestsDown' /\ Answered'
  BY DEF SessionIInv, RequestsUp, RequestsDown, Answered
<1>3. InputCounted' /\ OutputCounted'
  BY DEF SessionIInv, InputCounted, OutputCounted
<1>4. InputEnds' /\ OutputEnds' /\ InputMarked' /\ ClosedDone'
  <2>1. InputEnds'
    BY DEF SessionIInv, InputEnds
  <2>2. OutputEnds'
    BY DEF SessionIInv, OutputEnds
  <2>3. InputMarked' /\ ClosedDone'
    BY DEF SessionIInv, InputMarked, ClosedDone
  <2> QED
    BY <2>1, <2>2, <2>3
<1> QED
  BY <1>1, <1>2, <1>3, <1>4 DEF SessionIInv

(* The messages of a kind on the way can be counted.                        *)
LEMMA OnTheWayNat ==
  ASSUME NEW S, NEW s \in Seq(S), NEW kind
  PROVE  OnTheWay(s, kind) \in Nat
<1>1. CASE s = <<>>
  <2>1. \A k \in DOMAIN s : s[k].m # kind
    BY <1>1
  <2> QED
    BY <2>1, NoneOnTheWay
<1>2. CASE s # <<>>
  BY <1>2, TakenFromTheWay
<1> QED
  BY <1>1, <1>2

(* io.Copy from the client to the target.                                   *)
LEMMA CopyInKeeps ==
  ASSUME SessionIInv, CopyIn
  PROVE  SessionIInv'
<1>1. /\ chan = "open" /\ UNCHANGED <<chan, up, down, cl, dst, copyOut, askIn, askOut>>
      /\ SessionTyped /\ src \in RouterEnd /\ tg \in PeerState /\ copyIn \in Copier
  BY DEF CopyIn, SessionIInv, SessionTyped
<1>2. /\ tg.got \in Nat /\ Len(src.buf) \in Nat /\ cl.sent \in Nat
      /\ src.buf \in Seq(Nat) /\ cl.answered \in Nat
      /\ src.eof \in BOOLEAN /\ up \in Seq(UpMessage)
  BY <1>1, SessionIs
<1>3. OnTheWay(up, "in") \in Nat
  BY <1>2, OnTheWayNat
<1>4. /\ tg.got + InHand(copyIn) + Len(src.buf) + OnTheWay(up, "in") <= cl.sent
      /\ copyIn.hold <= cl.answered /\ \A i \in DOMAIN src.buf : src.buf[i] <= cl.answered
  BY DEF SessionIInv, InputCounted, InputMarked
<1>5. /\ Copying \in Copier /\ Copying.at = "read" /\ Copying.hold = 0 /\ InHand(Copying) = 0
      /\ CopyDone \in Copier /\ CopyDone.at = "done" /\ CopyDone.hold = 0 /\ InHand(CopyDone) = 0
  BY DEF Copying, CopyDone, Copier, InHand
<1>6. ASSUME copyIn.at = "read", src.buf # <<>>, tg' = tg,
             copyIn' = [at |-> "write", hold |-> Head(src.buf)], src' = [src EXCEPT !.buf = Tail(@)]
      PROVE  SessionIInv'
  <2> DEFINE rest == Tail(src.buf)
  <2>1. /\ Head(src.buf) \in Nat /\ Head(src.buf) <= cl.answered /\ rest \in Seq(Nat)
        /\ Len(src.buf) = Len(rest) + 1 /\ Len(rest) \in Nat
    BY <1>2, <1>4, <1>6
  <2>2. \A i \in DOMAIN rest : rest[i] <= cl.answered
    <3>1. \A i \in DOMAIN rest : i + 1 \in DOMAIN src.buf /\ rest[i] = src.buf[i + 1]
      BY <1>2, <1>6, SMTT(30)
    <3> QED
      BY <1>4, <3>1
  <2>3. /\ copyIn' \in Copier /\ InHand(copyIn') = 1 /\ InHand(copyIn) = 0
        /\ copyIn'.hold = Head(src.buf) /\ copyIn'.at = "write"
    BY <1>6, <2>1 DEF Copier, InHand
  <2>4. src' = [src EXCEPT !.buf = rest]
    BY <1>6
  <2> HIDE DEF rest
  <2>5. /\ src' \in RouterEnd /\ src'.buf = rest /\ src'.reqs = src.reqs
        /\ src'.eof = src.eof /\ src'.closed = src.closed
    BY <1>1, <2>1, <2>4 DEF RouterEnd
  <2>6. tg.got + 0 + Len(src.buf) + OnTheWay(up, "in") <= cl.sent
    BY <1>4, <2>3
  <2>9. /\ tg.got \in Nat /\ Len(src.buf) \in Nat /\ OnTheWay(up, "in") \in Nat /\ cl.sent \in Nat
        /\ Len(rest) \in Nat /\ Len(src.buf) = Len(rest) + 1
    BY <1>2, <1>3, <2>1
  <2>7. tg.got + 1 + Len(rest) + OnTheWay(up, "in") = tg.got + 0 + Len(src.buf) + OnTheWay(up, "in")
    BY <2>9, UnitMoves
  <2>8. tg.got + 1 + Len(rest) + OnTheWay(up, "in") <= cl.sent
    BY <2>6, <2>7
  <2> QED
    BY <1>1, <1>6, <2>1, <2>2, <2>3, <2>5, <2>8, InputMoves
<1>7. ASSUME copyIn.at = "write", tg' = tg, src' = src, dst.closed, copyIn' = CopyDone
      PROVE  SessionIInv'
  <2>1. tg.got + 1 + Len(src.buf) + OnTheWay(up, "in") <= cl.sent
    BY <1>4, <1>7 DEF InHand
  <2>2. tg.got < cl.sent /\ tg.got + 0 + Len(src.buf) + OnTheWay(up, "in") <= cl.sent
    BY <1>2, <1>3, <2>1, UnitMoves
  <2> QED
    BY <1>1, <1>2, <1>4, <1>5, <1>7, <2>2, InputMoves
<1>8. ASSUME copyIn.at = "write", tg' = [tg EXCEPT !.got = @ + 1], src' = src, copyIn' = Copying
      PROVE  SessionIInv'
  <2>1. /\ tg' \in PeerState /\ tg'.heard = tg.heard /\ tg'.answered = tg.answered /\ tg'.asked = tg.asked
        /\ tg'.sent = tg.sent /\ tg'.eof = tg.eof /\ tg'.got = tg.got + 1
    BY <1>1, <1>8, PeerPlus DEF PeerState
  <2>2. tg.got + 1 + Len(src.buf) + OnTheWay(up, "in") <= cl.sent
    BY <1>4, <1>8 DEF InHand
  <2>3. (tg.got + 1) + 0 + Len(src.buf) + OnTheWay(up, "in") = tg.got + 1 + Len(src.buf) + OnTheWay(up, "in")
    BY <1>2, <1>3, UnitMoves
  <2>4. (tg.got + 1) + 0 + Len(src.buf) + OnTheWay(up, "in") <= cl.sent
    BY <2>2, <2>3
  <2> QED
    BY <1>1, <1>2, <1>4, <1>5, <1>8, <2>1, <2>4, InputMoves
<1>9. ASSUME copyIn.at = "read", tg' = tg, src' = src, src.eof, copyIn' = CopyDone
      PROVE  SessionIInv'
  <2>1. InHand(copyIn) = 0
    BY <1>9 DEF InHand
  <2>2. tg.got + 0 + Len(src.buf) + OnTheWay(up, "in") <= cl.sent
    BY <1>4, <2>1
  <2>3. copyIn'.hold <= cl.answered
    BY <1>2, <1>5, <1>9
  <2> QED
    BY <1>1, <1>4, <1>5, <1>9, <2>2, <2>3, InputMoves
<1> QED
  BY <1>6, <1>7, <1>8, <1>9 DEF CopyIn

(* A step of output moves one unit on, and the sum over its stations stays  *)
(* as long as the target's channel is not closed.                           *)
LEMMA OutputMoves ==
  ASSUME SessionIInv, chan = "open", UNCHANGED <<chan, up, down, tg, src, copyIn, askIn, askOut>>,
         cl' \in PeerState, dst' \in RouterEnd, copyOut' \in Copier,
         cl'.heard = cl.heard, cl'.answered = cl.answered, cl'.asked = cl.asked,
         cl'.sent = cl.sent, cl'.eof = cl.eof,
         dst'.reqs = dst.reqs, dst'.eof = dst.eof, dst'.closed = dst.closed,
         copyOut'.at = "done" => src.closed \/ (dst.eof /\ dst'.buf = <<>>),
         cl'.got + InHand(copyOut') + Len(dst'.buf) + OnTheWay(down, "out") <= tg.sent,
         ~src.closed => cl'.got + InHand(copyOut') + Len(dst'.buf) + OnTheWay(down, "out") = tg.sent
  PROVE  SessionIInv'
<1>1. SessionTyped'
  BY DEF SessionIInv, SessionTyped
<1>2. RequestsUp' /\ RequestsDown' /\ Answered'
  BY DEF SessionIInv, RequestsUp, RequestsDown, Answered
<1>3. InputCounted' /\ OutputCounted'
  BY DEF SessionIInv, InputCounted, OutputCounted
<1>4. InputEnds' /\ OutputEnds' /\ InputMarked' /\ ClosedDone'
  <2>1. InputEnds'
    BY DEF SessionIInv, InputEnds
  <2>2. OutputEnds'
    BY DEF SessionIInv, OutputEnds
  <2>3. InputMarked' /\ ClosedDone'
    BY DEF SessionIInv, InputMarked, ClosedDone
  <2> QED
    BY <2>1, <2>2, <2>3
<1> QED
  BY <1>1, <1>2, <1>3, <1>4 DEF SessionIInv

(* io.Copy from the target to the client.                                   *)
LEMMA CopyOutKeeps ==
  ASSUME SessionIInv, CopyOut
  PROVE  SessionIInv'
<1>1. /\ chan = "open" /\ UNCHANGED <<chan, up, down, tg, src, copyIn, askIn, askOut>>
      /\ SessionTyped /\ dst \in RouterEnd /\ cl \in PeerState /\ copyOut \in Copier
  BY DEF CopyOut, SessionIInv, SessionTyped
<1>2. /\ cl.got \in Nat /\ Len(dst.buf) \in Nat /\ tg.sent \in Nat
      /\ dst.buf \in Seq(Nat) /\ src.closed \in BOOLEAN
      /\ dst.eof \in BOOLEAN /\ down \in Seq(DownMessage)
  BY <1>1, SessionIs
<1>3. OnTheWay(down, "out") \in Nat
  BY <1>2, OnTheWayNat
<1>4. /\ cl.got + InHand(copyOut) + Len(dst.buf) + OnTheWay(down, "out") <= tg.sent
      /\ ~src.closed => cl.got + InHand(copyOut) + Len(dst.buf) + OnTheWay(down, "out") = tg.sent
  BY DEF SessionIInv, OutputCounted
<1>5. /\ Copying \in Copier /\ Copying.at = "read" /\ InHand(Copying) = 0
      /\ CopyDone \in Copier /\ CopyDone.at = "done" /\ InHand(CopyDone) = 0
  BY DEF Copying, CopyDone, Copier, InHand
<1>6. ASSUME copyOut.at = "read", dst.buf # <<>>, cl' = cl,
             copyOut' = [copyOut EXCEPT !.at = "write"], dst' = [dst EXCEPT !.buf = Tail(@)]
      PROVE  SessionIInv'
  <2> DEFINE rest == Tail(dst.buf)
  <2>1. rest \in Seq(Nat) /\ Len(dst.buf) = Len(rest) + 1 /\ Len(rest) \in Nat
    BY <1>2, <1>6
  <2>3. copyOut' \in Copier /\ InHand(copyOut') = 1 /\ InHand(copyOut) = 0 /\ copyOut'.at = "write"
    BY <1>1, <1>6 DEF Copier, InHand
  <2>4. dst' = [dst EXCEPT !.buf = rest]
    BY <1>6
  <2> HIDE DEF rest
  <2>5. /\ dst' \in RouterEnd /\ dst'.buf = rest /\ dst'.reqs = dst.reqs
        /\ dst'.eof = dst.eof /\ dst'.closed = dst.closed
    BY <1>1, <2>1, <2>4 DEF RouterEnd
  <2>6. /\ cl.got + 0 + Len(dst.buf) + OnTheWay(down, "out") <= tg.sent
        /\ ~src.closed => cl.got + 0 + Len(dst.buf) + OnTheWay(down, "out") = tg.sent
    BY <1>4, <2>3
  <2>9. /\ cl.got \in Nat /\ Len(dst.buf) \in Nat /\ OnTheWay(down, "out") \in Nat /\ tg.sent \in Nat
        /\ Len(rest) \in Nat /\ Len(dst.buf) = Len(rest) + 1
    BY <1>2, <1>3, <2>1
  <2>7. cl.got + 1 + Len(rest) + OnTheWay(down, "out") = cl.got + 0 + Len(dst.buf) + OnTheWay(down, "out")
    BY <2>9, UnitMoves
  <2>8. /\ cl.got + 1 + Len(rest) + OnTheWay(down, "out") <= tg.sent
        /\ ~src.closed => cl.got + 1 + Len(rest) + OnTheWay(down, "out") = tg.sent
    BY <2>6, <2>7
  <2> QED
    BY <1>1, <1>6, <2>3, <2>5, <2>8, OutputMoves
<1>7. ASSUME copyOut.at = "write", src.closed, cl' = cl, dst' = dst, copyOut' = CopyDone
      PROVE  SessionIInv'
  <2>1. cl.got + 1 + Len(dst.buf) + OnTheWay(down, "out") <= tg.sent
    BY <1>4, <1>7 DEF InHand
  <2>2. cl.got + 0 + Len(dst.buf) + OnTheWay(down, "out") <= tg.sent
    BY <1>2, <1>3, <2>1, UnitMoves
  <2> QED
    BY <1>1, <1>5, <1>7, <2>2, OutputMoves
<1>8. ASSUME copyOut.at = "write", cl' = [cl EXCEPT !.got = @ + 1], dst' = dst, copyOut' = Copying
      PROVE  SessionIInv'
  <2>1. /\ cl' \in PeerState /\ cl'.heard = cl.heard /\ cl'.answered = cl.answered /\ cl'.asked = cl.asked
        /\ cl'.sent = cl.sent /\ cl'.eof = cl.eof /\ cl'.got = cl.got + 1
    BY <1>1, <1>8, PeerPlus DEF PeerState
  <2>2. /\ cl.got + 1 + Len(dst.buf) + OnTheWay(down, "out") <= tg.sent
        /\ ~src.closed => cl.got + 1 + Len(dst.buf) + OnTheWay(down, "out") = tg.sent
    BY <1>4, <1>8 DEF InHand
  <2>3. (cl.got + 1) + 0 + Len(dst.buf) + OnTheWay(down, "out") = cl.got + 1 + Len(dst.buf) + OnTheWay(down, "out")
    BY <1>2, <1>3, UnitMoves
  <2>4. /\ (cl.got + 1) + 0 + Len(dst.buf) + OnTheWay(down, "out") <= tg.sent
        /\ ~src.closed => (cl.got + 1) + 0 + Len(dst.buf) + OnTheWay(down, "out") = tg.sent
    BY <2>2, <2>3
  <2> QED
    BY <1>1, <1>5, <1>8, <2>1, <2>4, OutputMoves
<1>9. ASSUME copyOut.at = "read", dst.buf = <<>>, dst.eof, cl' = cl, dst' = dst, copyOut' = CopyDone
      PROVE  SessionIInv'
  <2>1. InHand(copyOut) = 0
    BY <1>9 DEF InHand
  <2> QED
    BY <1>1, <1>4, <1>5, <1>9, <2>1, OutputMoves
<1> QED
  BY <1>6, <1>7, <1>8, <1>9 DEF CopyOut

(* A request moves on. *)
LEMMA RequestMoves ==
  ASSUME NEW h \in Nat, NEW r \in Nat, NEW n \in Nat, NEW s \in Nat, r > 0, h + r + n <= s
  PROVE  /\ (h + 1) + (r - 1) + n <= s /\ h + (r - 1) + n <= s
         /\ r - 1 \in Nat
  OBVIOUS

(* Taking a request from a router's end leaves the rest of it alone.        *)
LEMMA OneRequestLess ==
  ASSUME NEW e \in RouterEnd, e.reqs > 0
  PROVE  LET t == [e EXCEPT !.reqs = @ - 1] IN
         /\ t \in RouterEnd /\ t.reqs = e.reqs - 1 /\ t.buf = e.buf
         /\ t.eof = e.eof /\ t.closed = e.closed
<1>1. e.reqs \in 0..ReqCap /\ ReqCap \in Nat
  BY SshAssumption DEF RouterEnd
<1>2. e.reqs - 1 \in 0..ReqCap
  BY <1>1
<1> QED
  BY <1>2 DEF RouterEnd

(* The goroutine that forwards the client's requests,                       *)
LEMMA AskInKeeps ==
  ASSUME SessionIInv, AskIn
  PROVE  SessionIInv'
<1>1. /\ SessionTyped /\ src \in RouterEnd /\ tg \in PeerState /\ src.reqs > 0 /\ askIn = "next"
      /\ src' = [src EXCEPT !.reqs = @ - 1]
      /\ UNCHANGED <<chan, up, down, cl, dst, copyIn, copyOut, askOut>>
      /\ \/ askIn' = "done" /\ tg' = tg
         \/ askIn' = "reply" /\ tg' = [tg EXCEPT !.heard = @ + 1]
  BY DEF AskIn, SessionIInv, SessionTyped
<1>2. /\ src' \in RouterEnd /\ src'.reqs = src.reqs - 1 /\ src'.buf = src.buf
      /\ src'.eof = src.eof /\ src'.closed = src.closed
  BY <1>1, OneRequestLess
<1>3. /\ tg.heard \in Nat /\ src.reqs \in Nat /\ cl.asked \in Nat /\ cl.answered \in Nat
      /\ tg.answered \in Nat /\ up \in Seq(UpMessage)
  BY <1>1, SessionIs
<1>4. /\ tg' \in PeerState /\ tg'.got = tg.got /\ tg'.answered = tg.answered /\ tg'.asked = tg.asked
      /\ tg'.sent = tg.sent /\ tg'.eof = tg.eof
      /\ \/ askIn' = "done" /\ tg'.heard = tg.heard
         \/ askIn' = "reply" /\ tg'.heard = tg.heard + 1
  BY <1>1, PeerPlus DEF PeerState
<1>5. SessionTyped'
  BY <1>1, <1>2, <1>4 DEF SessionTyped
<1>6. RequestsUp'
  <2>1. OnTheWay(up, "req") \in Nat
    BY <1>3, OnTheWayNat
  <2>2. tg.heard + src.reqs + OnTheWay(up, "req") <= cl.asked
    BY DEF SessionIInv, RequestsUp
  <2>3. tg'.heard + (src.reqs - 1) + OnTheWay(up, "req") <= cl.asked
    BY <1>1, <1>3, <1>4, <2>1, <2>2, RequestMoves
  <2> QED
    BY <1>1, <1>2, <2>3 DEF RequestsUp
<1>7. Answered'
  <2>1. cl.answered <= tg.answered /\ tg.answered <= tg.heard
    BY DEF SessionIInv, Answered
  <2> QED
    BY <1>1, <1>3, <1>4, <2>1 DEF Answered
<1>8. RequestsDown' /\ InputCounted' /\ OutputCounted'
  BY <1>1, <1>2, <1>4 DEF SessionIInv, RequestsDown, InputCounted, OutputCounted
<1>9. InputEnds' /\ OutputEnds' /\ InputMarked' /\ ClosedDone'
  <2>1. InputEnds'
    BY <1>1, <1>2, <1>4 DEF SessionIInv, InputEnds
  <2>2. OutputEnds'
    BY <1>1, <1>2, <1>4 DEF SessionIInv, OutputEnds
  <2>3. InputMarked' /\ ClosedDone'
    BY <1>1, <1>2 DEF SessionIInv, InputMarked, ClosedDone, CopiesDone
  <2> QED
    BY <2>1, <2>2, <2>3
<1> QED
  BY <1>5, <1>6, <1>7, <1>8, <1>9 DEF SessionIInv

(* the answer it waits for,                                                 *)
LEMMA ReplyKeeps ==
  ASSUME SessionIInv, Reply
  PROVE  SessionIInv'
<1>1. /\ SessionTyped /\ cl \in PeerState /\ askIn = "reply"
      /\ UNCHANGED <<chan, up, down, tg, src, dst, copyIn, copyOut, askOut>>
      /\ \/ tg.answered = tg.heard /\ askIn' = "next" /\ cl' = [cl EXCEPT !.answered = @ + 1]
         \/ askIn' = "done" /\ cl' = cl
  BY DEF Reply, SessionIInv, SessionTyped
<1>2. tg.heard \in Nat /\ cl.answered \in Nat /\ tg.answered \in Nat /\ up \in Seq(UpMessage)
      /\ src.buf \in Seq(Nat) /\ copyIn.hold \in Nat
  BY <1>1, SessionIs
<1>3. /\ cl' \in PeerState /\ cl'.got = cl.got /\ cl'.heard = cl.heard /\ cl'.asked = cl.asked
      /\ cl'.sent = cl.sent /\ cl'.eof = cl.eof
      /\ \/ askIn' = "done" /\ cl'.answered = cl.answered
         \/ askIn' = "next" /\ cl'.answered = cl.answered + 1 /\ tg.answered = tg.heard
  BY <1>1, PeerPlus DEF PeerState
<1>4. SessionTyped'
  BY <1>1, <1>3 DEF SessionTyped
<1>5. Answered'
  <2>1. cl.answered <= tg.answered /\ tg.answered <= tg.heard /\ cl.answered < tg.heard
    BY <1>1 DEF SessionIInv, Answered
  <2> QED
    BY <1>1, <1>2, <1>3, <2>1 DEF Answered
<1>6. RequestsUp' /\ RequestsDown' /\ InputCounted' /\ OutputCounted'
  BY <1>1, <1>3 DEF SessionIInv, RequestsUp, RequestsDown, InputCounted, OutputCounted
<1>7. InputEnds' /\ OutputEnds' /\ ClosedDone'
  <2>1. InputEnds'
    BY <1>1, <1>3 DEF SessionIInv, InputEnds
  <2>2. OutputEnds' /\ ClosedDone'
    BY <1>1 DEF SessionIInv, OutputEnds, ClosedDone, CopiesDone
  <2> QED
    BY <2>1, <2>2
<1>8. InputMarked'
  <2>1. \A n \in Nat : n <= cl.answered => n <= cl'.answered
    BY <1>2, <1>3
  <2>2. \A i \in DOMAIN up : up[i].n \in Nat
    <3>1. \A i \in DOMAIN up : up[i] \in UpMessage
      BY <1>2
    <3> QED
      BY <3>1 DEF UpMessage, Message
  <2>3. \A i \in DOMAIN src.buf : src.buf[i] \in Nat
    BY <1>2
  <2> QED
    BY <1>1, <1>2, <2>1, <2>2, <2>3 DEF SessionIInv, InputMarked
<1> QED
  BY <1>4, <1>5, <1>6, <1>7, <1>8 DEF SessionIInv

(* and the one that forwards the target's requests.                         *)
LEMMA AskOutKeeps ==
  ASSUME SessionIInv, AskOut
  PROVE  SessionIInv'
<1>1. /\ SessionTyped /\ dst \in RouterEnd /\ cl \in PeerState /\ dst.reqs > 0
      /\ dst' = [dst EXCEPT !.reqs = @ - 1]
      /\ UNCHANGED <<chan, up, down, tg, src, copyIn, copyOut, askIn>>
      /\ \/ askOut' = "done" /\ cl' = cl
         \/ askOut' = askOut /\ cl' = [cl EXCEPT !.heard = @ + 1]
  BY DEF AskOut, SessionIInv, SessionTyped
<1>2. /\ dst' \in RouterEnd /\ dst'.reqs = dst.reqs - 1 /\ dst'.buf = dst.buf
      /\ dst'.eof = dst.eof /\ dst'.closed = dst.closed
  BY <1>1, OneRequestLess
<1>3. cl.heard \in Nat /\ dst.reqs \in Nat /\ tg.asked \in Nat /\ down \in Seq(DownMessage)
  BY <1>1, SessionIs
<1>4. /\ cl' \in PeerState /\ cl'.got = cl.got /\ cl'.answered = cl.answered /\ cl'.asked = cl.asked
      /\ cl'.sent = cl.sent /\ cl'.eof = cl.eof
      /\ cl'.heard = cl.heard \/ cl'.heard = cl.heard + 1
  BY <1>1, PeerPlus DEF PeerState
<1>5. SessionTyped'
  BY <1>1, <1>2, <1>4 DEF SessionTyped
<1>6. RequestsDown'
  <2>1. OnTheWay(down, "req") \in Nat
    BY <1>3, OnTheWayNat
  <2>2. cl.heard + dst.reqs + OnTheWay(down, "req") <= tg.asked
    BY DEF SessionIInv, RequestsDown
  <2>3. cl'.heard + (dst.reqs - 1) + OnTheWay(down, "req") <= tg.asked
    BY <1>1, <1>3, <1>4, <2>1, <2>2, RequestMoves
  <2> QED
    BY <1>1, <1>2, <2>3 DEF RequestsDown
<1>7. RequestsUp' /\ Answered' /\ InputCounted' /\ OutputCounted'
  BY <1>1, <1>2, <1>4 DEF SessionIInv, RequestsUp, Answered, InputCounted, OutputCounted
<1>8. InputEnds' /\ OutputEnds' /\ InputMarked' /\ ClosedDone'
  <2>1. InputEnds'
    BY <1>1, <1>2, <1>4 DEF SessionIInv, InputEnds
  <2>2. OutputEnds'
    BY <1>1, <1>2, <1>4 DEF SessionIInv, OutputEnds
  <2>3. InputMarked' /\ ClosedDone'
    BY <1>1, <1>4 DEF SessionIInv, InputMarked, ClosedDone, CopiesDone
  <2> QED
    BY <2>1, <2>2, <2>3
<1> QED
  BY <1>5, <1>6, <1>7, <1>8 DEF SessionIInv

(* Goroutines end, the channel is opened, closed or over. *)
LEMMA ChannelKeeps ==
  ASSUME SessionIInv,
         UNCHANGED <<up, down, cl, tg, src, dst, copyIn, copyOut>>,
         chan' \in {"none", "refused", "open", "closed"}, chan' = "closed" => chan = "closed" \/ CopiesDone,
         askIn' \in {askIn, "done"}, askOut' \in {askOut, "done"}
  PROVE  SessionIInv'
<1>1. SessionTyped'
  BY DEF SessionIInv, SessionTyped
<1>2. RequestsUp' /\ RequestsDown' /\ InputCounted' /\ OutputCounted' /\ Answered'
  BY DEF SessionIInv, RequestsUp, RequestsDown, InputCounted, OutputCounted, Answered
<1>3. InputEnds' /\ OutputEnds' /\ InputMarked' /\ ClosedDone'
  <2>1. InputEnds' /\ InputMarked'
    BY DEF SessionIInv, InputEnds, InputMarked
  <2>2. OutputEnds' /\ ClosedDone'
    BY DEF SessionIInv, OutputEnds, ClosedDone, CopiesDone
  <2> QED
    BY <2>1, <2>2
<1> QED
  BY <1>1, <1>2, <1>3 DEF SessionIInv

(* Every step of a session keeps its invariant.                             *)
LEMMA SessionStep ==
  ASSUME SessionIInv, [SshNext]_sshVars
  PROVE  SessionIInv'
<1>0. chan \in {"none", "refused", "open", "closed"}
  BY DEF SessionIInv, SessionTyped
<1>1. CASE Router
  <2>1. CASE AskEnds
    BY <1>0, <2>1, ChannelKeeps DEF AskEnds
  <2>2. CASE CloseBoth
    BY <2>2, ChannelKeeps DEF CloseBoth, session
  <2> QED
    BY <1>1, <2>1, <2>2, MuxUpKeeps, MuxDownKeeps, CopyInKeeps, CopyOutKeeps, AskInKeeps, ReplyKeeps,
       AskOutKeeps DEF Router
<1>2. ASSUME NEW user \in Logins, HandleConn(user)
      PROVE  SessionIInv'
  BY <1>0, <1>2, ChannelKeeps DEF HandleConn, session
<1>3. CASE Disconnect \/ OpenChannel
  BY <1>3, ChannelKeeps DEF Disconnect, OpenChannel, session
<1>4. CASE UNCHANGED sshVars
  BY <1>0, <1>4, ChannelKeeps DEF sshVars
<1> QED
  BY <1>1, <1>2, <1>3, <1>4, ClientKeeps, TargetKeeps, AnswerKeeps DEF SshNext

(* Nothing has been sent when a channel is opened.                          *)
LEMMA SessionStarts ==
  ASSUME SshInit
  PROVE  SessionIInv
<1> USE DEF SshInit, FreshSession
<1>1. FreshEnd \in RouterEnd /\ FreshEnd.reqs = 0 /\ FreshEnd.buf = <<>> /\ FreshEnd.eof = FALSE
      /\ FreshEnd.closed = FALSE
  BY SshAssumption DEF FreshEnd, RouterEnd
<1>2. /\ FreshPeer \in PeerState /\ FreshPeer.sent = 0 /\ FreshPeer.asked = 0 /\ FreshPeer.answered = 0
      /\ FreshPeer.got = 0 /\ FreshPeer.heard = 0 /\ FreshPeer.eof = FALSE
  BY DEF FreshPeer, PeerState
<1>3. Copying \in Copier /\ Copying.at = "read" /\ Copying.hold = 0 /\ InHand(Copying) = 0
  BY DEF Copying, Copier, InHand
<1>4. \A kind : OnTheWay(<<>>, kind) = 0
  <2> SUFFICES ASSUME NEW kind PROVE OnTheWay(<<>>, kind) = 0
    OBVIOUS
  <2>1. \A k \in DOMAIN <<>> : <<>>[k].m # kind
    OBVIOUS
  <2> QED
    BY <2>1, NoneOnTheWay
<1>5. SessionTyped
  BY <1>1, <1>2, <1>3 DEF SessionTyped
<1>6. RequestsUp /\ RequestsDown /\ Answered
  BY <1>1, <1>2, <1>4 DEF RequestsUp, RequestsDown, Answered
<1>7. InputCounted /\ OutputCounted
  BY <1>1, <1>2, <1>3, <1>4 DEF InputCounted, OutputCounted
<1>8. InputEnds /\ OutputEnds /\ ClosedDone /\ InputMarked
  BY <1>1, <1>2, <1>3 DEF InputEnds, OutputEnds, ClosedDone, InputMarked
<1> QED
  BY <1>5, <1>6, <1>7, <1>8 DEF SessionIInv

(* Who is connected went where the routes say. *)
LEMMA RoutedStep ==
  ASSUME Routed, [SshNext]_sshVars
  PROVE  Routed'
<1>1. ASSUME NEW user \in Logins, HandleConn(user)
      PROVE  Routed'
  <2>1. PICK t \in GetTarget(user) :
           login' = user /\ target' = t /\ visits' = visits \cup {<<user, t>>}
    BY <1>1 DEF HandleConn
  <2>2. t # NoTarget
    <3>1. CASE user \in DOMAIN Routes
      BY <2>1, <3>1, SshAssumption DEF GetTarget
    <3>2. CASE user \notin DOMAIN Routes /\ Matching(user) # {}
      <4>1. \E p \in Matching(user) : t = Routes[p]
        BY <2>1, <3>2 DEF GetTarget
      <4> QED
        BY <4>1, SshAssumption DEF Matching
    <3>3. CASE user \notin DOMAIN Routes /\ Matching(user) = {}
      BY <2>1, <3>3 DEF GetTarget
    <3> QED
      BY <3>1, <3>2, <3>3
  <2> QED
    BY <2>1, <2>2 DEF Routed
<1>2. CASE Disconnect
  BY <1>2 DEF Disconnect, Routed
<1>3. CASE UNCHANGED <<login, target, visits>>
  BY <1>3 DEF Routed
<1> QED
  BY <1>1, <1>2, <1>3
  DEF SshNext, OpenChannel, Ask, Input, ClientEnds, Output, Exit, TargetEnds, Answer, Router, MuxUp, MuxDown,
      CopyIn, CopyOut, AskIn, Reply, AskOut, AskEnds, CloseBoth, Rest, sshVars

(* Two targets of one user come from two patterns. *)
LEMMA TwoTargets ==
  ASSUME NEW user, NEW s \in GetTarget(user), NEW t \in GetTarget(user), s # t
  PROVE  user \notin DOMAIN Routes /\ \E p, q \in Matching(user) : p # q
<1>1. user \notin DOMAIN Routes
  BY DEF GetTarget
<1>2. Matching(user) # {}
  BY <1>1 DEF GetTarget
<1>3. (\E p \in Matching(user) : s = Routes[p]) /\ \E q \in Matching(user) : t = Routes[q]
  BY <1>1, <1>2 DEF GetTarget
<1> QED
  BY <1>1, <1>3

(* What is part of a sum that is at most a number is itself at most that    *)
(* number.                                                                  *)
LEMMA PartOfThree ==
  ASSUME NEW a \in Nat, NEW b \in Nat, NEW c \in Nat, NEW s \in Nat, a + b + c <= s
  PROVE  a <= s
  OBVIOUS

(* The same of four. *)
LEMMA PartOfFour ==
  ASSUME NEW a \in Nat, NEW b \in Nat, NEW c \in Nat, NEW d \in Nat, NEW s \in Nat, a + b + c + d <= s
  PROVE  a <= s
  OBVIOUS

(* A session is served: a user goes where the user always goes, all output  *)
(* of a target reaches a client that waits for it, and an exit status is    *)
(* lost only after the input's end (getTarget, handleChannel).              *)
THEOREM AlwaysSessionsServed == SshSpec => []SessionsServed
<1>1. SshInit => SshIInv
  BY SessionStarts DEF SshIInv, Routed, SshInit
<1>2. SshIInv /\ [SshNext]_sshVars => SshIInv'
  BY SessionStep, RoutedStep DEF SshIInv
<1>3. SshIInv => SessionsServed
  <2> SUFFICES ASSUME SshIInv PROVE SessionsServed
    OBVIOUS
  <2>1. SessionIInv /\ SessionTyped /\ Routed
    BY DEF SshIInv, SessionIInv
  <2>2. /\ cl.sent \in Nat /\ cl.asked \in Nat /\ cl.answered \in Nat /\ cl.got \in Nat /\ cl.heard \in Nat
        /\ tg.sent \in Nat /\ tg.asked \in Nat /\ tg.answered \in Nat /\ tg.got \in Nat /\ tg.heard \in Nat
        /\ InHand(copyIn) \in Nat /\ InHand(copyOut) \in Nat /\ Len(src.buf) \in Nat /\ Len(dst.buf) \in Nat
        /\ src.reqs \in Nat /\ dst.reqs \in Nat /\ up \in Seq(UpMessage) /\ down \in Seq(DownMessage)
    BY <2>1, SessionIs
  <2>3. /\ OnTheWay(up, "req") \in Nat /\ OnTheWay(up, "in") \in Nat
        /\ OnTheWay(down, "req") \in Nat /\ OnTheWay(down, "out") \in Nat
    BY <2>2, OnTheWayNat
  <2>4. SshTypeOK
    <3>1. /\ tg.heard + src.reqs + OnTheWay(up, "req") <= cl.asked
          /\ cl.heard + dst.reqs + OnTheWay(down, "req") <= tg.asked
          /\ tg.got + InHand(copyIn) + Len(src.buf) + OnTheWay(up, "in") <= cl.sent
          /\ cl.got + InHand(copyOut) + Len(dst.buf) + OnTheWay(down, "out") <= tg.sent
      BY <2>1 DEF SessionIInv, RequestsUp, RequestsDown, InputCounted, OutputCounted
    <3>2. tg.heard <= cl.asked
      <4>1. tg.heard \in Nat /\ src.reqs \in Nat /\ cl.asked \in Nat
        BY <2>2
      <4>2. OnTheWay(up, "req") \in Nat
        BY <2>3
      <4> QED
        BY <3>1, <4>1, <4>2, PartOfThree
    <3>3. cl.heard <= tg.asked
      <4>1. cl.heard \in Nat /\ dst.reqs \in Nat /\ tg.asked \in Nat
        BY <2>2
      <4>2. OnTheWay(down, "req") \in Nat
        BY <2>3
      <4> QED
        BY <3>1, <4>1, <4>2, PartOfThree
    <3>4. tg.got <= cl.sent
      <4>1. tg.got \in Nat /\ InHand(copyIn) \in Nat /\ Len(src.buf) \in Nat /\ cl.sent \in Nat
        BY <2>2
      <4>2. OnTheWay(up, "in") \in Nat
        BY <2>3
      <4> QED
        BY <3>1, <4>1, <4>2, PartOfFour
    <3>5. cl.got <= tg.sent
      <4>1. cl.got \in Nat /\ InHand(copyOut) \in Nat /\ Len(dst.buf) \in Nat /\ tg.sent \in Nat
        BY <2>2
      <4>2. OnTheWay(down, "out") \in Nat
        BY <2>3
      <4> QED
        BY <3>1, <4>1, <4>2, PartOfFour
    <3>6. /\ src.reqs \in 0..ReqCap /\ dst.reqs \in 0..ReqCap
          /\ copyIn.at \in {"read", "write", "done"} /\ copyOut.at \in {"read", "write", "done"}
      BY <2>1, SessionIs
    <3> QED
      BY <2>1, <3>2, <3>3, <3>4, <3>5, <3>6 DEF SshTypeOK, SessionIInv, SessionTyped, Answered, Routed
  <2>5. RouteStable
    BY <2>1, TwoTargets DEF RouteStable, Routed
  <2>6. OutputComplete
    <3> SUFFICES ASSUME chan = "closed", ~src.closed PROVE cl.got = tg.sent
      BY DEF OutputComplete
    <3>1. copyOut.at = "done" /\ dst.eof /\ dst.buf = <<>> /\ \A i \in DOMAIN down : down[i].m # "out"
      BY <2>1 DEF SessionIInv, ClosedDone, CopiesDone, OutputEnds
    <3>2. OnTheWay(down, "out") = 0 /\ InHand(copyOut) = 0 /\ Len(dst.buf) = 0
      BY <3>1, NoneOnTheWay DEF InHand
    <3>3. cl.got + InHand(copyOut) + Len(dst.buf) + OnTheWay(down, "out") = tg.sent
      BY <2>1 DEF SessionIInv, OutputCounted
    <3> QED
      BY <2>2, <3>2, <3>3
  <2>7. ExitLostOnlyAfterInput
    <3> SUFFICES ASSUME chan = "closed" PROVE cl.eof \/ (cl.sent > tg.got /\ dst.closed)
      BY DEF ExitLostOnlyAfterInput, ExitLost
    <3>1. src.eof => cl.eof
      BY <2>1 DEF SessionIInv, InputEnds
    <3>2. src.eof \/ (dst.closed /\ tg.got < cl.sent)
      BY <2>1 DEF SessionIInv, ClosedDone, CopiesDone, InputEnds
    <3> QED
      BY <2>2, <3>1, <3>2
  <2> QED
    BY <2>4, <2>5, <2>6, <2>7 DEF SessionsServed
<1> QED
  BY <1>1, <1>2, <1>3, PTL DEF SshSpec

(* Input sent after the answer to the last request does not overtake that   *)
(* request, though different goroutines of handleChannel forward them.      *)
THEOREM AlwaysInputFollowsRequest == SshSpec => InputFollowsRequest
<1>1. SshInit => SessionIInv
  BY SessionStarts
<1>2. SessionIInv /\ [SshNext]_sshVars => SessionIInv'
  BY SessionStep
<1>3. SessionIInv /\ [SshNext]_sshVars => [tg'.got > tg.got => tg.heard >= copyIn.hold]_sshVars
  <2> SUFFICES ASSUME SessionIInv PROVE tg.heard >= copyIn.hold
    OBVIOUS
  <2>1. copyIn.hold <= cl.answered /\ cl.answered <= tg.answered /\ tg.answered <= tg.heard
    BY DEF SessionIInv, InputMarked, Answered
  <2>2. copyIn.hold \in Nat /\ cl.answered \in Nat /\ tg.answered \in Nat /\ tg.heard \in Nat
    <3>1. SessionTyped
      BY DEF SessionIInv
    <3> QED
      BY <3>1, SessionIs
  <2> QED
    BY <2>1, <2>2
<1> QED
  BY <1>1, <1>2, <1>3, PTL DEF SshSpec, InputFollowsRequest

=============================================================================
