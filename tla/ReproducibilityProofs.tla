----------------------- MODULE ReproducibilityProofs -----------------------
(***************************************************************************)
(* Proofs about check_reproducibility.py alone in its checkout, for every  *)
(* list of corpora and every generator, with the process killed anywhere.  *)
(***************************************************************************)
EXTENDS Reproducibility, TLAPS

\* A position in CORPORA names a corpus.
LEMMA ThisInIds ==
  ASSUME NEW i \in 1 .. Len(CORPORA)
  PROVE  CORPORA[i] \in Listed
BY DEF Listed

\* The initial states satisfy the invariant.
LEMMA InvInit == Init => IInv
<1> SUFFICES ASSUME Init PROVE IInv
  OBVIOUS
<1>1. Len(CORPORA) \in Nat /\ MaxChecks \in Nat
  BY ReproAssumption
<1>2. TypeOK
  <2>1. 1 \in 1 .. Len(CORPORA) + 1 /\ 0 \in 0 .. MaxChecks
    BY <1>1
  <2> QED
    BY <2>1 DEF Init, ReproInit, TypeOK
<1>3. NothingLost /\ ContentInv /\ HeadInv /\ RegenInv
  BY DEF Init, ReproInit, NothingLost, ContentInv, HeadInv, RegenInv
<1> QED
  BY <1>2, <1>3 DEF IInv

\* Every step preserves the type invariant.
LEMMA TypeNext == TypeOK /\ [Next]_vars => TypeOK'
<1> SUFFICES ASSUME TypeOK, [Next]_vars PROVE TypeOK'
  OBVIOUS
<1>0. Len(CORPORA) \in Nat /\ MaxChecks \in Nat
  BY ReproAssumption
<1>a. at <= Len(CORPORA) => at \in 1 .. Len(CORPORA) /\ This \in Listed
  <2>1. at \in 1 .. Len(CORPORA) + 1
    BY DEF TypeOK
  <2> QED
    BY <1>0, <2>1, ThisInIds DEF This
<1>b. at <= Len(CORPORA) => at + 1 \in 1 .. Len(CORPORA) + 1
  BY <1>0, <1>a
<1>1. CASE StartCheck
  <2>1. checks' \in 0 .. MaxChecks
    <3>1. checks \in 0 .. MaxChecks /\ checks < MaxChecks /\ checks' = checks + 1
      BY <1>1 DEF StartCheck, TypeOK
    <3> QED
      BY <1>0, <3>1
  <2>2. 1 \in 1 .. Len(CORPORA) + 1
    BY <1>0
  <2> QED
    BY <1>1, <2>1, <2>2 DEF StartCheck, TypeOK
<1>2. CASE CheckDigest
  <2>1. This \in Listed /\ at <= Len(CORPORA)
    BY <1>2, <1>a DEF CheckDigest
  <2>2. CASE UNCHANGED <<rpc, answer>> /\ at' = at + 1 /\ found' = [found EXCEPT ![This] = "failed"]
    BY <1>2, <1>b, <2>1, <2>2 DEF CheckDigest, TypeOK
  <2>3. CASE rpc' = "idle" /\ answer' = "ERROR" /\ UNCHANGED <<at, found>>
    BY <1>2, <2>1, <2>3 DEF CheckDigest, TypeOK
  <2>4. CASE rpc' = "backup" /\ UNCHANGED <<at, found, answer>>
    BY <1>2, <2>1, <2>4 DEF CheckDigest, TypeOK
  <2> QED
    BY <1>2, <2>2, <2>3, <2>4 DEF CheckDigest
<1>3. CASE Backup
  BY <1>3, <1>a DEF Backup, TypeOK
<1>4. CASE Generate
  <2>1. This \in Listed
    BY <1>4, <1>a DEF Generate, TypeOK
  <2>2. emits[This] \in [wrote : Contents \cup {Torn, Nothing}, ok : BOOLEAN]
    BY <2>1 DEF TypeOK, Outcomes
  <2>3. corpus' \in [Listed -> Contents \cup {Missing, Torn}]
    BY <1>4, <2>1, <2>2 DEF Generate, TypeOK
  <2> QED
    BY <1>4, <2>2, <2>3 DEF Generate, TypeOK
<1>5. CASE Compare
  <2>1. found'[This] \in {"byte-identical", "digest-asserted", "failed"} /\ This \in Listed
    BY <1>5, <1>a DEF Compare, TypeOK
  <2> QED
    BY <1>5, <2>1 DEF Compare, TypeOK
<1>6. CASE Restore
  <2>1. This \in Listed /\ at' \in 1 .. Len(CORPORA) + 1
    BY <1>6, <1>a, <1>b DEF Restore, TypeOK
  <2> QED
    BY <1>6, <2>1 DEF Restore, TypeOK
<1>7. CASE Conclude
  BY <1>7 DEF Conclude, TypeOK
<1>8. CASE Killed
  <2>1. rpc \in {"generate", "restore"} => This \in Listed
    BY <1>a DEF TypeOK
  <2>2. corpus' \in [Listed -> Contents \cup {Missing, Torn}]
    BY <1>8, <2>1 DEF Killed, TypeOK
  <2> QED
    BY <1>8, <2>2 DEF Killed, TypeOK
<1>9. CASE UNCHANGED vars
  BY <1>9 DEF vars, reproVars, TypeOK
<1> QED
  BY <1>1, <1>2, <1>3, <1>4, <1>5, <1>6, <1>7, <1>8, <1>9 DEF Next

\* Every step preserves what the phases know of the files: the committed
\* content of every corpus is in its file or in the backup.
LEMMA ContentNext ==
  TypeOK /\ NothingLost /\ ContentInv /\ [Next]_vars
    => NothingLost' /\ ContentInv'
<1> SUFFICES ASSUME TypeOK, NothingLost, ContentInv, [Next]_vars
             PROVE  NothingLost' /\ ContentInv'
  OBVIOUS
<1>a. at <= Len(CORPORA) => This \in Listed
  <2>1. Len(CORPORA) \in Nat /\ at \in 1 .. Len(CORPORA) + 1
    BY ReproAssumption DEF TypeOK
  <2>2. at <= Len(CORPORA) => at \in 1 .. Len(CORPORA)
    BY <2>1
  <2> QED
    BY <2>2, ThisInIds DEF This
<1>1. CASE StartCheck
  BY <1>1 DEF StartCheck, NothingLost, ContentInv
<1>2. CASE CheckDigest
  <2>1. rpc' \in {"digest", "idle", "backup"} /\ corpus' = corpus /\ orig' = orig
    BY <1>2 DEF CheckDigest
  <2>2. corpus = orig
    BY <1>2 DEF CheckDigest, ContentInv
  <2> QED
    BY <2>1, <2>2 DEF NothingLost, ContentInv
<1>3. CASE Backup
  <2>1. corpus = orig /\ corpus' = corpus /\ orig' = orig
    BY <1>3 DEF Backup, ContentInv
  <2>2. This' = This
    BY <1>3 DEF Backup, This
  <2>3. CASE rpc' = "idle"
    BY <2>1, <2>3 DEF NothingLost, ContentInv
  <2>4. CASE rpc' = "generate" /\ backup' = corpus[This]
    BY <2>1, <2>2, <2>4 DEF NothingLost, ContentInv
  <2> QED
    BY <1>3, <2>3, <2>4 DEF Backup
<1>4. CASE Generate
  <2>1. /\ rpc' = "compare" /\ orig' = orig /\ backup' = backup /\ at' = at
        /\ corpus = orig /\ backup = orig[This] /\ answer' = answer
    BY <1>4 DEF Generate, ContentInv
  <2>2. \A c \in Listed \ {This} : corpus'[c] = orig[c]
    BY <1>4, <2>1 DEF Generate, TypeOK
  <2> QED
    BY <2>1, <2>2 DEF NothingLost, ContentInv, This
<1>5. CASE Compare
  BY <1>5 DEF Compare, NothingLost, ContentInv, This
<1>6. CASE Restore
  <2>1. This \in Listed
    BY <1>6, <1>a DEF Restore, TypeOK
  <2>2. corpus' = orig /\ orig' = orig /\ rpc' = "digest"
    BY <1>6, <2>1 DEF Restore, ContentInv, TypeOK
  <2> QED
    BY <2>2 DEF NothingLost, ContentInv
<1>7. CASE Conclude
  BY <1>7 DEF Conclude, NothingLost, ContentInv
<1>8. CASE Killed
  <2>1. rpc' = "idle" /\ answer' = "none" /\ orig' = orig /\ backup' = backup
    BY <1>8 DEF Killed
  <2>2. ASSUME rpc \in {"generate", "restore"},
               corpus' = [corpus EXCEPT ![This] = Torn], NEW c \in Listed
        PROVE  orig[c] \in {corpus'[c], backup}
    BY <2>2 DEF NothingLost, ContentInv, TypeOK
  <2>3. \A c \in Listed : orig[c] \in {corpus'[c], backup}
    BY <1>8, <2>2 DEF Killed, NothingLost
  <2> QED
    BY <2>1, <2>3 DEF NothingLost, ContentInv
<1>9. CASE UNCHANGED vars
  BY <1>9 DEF vars, reproVars, NothingLost, ContentInv, This
<1> QED
  BY <1>1, <1>2, <1>3, <1>4, <1>5, <1>6, <1>7, <1>8, <1>9 DEF Next

\* The files a check neither reads from nor writes to a manifest, so what is
\* known of the signed heads stays known.
LEMMA HeadStable ==
  ASSUME UNCHANGED <<manifest, orig>>, NEW c \in Listed
  PROVE  HeadKnown(c)' <=> HeadKnown(c)
BY DEF HeadKnown

\* Every step preserves what is known of the signed heads.
LEMMA HeadNext ==
  TypeOK /\ ContentInv /\ HeadInv /\ [Next]_vars => HeadInv'
<1> SUFFICES ASSUME TypeOK, ContentInv, HeadInv, [Next]_vars PROVE HeadInv'
  OBVIOUS
<1>0. Len(CORPORA) \in Nat /\ at \in 1 .. Len(CORPORA) + 1
  BY ReproAssumption DEF TypeOK
<1>a. at <= Len(CORPORA) => This \in Listed
  <2>1. at <= Len(CORPORA) => at \in 1 .. Len(CORPORA)
    BY <1>0
  <2> QED
    BY <2>1, ThisInIds DEF This
<1>b. \A i \in 1 .. at - 1 : CORPORA[i] \in Listed
  <2>1. \A i \in 1 .. at - 1 : i \in 1 .. Len(CORPORA)
    BY <1>0
  <2> QED
    BY <2>1, ThisInIds
<1>1. CASE StartCheck
  <2>1. at' = 1 /\ answer' = "none" /\ rpc' = "digest"
    BY <1>1 DEF StartCheck
  <2>2. 1 .. at' - 1 = {}
    BY <2>1
  <2> QED
    BY <2>1, <2>2 DEF HeadInv
<1>2. CASE CheckDigest
  <2>1. /\ This \in Listed /\ corpus = orig /\ answer = "none"
        /\ UNCHANGED <<manifest, orig>>
        /\ \A i \in 1 .. at - 1 :
             found[CORPORA[i]] = "failed" \/ HeadKnown(CORPORA[i])
    BY <1>2, <1>a DEF CheckDigest, ContentInv, HeadInv
  <2>2. CASE /\ rpc' = rpc /\ answer' = answer
             /\ at' = at + 1 /\ found' = [found EXCEPT ![This] = "failed"]
    <3>1. ASSUME NEW i \in 1 .. at' - 1
          PROVE  found'[CORPORA[i]] = "failed" \/ HeadKnown(CORPORA[i])'
      <4>1. CASE i = at
        <5>1. found'[This] = "failed"
          BY <2>1, <2>2 DEF TypeOK
        <5> QED
          BY <4>1, <5>1 DEF This
      <4>2. CASE i # at
        <5>1. i \in 1 .. at - 1
          BY <1>0, <2>2, <4>2
        <5>2. CORPORA[i] \in Listed
          BY <1>b, <5>1
        <5>3. found[CORPORA[i]] = "failed" => found'[CORPORA[i]] = "failed"
          BY <2>1, <2>2, <5>2 DEF TypeOK
        <5> QED
          BY <2>1, <5>1, <5>2, <5>3, HeadStable
      <4> QED
        BY <4>1, <4>2
    <3>2. rpc' = "digest" /\ answer' = "none"
      BY <1>2, <2>1, <2>2 DEF CheckDigest
    <3> QED
      BY <3>1, <3>2 DEF HeadInv
  <2>3. CASE rpc' = "idle" /\ answer' = "ERROR"
    BY <2>3 DEF HeadInv
  <2>4. CASE /\ rpc' = "backup" /\ UNCHANGED <<at, found, answer>>
             /\ manifest[This] \in {Missing, corpus[This]}
    <3>1. HeadKnown(This)' /\ This' = This
      BY <2>1, <2>4 DEF HeadKnown, This
    <3>2. ASSUME NEW i \in 1 .. at' - 1
          PROVE  found'[CORPORA[i]] = "failed" \/ HeadKnown(CORPORA[i])'
      BY <1>b, <2>1, <2>4, HeadStable
    <3> QED
      BY <2>1, <2>4, <3>1, <3>2 DEF HeadInv, HeadKnown
  <2> QED
    BY <1>2, <2>2, <2>3, <2>4 DEF CheckDigest
<1>3. CASE Backup \/ Generate
  <2>1. /\ UNCHANGED <<manifest, orig, at, found>> /\ rpc # "idle" /\ answer = "none"
        /\ \/ rpc' \in {"generate", "compare"} /\ answer' = answer
           \/ rpc' = "idle" /\ answer' = "ERROR"
    BY <1>3 DEF Backup, Generate, HeadInv
  <2>2. HeadKnown(This)
    BY <1>3 DEF Backup, Generate, HeadInv
  <2> QED
    BY <2>1, <2>2 DEF HeadInv, HeadKnown, This
<1>4. CASE Compare
  <2>1. /\ UNCHANGED <<manifest, orig, at, answer>> /\ answer = "none"
        /\ rpc' = "restore" /\ HeadKnown(This) /\ This \in Listed
    BY <1>4, <1>a DEF Compare, HeadInv, TypeOK
  <2>2. ASSUME NEW i \in 1 .. at - 1
        PROVE  found'[CORPORA[i]] = "failed" \/ HeadKnown(CORPORA[i])
    <3>1. CASE CORPORA[i] = This
      BY <2>1, <3>1
    <3>2. CASE CORPORA[i] # This
      <4>1. found'[CORPORA[i]] = found[CORPORA[i]]
        BY <1>4, <1>b, <3>2 DEF Compare, TypeOK
      <4>2. found[CORPORA[i]] = "failed" \/ HeadKnown(CORPORA[i])
        BY <1>4 DEF Compare, HeadInv
      <4> QED
        BY <4>1, <4>2
    <3> QED
      BY <3>1, <3>2
  <2> QED
    BY <2>1, <2>2 DEF HeadInv, HeadKnown, This
<1>5. CASE Restore
  <2>1. /\ UNCHANGED <<manifest, orig, found, answer>> /\ answer = "none"
        /\ rpc' = "digest" /\ HeadKnown(This) /\ at' = at + 1
    BY <1>5 DEF Restore, HeadInv
  <2>2. ASSUME NEW i \in 1 .. at' - 1
        PROVE  found[CORPORA[i]] = "failed" \/ HeadKnown(CORPORA[i])
    <3>1. CASE i = at
      BY <2>1, <3>1 DEF This
    <3>2. CASE i # at
      <4>1. i \in 1 .. at - 1
        BY <1>0, <2>1, <3>2
      <4> QED
        BY <1>5, <4>1 DEF Restore, HeadInv
    <3> QED
      BY <3>1, <3>2
  <2> QED
    BY <2>1, <2>2 DEF HeadInv, HeadKnown
<1>6. CASE Conclude
  <2>1. /\ UNCHANGED <<manifest, orig>> /\ rpc' = "idle"
        /\ \A i \in 1 .. at - 1 :
             found[CORPORA[i]] = "failed" \/ HeadKnown(CORPORA[i])
    BY <1>6 DEF Conclude, HeadInv
  <2>2. answer' = "PASS" => \A c \in Listed : found[c] # "failed"
    BY <1>6 DEF Conclude
  <2>3. \A c \in Listed : \E i \in 1 .. at - 1 : CORPORA[i] = c
    <3>1. 1 .. at - 1 = 1 .. Len(CORPORA)
      <4>1. at > Len(CORPORA)
        BY <1>6 DEF Conclude
      <4> QED
        BY <1>0, <4>1
    <3> QED
      BY <3>1 DEF Listed
  <2>4. answer' = "PASS" => \A c \in Listed : HeadKnown(c)
    BY <2>1, <2>2, <2>3
  <2> QED
    BY <2>1, <2>4 DEF HeadInv, HeadKnown
<1>7. CASE Killed
  BY <1>7 DEF Killed, HeadInv
<1>8. CASE UNCHANGED vars
  BY <1>8 DEF vars, reproVars, HeadInv, HeadKnown, This
<1> QED
  BY <1>1, <1>2, <1>3, <1>4, <1>5, <1>6, <1>7, <1>8 DEF Next

\* Nothing changes what a generator does, so what is known of one stays known
\* until the next check starts.
LEMMA RegenStable ==
  ASSUME UNCHANGED <<emits, orig>>, NEW c \in Listed
  PROVE  RegenKnown(c)' <=> RegenKnown(c)
BY DEF RegenKnown, SameText

\* Every step preserves what is known of the generators: a comparison is with
\* the committed file as it was before the generator overwrote it.
LEMMA RegenNext ==
  ASSUME TypeOK, ContentInv, RegenInv, rpc # "idle" => answer = "none", [Next]_vars
  PROVE  RegenInv'
<1>0. Len(CORPORA) \in Nat /\ at \in 1 .. Len(CORPORA) + 1
  BY ReproAssumption DEF TypeOK
<1>a. at <= Len(CORPORA) => This \in Listed
  <2>1. at <= Len(CORPORA) => at \in 1 .. Len(CORPORA)
    BY <1>0
  <2> QED
    BY <2>1, ThisInIds DEF This
<1>b. \A i \in 1 .. at - 1 : CORPORA[i] \in Listed
  <2>1. \A i \in 1 .. at - 1 : i \in 1 .. Len(CORPORA)
    BY <1>0
  <2> QED
    BY <2>1, ThisInIds
<1>c. rpc # "idle" =>
        \A i \in 1 .. at - 1 : found[CORPORA[i]] = "failed" \/ RegenKnown(CORPORA[i])
  BY DEF RegenInv
<1>d. rpc # "idle" => answer = "none"
  OBVIOUS
<1>1. CASE StartCheck
  <2>1. at' = 1 /\ answer' = "none" /\ rpc' = "digest"
    BY <1>1 DEF StartCheck
  <2>2. 1 .. at' - 1 = {}
    BY <2>1
  <2> QED
    BY <2>1, <2>2 DEF RegenInv
<1>2. CASE CheckDigest
  <2>1. /\ This \in Listed /\ corpus = orig /\ answer # "PASS" /\ rpc = "digest"
        /\ UNCHANGED <<emits, orig, corpus>> /\ committed' = corpus[This]
    BY <1>2, <1>a, <1>d DEF CheckDigest, ContentInv
  <2>2. CASE /\ rpc' = rpc /\ answer' = answer
             /\ at' = at + 1 /\ found' = [found EXCEPT ![This] = "failed"]
    <3>1. ASSUME NEW i \in 1 .. at' - 1
          PROVE  found'[CORPORA[i]] = "failed" \/ RegenKnown(CORPORA[i])'
      <4>1. CASE i = at
        <5>1. found'[This] = "failed"
          BY <2>1, <2>2 DEF TypeOK
        <5> QED
          BY <4>1, <5>1 DEF This
      <4>2. CASE i # at
        <5>1. i \in 1 .. at - 1
          BY <1>0, <2>2, <4>2
        <5>2. CORPORA[i] \in Listed
          BY <1>b, <5>1
        <5>3. found[CORPORA[i]] = "failed" => found'[CORPORA[i]] = "failed"
          BY <2>1, <2>2, <5>2 DEF TypeOK
        <5> QED
          BY <1>c, <2>1, <5>1, <5>2, <5>3, RegenStable
      <4> QED
        BY <4>1, <4>2
    <3> QED
      BY <2>1, <2>2, <3>1 DEF RegenInv
  <2>3. CASE rpc' = "idle" /\ answer' = "ERROR"
    BY <2>3 DEF RegenInv
  <2>4. CASE rpc' = "backup" /\ UNCHANGED <<at, found, answer>>
    <3>1. This' = This /\ committed' = orig'[This']
      BY <2>1, <2>4 DEF This
    <3>2. ASSUME NEW i \in 1 .. at' - 1
          PROVE  found'[CORPORA[i]] = "failed" \/ RegenKnown(CORPORA[i])'
      BY <1>b, <1>c, <2>1, <2>4, RegenStable
    <3> QED
      BY <2>1, <2>4, <3>1, <3>2 DEF RegenInv
  <2> QED
    BY <1>2, <2>2, <2>3, <2>4 DEF CheckDigest
<1>3. CASE Backup
  <2>1. /\ rpc # "idle" /\ committed = orig[This]
        /\ UNCHANGED <<emits, orig, at, found, committed>>
        /\ \/ rpc' = "generate" /\ answer' = "none"
           \/ rpc' = "idle" /\ answer' = "ERROR"
    BY <1>3, <1>d DEF Backup, RegenInv
  <2> QED
    BY <1>b, <1>c, <2>1, RegenStable DEF RegenInv, This
<1>4. CASE Generate
  <2>1. /\ rpc' = "compare" /\ answer' = "none" /\ committed = orig[This]
        /\ exited0' = emits[This].ok
        /\ UNCHANGED <<emits, orig, at, found, committed>>
    BY <1>4, <1>d DEF Generate, RegenInv
  <2>2. This \in Listed /\ emits[This] \in Outcomes
    BY <1>4, <1>a DEF Generate, TypeOK
  <2>3. exited0' => corpus'[This] = emits[This].wrote
    <3> SUFFICES ASSUME emits[This].ok PROVE corpus'[This] = emits[This].wrote
      BY <2>1
    <3>1. emits[This].wrote # Nothing
      BY <2>2, ReproAssumption DEF Outcomes
    <3> QED
      BY <1>4, <2>2, <3>1 DEF Generate, TypeOK
  <2>4. This' = This
    BY <2>1 DEF This
  <2>5. ASSUME NEW i \in 1 .. at' - 1
        PROVE  found'[CORPORA[i]] = "failed" \/ RegenKnown(CORPORA[i])'
    BY <1>b, <1>c, <1>4, <2>1, RegenStable DEF Generate
  <2> QED
    BY <2>1, <2>3, <2>4, <2>5 DEF RegenInv
<1>5. CASE Compare
  <2>1. /\ UNCHANGED <<emits, orig, at, corpus>> /\ answer' = "none"
        /\ rpc' = "restore" /\ This \in Listed /\ backup = orig[This]
        /\ committed = orig[This] /\ exited0 = emits[This].ok
        /\ exited0 => corpus[This] = emits[This].wrote
    BY <1>5, <1>a, <1>d DEF Compare, ContentInv, RegenInv, TypeOK
  <2>2. found'[This] = "failed" \/ RegenKnown(This)
    <3>1. CASE ~exited0
      BY <2>1, <3>1 DEF RegenKnown
    <3>2. CASE exited0 /\ corpus[This] = committed
      BY <2>1, <3>2 DEF RegenKnown, SameText
    <3>3. CASE exited0 /\ corpus[This] # committed
      <4>1. found'[This] =
              IF SameText(backup, corpus[This]) THEN "digest-asserted" ELSE "failed"
        BY <1>5, <2>1, <3>3 DEF Compare, TypeOK
      <4>2. SameText(backup, corpus[This]) => RegenKnown(This)
        BY <2>1, <3>3 DEF RegenKnown, SameText
      <4> QED
        BY <4>1, <4>2
    <3> QED
      BY <3>1, <3>2, <3>3
  <2>3. ASSUME NEW i \in 1 .. at - 1
        PROVE  found'[CORPORA[i]] = "failed" \/ RegenKnown(CORPORA[i])
    <3>1. CASE CORPORA[i] = This
      BY <2>2, <3>1
    <3>2. CASE CORPORA[i] # This
      <4>1. found'[CORPORA[i]] = found[CORPORA[i]]
        BY <1>5, <1>b, <3>2 DEF Compare, TypeOK
      <4> QED
        BY <1>5, <1>c, <4>1 DEF Compare
    <3> QED
      BY <3>1, <3>2
  <2>4. This' = This
    BY <2>1 DEF This
  <2>5. found'[This'] = "failed" \/ RegenKnown(This)'
    BY <2>1, <2>2, <2>4 DEF RegenKnown, SameText
  <2>6. ASSUME NEW i \in 1 .. at' - 1
        PROVE  found'[CORPORA[i]] = "failed" \/ RegenKnown(CORPORA[i])'
    BY <1>b, <2>1, <2>3, RegenStable
  <2> QED
    BY <2>1, <2>5, <2>6 DEF RegenInv
<1>6. CASE Restore
  <2>1. /\ UNCHANGED <<emits, orig, found>> /\ answer' = "none" /\ rpc' = "digest"
        /\ at' = at + 1 /\ This \in Listed
        /\ found[This] = "failed" \/ RegenKnown(This)
    BY <1>6, <1>a, <1>d DEF Restore, RegenInv, TypeOK
  <2>2. ASSUME NEW i \in 1 .. at' - 1
        PROVE  found'[CORPORA[i]] = "failed" \/ RegenKnown(CORPORA[i])'
    <3>1. CASE i = at
      BY <2>1, <3>1, RegenStable DEF This
    <3>2. CASE i # at
      <4>1. i \in 1 .. at - 1
        BY <1>0, <2>1, <3>2
      <4> QED
        BY <1>6, <1>b, <1>c, <2>1, <4>1, RegenStable DEF Restore
    <3> QED
      BY <3>1, <3>2
  <2> QED
    BY <2>1, <2>2 DEF RegenInv
<1>7. CASE Conclude
  <2>1. /\ UNCHANGED <<emits, orig>> /\ rpc' = "idle"
        /\ answer' = "PASS" => \A c \in Listed : found[c] # "failed"
    BY <1>7 DEF Conclude
  <2>2. \A c \in Listed : \E i \in 1 .. at - 1 : CORPORA[i] = c
    <3>1. 1 .. at - 1 = 1 .. Len(CORPORA)
      <4>1. at > Len(CORPORA)
        BY <1>7 DEF Conclude
      <4> QED
        BY <1>0, <4>1
    <3> QED
      BY <3>1 DEF Listed
  <2>3. answer' = "PASS" => \A c \in Listed : RegenKnown(c)
    BY <1>7, <1>c, <2>1, <2>2 DEF Conclude
  <2>4. answer' = "PASS" => \A c \in Listed : RegenKnown(c)'
    BY <2>1, <2>3, RegenStable
  <2> QED
    BY <2>1, <2>4 DEF RegenInv, Listed
<1>8. CASE Killed
  BY <1>8 DEF Killed, RegenInv
<1>9. CASE UNCHANGED vars
  <2>1. UNCHANGED <<emits, orig, corpus, rpc, at, found, answer, committed, exited0>>
    BY <1>9 DEF vars, reproVars
  <2> QED
    BY <2>1 DEF RegenInv, RegenKnown, SameText, This, Listed
<1> QED
  BY <1>1, <1>2, <1>3, <1>4, <1>5, <1>6, <1>7, <1>8, <1>9 DEF Next

\* A check under way has said nothing yet.
LEMMA AnswerNext ==
  ASSUME rpc # "idle" => answer = "none", [Next]_vars
  PROVE  (rpc # "idle" => answer = "none")'
BY DEF Next, StartCheck, CheckDigest, Backup, Generate, Compare, Restore, Conclude, Killed,
       vars, reproVars

\* The invariant holds throughout.
THEOREM Inductive == Spec => []IInv
<1>1. IInv /\ [Next]_vars => IInv'
  <2> SUFFICES ASSUME IInv, [Next]_vars PROVE IInv'
    OBVIOUS
  <2>1. TypeOK' /\ NothingLost' /\ ContentInv' /\ HeadInv'
    BY TypeNext, ContentNext, HeadNext DEF IInv
  <2>2. rpc # "idle" => answer = "none"
    BY DEF IInv, HeadInv
  <2>3. RegenInv'
    BY <2>2, RegenNext DEF IInv
  <2> QED
    BY <2>1, <2>3 DEF IInv
<1> QED
  BY <1>1, InvInit, PTL DEF Spec

\* Wherever the check is killed, no committed corpus is lost.
THEOREM NothingIsLost == Spec => []NothingLost
<1>1. IInv => NothingLost
  BY DEF IInv
<1> QED
  BY <1>1, Inductive, PTL

\* A check that ends leaves every corpus as it found it.
THEOREM LeftAlone == Spec => []LeavesCorporaAlone
<1>1. IInv => LeavesCorporaAlone
  BY DEF IInv, ContentInv, LeavesCorporaAlone
<1> QED
  BY <1>1, Inductive, PTL

\* A PASS vouches for every signed head, earlier kills included.
THEOREM PassMatches == Spec => []PassMatchesHead
<1>1. IInv => PassMatchesHead
  <2> SUFFICES ASSUME IInv, answer = "PASS", NEW c \in Listed
               PROVE  manifest[c] \in {Missing, corpus[c]}
    BY DEF PassMatchesHead
  <2>1. rpc = "idle" /\ HeadKnown(c)
    BY DEF IInv, HeadInv
  <2>2. corpus = orig
    BY <2>1 DEF IInv, ContentInv
  <2> QED
    BY <2>1, <2>2 DEF HeadKnown
<1> QED
  BY <1>1, Inductive, PTL

\* A PASS vouches for every generator that ran to its end, whatever the others
\* did and wherever earlier checks were killed.
THEOREM PassRegenerated == Spec => []PassIsRegenerated
<1>1. IInv => PassIsRegenerated
  <2> SUFFICES ASSUME IInv, answer = "PASS", NEW c \in Listed, emits[c].ok
               PROVE  SameText(emits[c].wrote, corpus[c])
    BY DEF PassIsRegenerated
  <2>1. rpc = "idle" /\ RegenKnown(c)
    BY DEF IInv, HeadInv, RegenInv
  <2>2. corpus = orig
    BY <2>1 DEF IInv, ContentInv
  <2> QED
    BY <2>1, <2>2 DEF RegenKnown
<1> QED
  BY <1>1, Inductive, PTL
=============================================================================
