# A TLA+ model of the RFC 9421 conformance project

The repository holds signed conformance corpora for seven suites (the RFC 9421
negative battery, Web Bot Auth, FAPI message signing, structured fields, JWS,
COSE, ML-DSA) and the programs that keep them honest: generators, signers,
twelve independent language runners per suite, a consensus driver over the
runners, a mutation meta-test of the driver, containers that pin the runtimes, a
tool that seals a run into a signed receipt, and verifiers of corpora and
receipts.

Nothing here is a server. The programs are short scripts that meet in *files*:
a corpus, its manifest and provenance, one results file, a receipt, a public
key. What is hard is therefore not inside one script but between them: what one
script has read is no longer what is on disk, a script dies between two writes,
a result belongs to an earlier file, a script takes another's failure for
something else. The modules state what each script promises under those
conditions, and the runs and proofs show which promises hold.

## 1. Inventory

| component | source | state | operations | promise |
|---|---|---|---|---|
| consensus driver | `tools/run_consensus*.sh` | counters, per-language verdict, result | KAT gate, one iteration per language, report | GREEN only for a large enough field in agreement; the loop decides what the field decides at once |
| mutation meta-test | `tools/mutation_test.sh` | `mut.json`, position, `overall` | mutate, battery, count, result | a section no runner computes is reported; no false alarm |
| reproducibility gate | `tools/check_reproducibility.py` | the corpus files, a backup, per-corpus finding | digest, backup, generate, compare, restore, conclude; killed | leaves the corpora alone, loses nothing, PASS vouches for the signed heads |
| corpus signing | `tools/sign_*.py` | manifest, provenance | read, re-read, write, write; killed | a head commits to the file that was read |
| runtime cells | `kaf/run_cells*.sh` | accumulated results, `cells*.results.json` | one container per cell, write; killed | the cells of one run |
| receipt sealing | `kaf/seal_receipt*.py` | receipt, public key | read corpus, manifest, cells; KAT subprocess; write, write; killed | a receipt names the exact signed artifact and an all-pass run |
| receipt and stack verification | `kaf/kaf_verify.py`, `tools/stack_verify.py` | none (they read) | predicates of the files | they agree, and accept what a finished seal leaves |
| KAT gates | `tools/check_kat*.py` | none | head and anchors of a corpus | accept only the signed, anchored content |
| material tools | `tools/gen_*_material_v0.py` (FAPI, JWS, COSE, ML-DSA) | private keys outside the checkout, frozen public keys and signatures; both files written in place | create, save and load keys, freeze, augment; killed; deleted by hand | the keys behind a frozen signature are the saved ones |
| generators | `tools/gen_*.py` | the corpus file | check every case against the oracle, write, or stop half way | the corpus is what they emit, and tells a lenient verifier from the oracle |
| core battery runners | the twelve `runners/*` over `corpus/negative_*` | as below | seven sections: bases, two header parsers, the Ed25519 key gate, three verifiers | exit 0 iff every case matches; twelve implementations decide alike |
| Web Bot Auth and FAPI oracles and runners | `tools/oracle_{wba,fapi}.py`, the twelve `runners/*wba*` and `runners/*fapi*` | position in the corpus, mismatches | open, enter a section, judge a case, exit | exit 0 iff every case matches; the twelve decide as the oracle; no two take a signature and its malleable twin |
| JWS, COSE, ML-DSA oracles and runners | `tools/oracle_{jws,cose,pqc_mldsa}.py`, `runners/*` | as above | as above | the same, with the rules each corpus' policy names |
| structured-field oracle | `tools/oracle_sfv.py` | a text and a cursor | parse an item, a list, a dictionary; serialize | accepts the grammar; the canonical text reads as the same value |
| structured-field runners | `runners/*sfv*` | as above | as above | the same |
| interoperability gates | `tools/check_*_interop.py` ... | a list of failures | compare a library with published vectors | - |
| CI | `.github/workflows` | none | the tools in sequence, in a fresh checkout | - |

**Interactions.** `run_consensus.sh` calls `check_kat.py` and the runners by
exit status. `mutation_test.sh` calls `run_consensus.sh` and reads only its
output. `seal_receipt.py` calls `check_kat.py` as a process of its own, which
reads the corpus and the manifest *again*. `run_cells.sh` and `seal_receipt.py`
share the one results file, whatever corpus it is of. `check_reproducibility.py`
overwrites each corpus in place while it compares, and has no lock against any
of the others. A material tool, a generator and the runners meet in three files
(keys, material, corpus), each written in place. Every suite has its own copy of
the driver, of the signer, of the cells script and of the seal, over its own file
names.

**Hard behaviours.** The list, each at its line, is `hazards` in
`PROJECT.json`. In groups: a tool killed between two of its writes (signer,
seal, reproducibility gate, material tools, generators); a file that changes between two reads (seal and its
KAT subprocess, cells); results that are stale (the results file, the cached
success of `go test`, `mut.json`); a failure that is taken for something else
(a failing generator for frozen material, a missing interpreter for no gate, a
runner that could not open its corpus for a PASS); the arithmetic of a field
that shrinks; and twelve implementations of one rule that must not differ on any
case the generators write, although each has its own integers, URL parser and
treatment of a key that is not there; a hand-written recursive-descent parser;
and reject cases, which are worth something only if the named rule is the one
reason to refuse them.

## 2. Modules

| module | models | extends / instantiates |
|---|---|---|
| `Consensus` | `run_consensus.sh`, for a suite given as a record | instantiates `ConsensusAbs` |
| `ConsensusAbs` | the decision taken at once, over the whole field | - |
| `ConsensusSuites` | the seven scripts' tables: LANGS, probes, gate interpreter, subshells, default of `--require` | - |
| `MutationTest` | `mutation_test.sh` | instantiates `ConsensusAbs` for the driver |
| `Reproducibility` | `check_reproducibility.py` | - |
| `Sealing` | `sign_negative_v1.py`, `run_cells.sh`, `seal_receipt.py`, `check_kat.py` as the seal calls it, `kaf_verify.py`, `stack_verify.py` | - |
| `Checkout` | the sealing tools and the reproducibility gate in one checkout | extends `Sealing`, instantiates `Reproducibility` on the same `corpus` and `manifest` |
| `VerdictField` | a field of runners over one corpus: opening it, its sections, their cases, the exit status; for suites given as operators | - |
| `Freezing` | the material tools and the generators before the field: keys, material, corpus, kills, deletions; then the field | extends `VerdictField` |
| `NegativePorts` | the twelve runners of the core battery, as operators on a case | - |
| `NegativeCorpora` | the core battery as `gen_negative_v1/v2/v3.py` write it, and `check_kat.py` on its bases | extends `NegativePorts` |
| `WebBotAuthPorts` | `oracle_wba.py`, the twelve ports, `check_kat_wba.py`'s rules, as operators on a case | - |
| `FapiPorts` | the same for FAPI message signing: `oracle_fapi.py`, its twelve ports, `check_kat_fapi.py` | - |
| `JwsSuite`, `CoseSuite`, `MldsaSuite` | a suite's oracle, twelve runners, gate, frozen material and generated corpus | - |
| `Sfv` | the parser and serializer of `oracle_sfv.py`, over texts | - |
| `*Proofs` | theorems and proofs of the module they extend | `TLAPS` |
| `MC*` | values of the constants for TLC (`MCNegative` holds the core battery's for `MCVerdictField`) | the module they check |

How state and actions correspond to the code:

- **Consensus.** `KatGate` is lines 111-124 of the script, `RunNextLang` one
  iteration of `for lang in LANGS` (the case of `run_lang`'s output included),
  `LoopDone`/`Report` the tail. `RunLang(i)` is `run_lang`: the probes decide
  ABSENT, the exit status PASS or FAIL. A runner's exit status is 0 when it
  reproduces the content it finds, when its test tool replays an earlier success
  (`go test`), or when it cannot open the corpus and is one of those that exit 0 then (the
  php runners of every suite, and the go and rust runners of the core battery).
  `[ "$present" -lt "$REQUIRE" ]` with an operand that is no integer is an error,
  which the `if` takes for false (`TooFewPresent`). `InvokeAgain` is another
  invocation, on whatever content the checkout then holds.
- **MutationTest.** `Mutate` writes `mut.json` only when the interpreter is
  there and the corpus has the section; the script ignores its exit status, so
  the iteration otherwise goes on with the file it has. `RunBattery` is the
  driver's decision (`ConsensusAbs!Decide`), `Count` the grep for `NOT GREEN`.
- **Reproducibility.** `run_one` is five actions, because another process may
  look at the corpus between any two of them: `CheckDigest`, `Backup`,
  `Generate` (the corpus is overwritten in place), `Compare`, `Restore` (the
  `finally` clause). `Killed` is the end of the process without its `finally`
  clause; the file being written may be cut short (`Torn`).
- **Sealing.** Each tool is a record with a `pc` and its local variables; each
  `open` is an action. The verifiers are predicates of the files. Digests and
  signatures are ideal: a digest *is* the content it was taken of, and a head or
  a receipt exists only if its tool wrote it. `signedEver` and a cell's `ran` are
  history. `Interleaved` is a constant: with `FALSE` one tool at a time is at
  work (any tool may have been killed before), with `TRUE` all of them are.
- **VerdictField.** `Open`, `EnterSection`, `JudgeCase`, `EndSection` and `Finish`
  are the steps of a runner's `main`; `StartNext` is the driver's loop (the runners
  share only the file). A port's record says what it does where the code of most
  raises: a missing section (go, rust, c and php take it for an empty one), a
  corpus that cannot be read (php goes on).
- **Freezing.** `CreateKeys`/`SaveKeys`, `LoadKeys` and
  `OpenMaterial`/`WriteMaterial` are the material tool, cut where a file is open and
  not yet whole; `OpenToAugment` is the ML-DSA tool that adds the domain separation
  to material frozen without it. `OpenCorpus`/`WriteCorpus` is the generator, which
  holds every case against the oracle first (`Makes`) and opens the file after.
  `Kill` ends whichever is at work; `Delete` is the "intentional re-freeze" of the
  tools' header comments. `StartField` starts the runners on whatever is there. Key
  sets and freezings are numbered, so that a signature remembers what made it.
- **WebBotAuthPorts.** The rules are the same six everywhere, so they are written
  once (`Coverage`, `Freshness`, `Directory`, `Ssrf`, `Ed25519`, `BaseMatches`) with
  a record for what a port does differently (`PythonRules` ... `ElixirRules`). The
  oracle is written separately, from its own code, with its reasons. `WbaCorrect`
  says that a case's expectation is the oracle's, `WbaEmitted` that the case is of
  the kinds the generator writes. A component is a token, an address is denied or
  not, a number is its JSON kind and value; URL and address syntax appears as the
  kinds on which the parsers differ (`short`: 127.1, `odd`: a_b.example, `zoned`: a
  resolved address with the number of an interface, fe80::1%1). Zones in the URL's
  own address, and zones by name, which a host knows or not, are left out.
- **FapiPorts.** Built the same way. A port's `rules` are the things in which a
  case can look different to it: the derived components whose value it is given or
  reads (python's call leaves `@authority` and `@path` out, elixir reads `@scheme`
  too), those it lower-cases, a status that is missing or a string, names, values and
  parameters that outgrow C's buffers, and the hexadecimal strings its decoder and
  its signature library take; the rest of its record is what its driver does with
  what it cannot read. `Gate` is `check_kat_fapi.py`, which writes the builder again
  and is like java's port. A header value is what
  it is a digest of and how it is written, a signature is who made it over what;
  ES256 keeps the integer `s`, and the group order is the constant `Order`. The
  builder that the python port imports is outside the repository and is modelled as
  the other ports' builders; every case has signature parameters, and the policy's
  lists are in lower case, as generated.
- **NegativePorts.** Headers are sequences of characters, because the ports differ in
  how they cut them: `Signature-Input` is parsed on the label, the parenthesis and
  the quotes, `Signature` down to base64. White space is the blank, tab, line feed,
  carriage return and form feed; what a port strips (`trim`) and what it passes over
  between tokens (`blank`) are two sets of its record. A signing base is built per
  port: a status that is a string becomes its text, zero, a quoted text, or is refused,
  and the C port has buffers of 128, 2048 and 8192 bytes. What happens beyond
  the latter is undefined, and so each such case carries one outcome (`overrun`: the
  text whole, cut or the runner dead), which the runs enumerate. The Ed25519 gate is run on a curve of
  Ed25519's shape with 24 points (prime 5 modulo 8, a cyclic group of eight points of
  small order, an order L = 3); decompression, the small-order test and
  canonicity are the ports' own arithmetic. Signatures are ideal: who made
  one, over what, and how its scalar lies to the order. The four ports that call a published package take
  it by its definition. `NegativeCorpora` writes the three generators' cases, with the
  verdicts computed by the reference as the generators do.
- **JwsSuite, CoseSuite, MldsaSuite.** A token or message is what it decodes to,
  with what is wrong with its bytes, if anything; a key is its type and the pair it
  belongs to. The verdict is the oracle's order of checks, with the set of rules a
  verifier enforces as a parameter: the oracle enforces all of them, a lenient
  verifier lacks one. A runner is a record of what it reads differently from the others
  (JSON and base64url in JWS, CBOR and hexadecimal in COSE, hexadecimal in ML-DSA), of
  what its codec or library takes, and of what it does not catch and so ends on. The
  material and the corpus are operators of the numbers of the key set and the freezing.
- **Sfv.** One operator per method of the parser, each from a text and a cursor to a cursor and a
  value, or `Failed`. Here the text *is* a sequence of characters, since the
  properties are about texts; digit limits and character classes are parameters.
  `b64decode(validate=True)` is CPython's from 3.12.4 on (the workflows ask for 3.12);
  an earlier one also takes padding in excess, as in `:AAAA=:`.
- **Checkout.** `CheckoutNext` is a step of a sealing tool or a step of the
  reproducibility gate; both act on the one `corpus`, and the signer replaces the
  manifests that the gate reads. `Unedited` says that nobody has written a corpus
  but the gate itself.

## 3. Runs

| run | instance | question | properties |
|---|---|---|---|
| `consensus` | all seven scripts, their real tables, hosts missing any one tool or some two, one broken runner or a field that shares an error; and a three-language script on every host with every runner behaviour, both path forms, two invocations with replayed results | is a GREEN earned, does a full field imply that the KAT gate ran, does the loop implement the atomic decision? | `IInv`, `GreenIsEarned`, `FullFieldImpliesKat`, `Implements` |
| `mutation` | three runners (one skips and replays), each echoing any sections, broken or absent; three corpora | what does a PASS of the meta-test show, and can it alarm falsely? | `IInv`, `EchoedSectionIsReported`, `HonestRunnerSuffices` |
| `reproducibility` | two corpora, every state of the files, generators that write anything and stop anywhere, two checks killed anywhere | does the gate leave the checkout alone and vouch for what it says? | `IInv`, `LeavesCorporaAlone`, `NothingLost`, `PassMatchesHead`, `PassIsRegenerated` |
| `sealing` | two corpora that share a results file, two contents, two cells, two seal keys; one tool at a time, killed anywhere | does a receipt name the signed artifact, do the verifiers agree? | `IInv`, `SealedIsSignedArtifact`, `StackImpliesKaf`, `SealEndsValid` |
| `checkout` | one corpus with CRLF and LF forms; every tool and the gate interleaved, killed anywhere | what is still true of a VALID receipt? do the tools take anything from what the gate promises of the corpora? | `ValidWasSigned`, `CheckSurvivesTools`, `CheckoutInv` |
| `verdicts` | the twelve ports each of the core battery, Web Bot Auth, FAPI, JWS, COSE and ML-DSA; for each suite, corpora of one section (a good case and one more: the enumerated values in combination, with the right and the wrong expectation), a good corpus with one section, or all, left out or empty, no corpus; and what the material tools and generators leave when killed and started again | what do one exit 0, the field's, and the gate's acceptance say of a corpus? are keys ever orphaned? does a made corpus tell lenient verifiers from the oracle? does every runner end? | `TypeOK`, `ExitsTell`, `StrictZeroIsEarned`, `StampedFailsNoPort`, `FullFieldIsOracle`, `FieldImpliesGate`, `GateImpliesField`, `KeysInv`, `KeysOutliveWhatTheySigned`, `FrozenIsUsable`, `ProbedRulesAreCaught`, `FieldEnds` |
| `sfv` | every text of a bounded number of pieces, seven families of pieces, under each field type | does the parser accept the grammar of RFC 8941, does the canonical text read as the same value, which of repeated keys counts? | `AcceptsTheGrammar`, `CanonicalKeepsValue`, `ReadsAsMerge` |

The other five runs (`consensus_replay`, `mutation_stale`, `repro_frozen`,
`sealing_stale`, `rule_unprobed`) end in a violation; see *Disagreements*.

**Bounds.** *Consensus:* two invocations are enough for a result to be replayed
once, and the drifted and the signed content are all a runner can tell apart; a
third language is needed so that a failing, an absent and a passing one meet.
*MutationTest:* three sections, so that a section is missing after one that was
written. *Reproducibility:* two corpora, so that a kill in one leaves another
unchecked, and two checks, so that the second meets what the first left.
*Sealing:* an edit, two signings, one run of the cells and two seals
(`SerialStarts`): enough to sign both corpora or one twice and to seal the one
results file for each. *Checkout:* one start of each tool.
*Verdicts:* ports judge the cases one by one and independently, so a corpus whose
one case is in question reaches every verdict of every port; that case comes
after a good one, so a section's loop goes on, and the other sections are present
and empty. Cutting sections from a good corpus reaches every position of a missing
one (for JWS, COSE and ML-DSA, of at most two cases a section). The values are two or three of each kind the rules tell apart
(timestamps on both sides of and at each end of the window, directories of up to
two keys, a group order of 7 with `s` at the ends and on both sides of its half;
addresses with a zone, covered `@authority`, `@path` and `@scheme`, statuses that are
strings, texts longer than C's buffers with each of their outcomes, and each of the five
white-space characters in each place of a header). `KatRederives` is the gate's recomputation; its refusal of an empty
section, which a one-section corpus would always meet, is left out; and the core
battery, which is read a section at a time, is cut into parts of a few cases each. A
missing `rsa_verify`, which v1 and v2 do not have, is an empty one to every runner
and is written so. A corpus that cannot be read is no instance for this suite
here: its go, rust and php runners skip then, and what that does to the field is
`consensus`'s question. Base64 there has four of the
sixty-four characters, among them one with no low bits set and one with all.
*Freezing:* `MaxKeys = 3`, `MaxFreezings = 2` and `MaxKills = 2`: a tool killed while it saves keys, once or
twice, and a further set of keys after it; or killed while it freezes, and a second freezing. *Sfv:* the pieces of a
family are the characters its rules turn on with one that they do not; texts grow to
between four and seven pieces (`MCLimit`), enough for a value, a parameter and what
follows it. The limits on digits are scaled (`IntDigits = 3` for 15, `WholeDigits = 2`
for 12, `FractionDigits = 2` for 3, `DecimalChars = 5`), so that texts reach both
sides of each. The counters' only bounds are `MaxRuns`, `MaxChecks`, `MaxStarts`,
`MaxKeys`, `MaxFreezings` and `MaxKills`.

**Fairness.** `PipelineSpec` assumes weak fairness of the steps of a runner between its
cases and of the driver that starts the next one (`Between`), and of judging a case
(`Judging`, whose `ENABLED` is written out as `CaseLeft`): a runner is a process that reads one file,
waits for no other and is never signalled by the driver, so a step that it can take
it takes. `FieldEnds` follows from it and from what the model says of each loop: every
iteration moves a cursor, and a section that is missing is passed and not looked up
again. Nothing is assumed of the tools that are started by hand (freezing,
generating, signing, sealing): each may never be started, or be killed, and the
properties about them are safety properties. All runs say `CHECK_DEADLOCK FALSE`,
because a script that has ended does stop.

### Disagreements

Five runs end in a violation: the property is what the repository says of the
program, the counterexample what the code does.

| run | said | done |
|---|---|---|
| `consensus_replay` | "every implementation reproduces every case in the corpus" (`tools/run_consensus.sh:146`) | `go test` replays its success of an earlier content: the corpus lies outside its module |
| `mutation_stale` | "every mutation was caught" (`tools/mutation_test.sh:69`) | with python3 and working runners, on a v1 or v2 corpus the `rsa_verify` mutation is not written; the battery runs on the `ecdsa_verify` one again and it is counted CAUGHT |
| `repro_frozen` | "a hand-edited or drifted corpus cannot pass" (`tools/check_reproducibility.py:4`) | a generator that fails for any reason is taken for frozen material |
| `sealing_stale` | the runners ran "against the one frozen, signed corpus" (`kaf/README.md:11`) | the results file names no corpus; one of another corpus, or of an earlier content, is sealed |
| `rule_unprobed` | the battery covers "the JOSE security rejections that lenient verifiers get wrong (..., unknown crit, kid selection)" (`tools/gen_jws_v0.py:119`) | the crit and kid rejections carry a header put before an old signature, so the signature alone refuses them: a verifier without the crit rule, or one that takes the first key whatever the kid, passes every case |

Seen while modelling, and readable from the modules, without a run of their own:
"every runner computes the identical verdict from the same policy bytes"
(`tools/oracle_wba.py:54`) is true of the cases the generator writes
(`PortsAgree`), not of every case: a host `127.1` is an address for the
typescript, dotnet and elixir ports and a name for the others, `a_b.example` is
no host for the three ports with `java.net.URI`, an address with a zone is none for
seven ports and in no denied range for go (`verify_wba_go.go:211`), java alone refuses `HTTPS://`,
python takes `true` and typescript takes `15.0` for an integer, a key without
kid matches an empty keyid in go, and a section that is missing fails eight
ports and not the other four (the records in `WebBotAuthPorts`);
in FAPI, whose corpus has none of these cases, python builds no base over `@authority` or
`@path` (`verify_fapi.py:90-94` does not pass them on), elixir lower-cases the first
and knows `@scheme`, go, c, kotlin and scala refuse a status that is a string, the
typescript port signs over a
missing status as `undefined`, c cuts a name at 127 bytes and a value at 4095, php takes a PS256
signature with a zero byte in front, elixir ends on upper-case hexadecimal, and
rust lets a base that is no base64 pass for one that cannot be built (the records
in `FapiPorts`);
in JWS, python and php end on an alg that is a list, whose only element typescript takes;
base64url with spare bits set is refused by rust and ruby alone, a line feed behind a
signature read by go and php, a header with text behind it by java, kotlin and scala; a
kid that is a number equals the text of it for kotlin and scala and ends java; HS256
is verified by python alone; and an EC coordinate without its leading zero byte, which
`gen_jws_material_v0.py:51` writes for one key in a hundred or so, is read by python,
typescript, go, java, kotlin, scala and the gate and refused by the other six (no
committed key has one, and COSE's material pads; the records in `JwsSuite`);
in COSE, cbor2 takes booleans and floats for canonical, the eleven hand-written codecs do
not, keep a repeated pair that cbor2 merges, and differ in a text that is no UTF-8,
in 2^64 - 1 and in 2^53 + 1; python ends on an array as alg or in crit, elixir on a
boolean and on upper-case hexadecimal; an unknown key name ends eight runners, at once or at the key type, and
is a rejection for go, rust, c and elixir; php takes a PS256 signature with a zero byte
in front here too (the records in `CoseSuite`);
in ML-DSA, python and the gate read hexadecimal with spaces, typescript a bad second
digit, java, kotlin and scala digits of other scripts (the records in `MldsaSuite`);
in the core battery, a status that is a string is refused by rust and c, zero for java,
kotlin and scala and quoted for dotnet, c writes values of 2048 bytes and more past its
buffer (`negative_v1.c:67-76`), passes over blanks only where the others pass over any
white space, and strips with php no form feed (the records in `NegativePorts`);
`gen_negative_v1.py:164` notes "header value OWS trimmed" of a case in
which nothing is trimmed, line 12 announces a "wrong-length reject" where the empty value
`sig=::` is stamped as read, line 13 a "non-canonical reject" although no key of the
battery is a non-canonical encoding, and line 117 speaks of the "single" pad of a
64-byte value that has two; its gate reads `signing_base` and no other section
(`MCKatReads`);
the KAT gate, called fail-closed (`tools/run_consensus.sh:111`), is skipped on a
host without its interpreter (`KatGate`; `FullFieldImpliesKat` says when that
cannot end in GREEN); with a relative corpus path, which no longer resolves
in a subshell that has changed directory, the core battery's go and rust runners
and the structured-fields php runner read nothing and are counted as PASS
(`Seen`, `ExitsZero`); a `--require` that is no integer
disarms the size test (`TooFewPresent`); a mutation that only one honest runner
notices is CAUGHT, so an echoing runner beside it is not reported, and neither is
a field of no runners (`Count`); a run of a part of the cells is sealed
(`AllPass`); `kaf_verify.py` prints VALID for a corpus that is not in the
checkout (`KafValid`); every signing replaces the provenance "append-only" chain
(`WriteProvenance`).

## 4. Proofs

TLC checks the instances above; `tlapm` proves the following for every value of
the constants that satisfies the named assumptions. Digests are ideal in the
modules, so the theorems are about the tools' logic and not about SHA-256 or
Ed25519.

| module | theorem | says |
|---|---|---|
| `ConsensusProofs` | `TypeCorrect`, `Inductive`, `GreenEarned`, `FullFieldKat`, `Refinement` | for any suite, host, contents and number of invocations: `TypeOK`, `IInv`, `GreenIsEarned`, `FullFieldImpliesKat`, and that `Consensus` implements `ConsensusAbs` |
| `MutationProofs` | `Inductive`, `EchoReported`, `HonestSuffices` | for any mutations, runners and corpora |
| `ReproducibilityProofs` | `Inductive`, `NothingIsLost`, `LeftAlone`, `PassMatches`, `PassRegenerated` | for any corpora, generators and number of checks |
| `SealingProofs` | `Inductive`, `SealedProperly`, `VerifiersAgree`, `SealsVerify` | one tool at a time; for any corpora, cells, keys and runners |
| `SealingProofs` | `ValidSigned` | however the sealing tools interleave |
| `SealingProofs` | `CheckoutInductive`, `CheckoutSigned`, `CheckSurvives` | the tools and the reproducibility gate in one checkout, interleaved and killed anywhere: `CheckoutInv`, `ValidWasSigned`, `CheckSurvivesTools` |
| `FreezingProofs` | `Inductive`, `ExitTells`, and under hypotheses about the ports `StrictZero`, `StampedPasses`, `FullField`, `GatePasses`, `FieldPasses` | for any suites, sections, ports and corpora |
| `FreezingProofs` | `PipelineInductive`, `KeysSurvive` | wherever the tools are killed and whatever is deleted, the keys behind material and corpus are the saved ones; for any suites, bounds and generators |
| `FreezingProofs` | `PipelineStrictZero`, `PipelinePasses`, `PipelineFullField`, `PipelineGatePasses`, `PipelineFieldPasses` | the field theorems over what the tools leave |
| `FreezingProofs` | `PipelineTypes`, and under hypotheses about the generators `PipelineUsable`, `PipelineProbes` | for any suites: what is left on disk is of its types, gives a corpus, and tells ports without a probed rule |
| `FreezingProofs` | `JwsPortsAgree`, `CosePortsAgree`, `MldsaPortsAgree` | the twelve ports of each of these suites decide every case of the generator's kinds as the oracle |
| `FreezingProofs` | `GeneratorsSound` | of whatever whole material, the three generators write what their oracles decide, and probe the rules: the hypotheses of `PipelineUsable` and `PipelineProbes` |
| `FreezingProofs` | `FrozenSuitesUsable`, `FrozenSuitesProbe` | `FrozenIsUsable` and `ProbedRulesAreCaught` for the three suites, over any number of kills and keys |
| `FreezingProofs` | `SuitesStrictZero`, `SuitesPass`, `SuitesFullField`, `SuitesGatePasses`, `SuitesFieldPasses` | the field theorems for a field of all six suites, over what the tools leave, with their hypotheses about ports and gates discharged |
| `NegativeProofs` | `NegativePortsAgree`, `PythonIsTheReference`, `KatTakesTheReference` | the twelve runners of the core battery decide every case of the generators' kinds as the reference (a message that fits C's buffers, headers of any length without white space but blanks); what python's matches is correct; the gate takes it |
| `NegativeProofs` | `RoundTripsIsCanonical` | the C port's base64 refuses what is not canonical, and nothing else, for texts of any length over any table |
| `WebBotAuthProofs` | `PortsAgree`, `PythonIsTheOracle`, `GateIsTheOracle`, `GateTakesTheOracles` | the twelve ports decide every case of the generator's kinds as the oracle; the gate passes what the oracle stamps, no less and no more |
| `FapiProofs` | `PortsAgree`, `JavaIsTheOracle`, `PythonIsTheOracle`, `GateIsTheOracle`, `GateTakesTheOracles` | the same for the FAPI ports and their gate; of a case of any kind java's port matches only the oracle's expectation, python's only where it is given all that is covered |
| `FapiProofs` | `NoTwinAccepted` | of a signature and its malleable twin, the twelve ports together take at most one |

**Assumptions.** `SuiteAssumption`, `EnvironmentAssumption` and
`GateAssumption` (the gate's interpreter is the toolchain of some language: true
of all seven scripts, and what `FullFieldKat` rests on) in `Consensus`;
`MutationAssumption`, `ReproAssumption`, `SealingAssumption`, `VerdictAssumption`,
`FreezingAssumption` (a generator's output is a corpus of the suite or it refuses; material
without its domain separation is refused) in theirs, `CheckoutAssumption` (the corpora
that are signed are those that are checked, `check_reproducibility.py:51`),
`SextetAssumption` (a base64 table gives six bits and has no padding character), and
`SfvAssumption`. TLC evaluates each of them in a run. The theorems of
`WebBotAuthProofs` have as hypotheses the shape of a case (`CaseShape`) and that
timestamps and the skew are integers that every port's arithmetic holds (`Exact`);
those of `FapiProofs` that a case has its shape and the group order is an integer
(for `NoTwinAccepted`: odd, as the order of P-256 is); those of `NegativeProofs`
that a header is a text and that the ported arithmetic of Ed25519 finds the points,
and those of small order, that the definition has (`KeysAsDefined`): a statement
about one curve, which TLC evaluates for the small one (`CurveAssumption`).

The theorems of `FreezingProofs` that name suites have as hypotheses that a suite is
what its module defines: `FrozenSuites` says of every suite with material that it is
one of the three (`IsJws`, `IsCose`, `IsMldsa`), `AllSuites` of every suite that it is
one of the six (`IsNegative`, `IsWba` and `IsFapi` besides). Each equates the constant
operators of `Freezing` with the module's, as `MCVerdictField` does for TLC, and
gives the shape of the corpora (`Shaped`; for JWS `JwsShape`: at least one key is held,
no algorithm is named as the marker of an exception, and crit lists nothing that
jwcrypto understands, since the oracle refuses any crit and the gate does not). `AnchoredFiles`, for the core
battery's gate alone, says that the messages in the places for which `check_kat.py`
holds hand-written bases are the ones those were written for: with another message
and its right base the runners would match and the gate refuse. It and the shapes are
true of every file of the run. `MarkersApart`,
`AbsentIsApart` and `ListsAreApart` say that the markers of what is not there are none of the
data: `Refused` has no section, `Missing` no case, `Absent` no key type. TLC's model
values are apart from all data by construction but have no domain it could evaluate,
so these are hypotheses of the theorems and not assumptions of the modules.

**Arguments.**
- *Consensus.* `GreenIsEarned` speaks of the end of the loop. The strengthening
  is `LoopInv` (what the counters are, for the languages passed), `GateInv` (what
  the gate established once it is behind), `ResultInv` (where the loop is when
  something is printed) and `MemoInv` (only replaying runners are ever replayed).
  `FullFieldKat` then counts: if all of `LANGS` are required, all are present, so
  the language whose toolchain holds the gate's interpreter is, so the gate was
  not skipped. The refinement maps the loop's steps before `Report`, and a
  passing gate, to stuttering; `Report` and a failing gate decide.
- *MutationTest.* `LoopInv` says what `overall = 0` shows for the sections
  behind; the step needs `OutInv` (what the driver's answer meant) and `FileInv`
  (whose mutation was in the file). `HonestInv` carries the opposite direction.
- *Reproducibility.* `ContentInv` says where the committed content is in each
  phase: in the file until the generator runs, in the backup after. `HeadInv`
  carries what the digest check established to the end of `main`, which is what
  makes a PASS vouch for the heads although the file is rewritten in between.
  `RegenInv` does the same for the comparisons: the digest that is compared with was
  taken before the generator ran, what is compared is what it wrote, and a check
  that goes on has either counted the corpus as failed or found the texts the same.
- *Sealing.* `HeadInv` holds however the tools interleave and gives
  `ValidSigned`: a head that is written is of a signed content, the seal copies
  it, and `kaf_verify.py` compares file and head. `SerialInv` says that what a
  seal under way has read is still on disk when no other tool runs, although it
  and its KAT subprocess read separately; it gives the other three.
- *Checkout.* `Sealing`'s `HeadInv` does not speak of corpora, so the gate keeps it, and
  what the gate knows of the corpora (`ContentInv`, `RegenInv`) is kept by every tool that
  writes none of them (`ToolsSpareCorpora`): all but the editor, hence `Unedited`. Each
  module's proof is reused for its own steps; the gate's goes through a second instance of
  `Reproducibility`, whose definitions are shown to be those of the first (`SameCheck`,
  `SameSteps`). What the gate knows of the signed heads, its own `HeadInv`, is
  lost when the signer replaces them, so that a PASS matches the heads
  (`PassMatchesHead`) is promised by the gate alone and not in a shared checkout.
- *VerdictField.* What a runner has counted is known only at its end; `IInv` says
  that one under way has counted no mismatch iff it met none in the sections and
  cases behind it (`JudgedSoFar`), so that an exit status tells whether the runner
  reproduces the file: `ExitsTell`, which the run checks in its place, since `IInv`
  looks at every case of every section in every state. What a status is worth depends on
  the ports, and the theorems take it as hypotheses (`PortsFaithful`, `OracleTwin`,
  `GateFaithful`, `GateComplete`).
- *Freezing.* What must not happen is that keys are overwritten or lost while something
  signed with them is on disk. `KeysInv` says so of what a tool holds in memory and is
  about to write: keys are saved before they sign, material is only opened over none
  or over its own, and torn keys are deleted only when nothing was signed with them. The field
  then runs on a file that no tool changes, so `IInv` and the field theorems carry over.
- *Suites of signatures.* That the ports agree is shown as for Web Bot Auth, from what they
  have in common on well formed input; for JWS it needs that a lookup in the key
  set is the same first hit however it is written. That the generators are sound is a
  statement about three tables of cases, but for any keys, freezing and
  bound, so it is not a computation: one predicate per suite says when a signature is
  genuine (`JwsGenuine`, `CoseGenuine`, and the lengths and domain of
  `MldsaCaseSound`), one lemma that the oracle accepts exactly then (`JwsHeldSound`,
  `CoseCaseSound`), and each case is shown to be genuine, or not, by how its maker
  signs it. The port without a probed rule accepts one of the cases that expect a
  rejection. `GeneratorsSound` combines them, and `FrozenMakes` with `KeysInv` carries it to
  every state of the tools. The gates decide with the libraries' verifier instead of the
  oracle's; on cases that raise no exception both are the same (`CoseGateAgrees`, `JwsLookups`,
  `JwsGateAgrees`).
- *WebBotAuthPorts.* Each port's rules satisfy `Ordinary`: on the kinds of value the
  generator writes they agree, whatever they do elsewhere. Each rule is shown
  equivalent to the oracle's reason being "ok"; the directory needs that the
  first match is unique. python needs no `Ordinary`: it has the oracle's own
  kinds everywhere, zones included, which is what `OracleTwin` asks.
- *FapiPorts.* The same argument with `OrdinaryPort`: a lower-case signature is
  decoded alike everywhere, no port ends on what the generator writes, and on
  `FapiEmitted` (of the derived components `@method`, `@target-uri` and `@status` alone, the
  last with a number, and names and values that fit C's buffers) all build the same
  base (`SameLine`, `SameBase`). Outside it they do not, python's port least: it takes
  a base over `@path` for one that cannot be built. The port whose rules are the
  oracle's and the gate's on every case is java's (`JavaIsTheOracle`).
  `NoTwinAccepted` is arithmetic: with an odd order exactly one of `s` and
  `Order - s` is above the half (`OneTwinIsHigh`), and every port rejects that one.
- *NegativePorts.* On `NegativeEmitted` all ports build the same base (`SameBases`). What
  they strip and pass over is the same on a text whose only white space is the blank
  (`SameTrim`, `SamePast`), and
  every place that the header parsers look for (the end of a label, the parenthesis, the
  last quote) is a first or last hit of a set that depends only on that
  (`SameInputParse`, `SameValueParse`). What is between the colons of a `Signature` is then
  judged by two programs: the languages' libraries, by the definition of canonical base64,
  and the C port, by decoding four characters at a time into three bytes, encoding those
  again and comparing. `RoundTripsIsCanonical` takes a quadruple apart with the
  arithmetic of `div` and `mod`: the characters come back iff the bits that were
  dropped were zero, which only a last quadruple with padding can violate, and padding
  anywhere else never comes back.
- *The six suites* (all but structured fields). What the field theorems assume of ports and gates is shown for the suites
  of signatures (`Frozen...`) and for the other three (`Reference...`), and joined
  (`SuitesFaithful`, `SuitesTwin`, `SuitesGateFaithful`, `SuitesGateComplete`). The twin of
  the oracle is python's port, in FAPI java's; in the latter three it is also one that
  fails on a missing section, so that a field that is all green is complete. No
  port of the suites of signatures is strict, so `SuitesStrictZero` says something of the
  other three.

**Only model-checked.** `FieldEnds` (liveness), the three properties of `Sfv` (its
parser is recursive), the tables of `ConsensusSuites`, and that the ported arithmetic of
Ed25519 finds the points that the definition has (`KeysAsDefined`, on one small
curve: for the curve of the code it is number theory about a 255-bit prime).
Liveness under fairness, `ENABLED` and recursive operators are out of the prover's reach,
and the induction theorems of its library too, whose operator parameter none of the
provers can instantiate; where an induction over places is needed (a first hit exists) it
is taken from the well-foundedness of the naturals (`LeastHit`).

## 5. Not modelled

- The twelve structured-field runners: python's hands each case to the oracle, which is
  modelled; the others write the parser and the serializer again, each in its language.
- The interoperability and freeze tools: sequential comparisons of one library call
  per published vector. CI: sequential calls in fresh checkouts. The corpora: data.
- Of modelled tools: the creation of a signing key on first use, the optional check of
  sibling checkouts in `stack_verify.py`, the bytes of anchors, digests and signatures; of
  the generators of Web Bot Auth and FAPI only the kinds of case they write and how they end, of
  the structured-field one only how it ends.

`PROJECT.json` lists each component with its status.

## 6. Plan

1. *Done:* consensus, mutation, reproducibility, sealing and their composition;
   the field of runners with every suite but the structured fields; the tools that freeze
   and generate; the structured-field oracle; with their proofs.
2. *Done:* theorems that the JWS, COSE and ML-DSA ports are faithful and their
   generators sound. The same for the core battery, whose signatures are computed
   on a small curve: the rules about texts first.
3. The suites' own signers, cells and seals as further instances of `Sealing`
   (the seals with a sequence number in the receipt's name).
4. The structured-field runners, compared with `Sfv` on the same texts.
