--------------------------- MODULE OnePassScripts ---------------------------
(***************************************************************************)
(* The evaluation scripts as the programs that module OnePass runs. A      *)
(* definition P24b... is of scripts/p2_24b_*.py. What the contract pins    *)
(* down is named by a thing: the runner (the script itself), the contract  *)
(* (its analysis id), the code and the rules of the product, where its     *)
(* modules were imported from, and the corpus.                             *)
(***************************************************************************)
EXTENDS Integers, Sequences, SequencesExt

CONSTANTS
  Fixtures,  \* the sources with attacks, a sequence
  Channels   \* the benign sources, a sequence

F == ToSet(Fixtures)
C == ToSet(Channels)

-----------------------------------------------------------------------------
(* The steps.                                                              *)

Bare == [do |-> "plain", things |-> {}, items |-> {}, words |-> {}, status |-> "none",
         in |-> "none", of |-> "none"]

Look(things) == [Bare EXCEPT !.do = "look", !.things = things]
Take(things) == [Bare EXCEPT !.do = "take", !.things = things]
Check(things) == [Bare EXCEPT !.do = "check", !.things = things]

Claim == [Bare EXCEPT !.do = "claim"]
Sign == Bare
Fresh == [Bare EXCEPT !.do = "fresh"]
MakeDir == [Bare EXCEPT !.do = "mkdir"]
Report == Bare

Publish(status) == [Bare EXCEPT !.do = "publish", !.status = status]
Expect(status) == [Bare EXCEPT !.do = "expect", !.status = status]

Open(i) == [Bare EXCEPT !.do = "save", !.items = {i}]
Save == [Bare EXCEPT !.do = "save"]

\* The result of a computation is one of some words, or an error.
Compute == [Bare EXCEPT !.do = "score", !.words = {"done"}]
Score(i, words) == [Bare EXCEPT !.do = "score", !.items = {i}, !.words = words]
Count(i) == [Bare EXCEPT !.do = "count", !.items = {i}]
Tally == [Bare EXCEPT !.do = "tally", !.items = F]

Some(items) == [Bare EXCEPT !.do = "some", !.items = items]
Agree(items) == [Bare EXCEPT !.do = "agree", !.items = items]

\* Steps that are in no try yet are in this one.
In(try, steps) == [k \in DOMAIN steps |->
  IF steps[k].in = "none" THEN [steps[k] EXCEPT !.in = try] ELSE steps[k]]

\* try ... except around a run: the status is published; around a row: the
\* handler of item i saves and counts, or leaves that to the steps that follow.
Try(status, steps) ==
  Append(In("run", steps), [Bare EXCEPT !.do = "except", !.of = "run", !.status = status])
TryRow(i, does, steps) ==
  Append(In("row", steps),
         [Bare EXCEPT !.do = "except", !.of = "row", !.items = {i}, !.words = does])

Each(items, Row(_)) == FlattenSeq([k \in DOMAIN items |-> Row(items[k])])

\* A script with what can be told from its steps: all that it pins down, the
\* items it goes through, those its summary counts, and what it compares with
\* the contract after it was taken for the last time.
Script(lock, steps) ==
  LET LastTaken(t) == Max({0} \cup {k \in DOMAIN steps :
                                       steps[k].do = "take" /\ t \in steps[k].things})
  IN  [lock |-> lock, steps |-> steps,
       things |-> UNION {step.things : step \in ToSet(steps)},
       items |-> UNION {step.items : step \in ToSet(steps)},
       counted |-> UNION {step.items : step \in
                          {step \in ToSet(steps) : step.do \in {"count", "tally"}}},
       checked |-> UNION {{t \in steps[k].things : k > LastTaken(t)} : k \in
                          {k \in DOMAIN steps : steps[k].do = "check"}}]

Contract == <<Take({"contract"}), Check({"contract"})>>
Acquire == <<Claim, Sign>>

-----------------------------------------------------------------------------
(* P2-17C and P2-21: a source is verified when its turn comes, and its     *)
(* error is its own. Only the verification of the product is in a try.     *)

P17c_load_product == <<Take({"code"})>>
P17c_verify_frozen_state == <<Look({"code", "rules"})>>

P17c_dataset(i) ==
  <<Open(i)>> \o
  TryRow(i, {"save"},
    <<Look({"attack"}), Save, Take({"attack"}), Score(i, {"hit", "miss"}), Save>>)

P17c ==
  Script("given",
    Acquire \o <<Take({"runner"}), Publish("started")>>
    \o Try("failed", <<Check({"runner"})>>)
    \o P17c_load_product
    \o Try("preflight_failed",
         P17c_verify_frozen_state \o <<Take({"rules"}), Publish("preflight_passed")>>)
    \o Each(Fixtures, P17c_dataset)
    \o <<Tally, Publish("completed"), Report>>)

P21_load_product == P17c_load_product
P21_verify_frozen_state == P17c_verify_frozen_state
P21_dataset(i) == P17c_dataset(i)

P21 ==
  Script("given",
    Acquire \o <<Take({"runner"}), Publish("started")>>
    \o Try("failed", <<Check({"runner"})>>)
    \o P21_load_product
    \o Try("preflight_failed",
         P21_verify_frozen_state \o <<Take({"rules"}), Publish("preflight_passed")>>)
    \o Each(Fixtures, P21_dataset)
    \o <<Tally, Publish("completed"), Report>>)

-----------------------------------------------------------------------------
(* From P2-24B on all that follows the first write is in one try, the      *)
(* report of the completed result too.                                     *)

Started(steps) ==
  <<Take({"runner"}), Publish("started")>> \o Try("failed", <<Check({"runner"})>> \o steps)

(* P2-24B and P2-24C: one benign source, measured only if it can be parsed *)
(* as expected.                                                            *)

\* Mutant of P24b_product: the rules are not hashed.
P24b_product_unhashed == <<Take({"code"}), Look({"code"})>>
P24b_product == <<Take({"code"}), Look({"code", "rules"})>>
P24b_load_evtx == <<Take({"benign"}), Compute>>

P24b ==
  Script("given", Acquire \o Started(
    P24b_product \o <<Take({"rules"}), Look({"benign"}), Publish("source_verified")>>
    \o P24b_load_evtx
    \o <<Expect("failed"), Compute, Publish("completed"), Report>>))

P24c_product == P24b_product
P24c_load_and_eligibility_check == <<Take({"benign"}), Compute>>

P24c ==
  Script("given", Acquire \o Started(
    P24c_product \o <<Take({"rules"}), Look({"benign"}), Publish("source_verified")>>
    \o P24c_load_and_eligibility_check
    \o <<Expect("failed"), Publish("label_eligibility_passed"), Compute,
         Publish("completed"), Report>>))

(* P2-25 and P2-26C: all sources are verified before the first is read.    *)

P25_product == P24b_product
P25_verify_all_sources == <<Look({"attack"})>>

P25_load_evtx == <<Take({"attack"}), Compute>>

P25_fixture(i) ==
  <<Open(i)>> \o
  TryRow(i, {"save"}, P25_load_evtx \o <<Save, Score(i, {"hit", "miss"}), Save>>)

P25 ==
  Script("given", Acquire \o Started(
    P25_product \o <<Take({"rules"})>> \o P25_verify_all_sources \o <<Publish("sources_verified")>>
    \o Each(Fixtures, P25_fixture)
    \o <<Tally, Publish("completed"), Report>>))

\* The row of a channel is added once it was parsed; it may be empty.
P26c_product == P24b_product
P26c_verify_sources == <<Look({"benign"})>>
P26c_load_evtx(c) == <<Take({"benign"}), Score(c, {"parsed", "empty"})>>
P26c_channel(c) == P26c_load_evtx(c) \o <<Save>>

P26c ==
  Script("given", Acquire \o Started(
    P26c_product \o <<Take({"rules"})>> \o P26c_verify_sources \o <<Publish("sources_verified")>>
    \o Each(Channels, P26c_channel)
    \o <<Some(C), Publish("parsed"), Compute, Publish("completed"), Report>>))

-----------------------------------------------------------------------------
(* P2-35J to P2-36C: attacks and benign sources, under a lock in the home  *)
(* directory.                                                              *)

HomeScript(acquire, steps) == Script("home", Contract \o acquire \o Started(steps))

(* P2-35J and P2-35K count a fixture before its row is written, inside the *)
(* try whose handler counts an error.                                      *)

P35j_acquire_global_lock == Acquire
P35j_product == P24b_product
P35j_verify_sources == <<Look({"attack"}), Look({"benign"})>>
P35j_load_evtx(thing, i, words) == <<Take({thing}), Score(i, words)>>

P35j_fixture(i) ==
  <<Open(i)>> \o
  TryRow(i, {"count", "save"},
         P35j_load_evtx("attack", i, {"hit", "miss"}) \o <<Count(i), Save>>)

P35j_channel(c) == P35j_load_evtx("benign", c, {"parsed", "empty"}) \o <<Save>>

P35j ==
  HomeScript(P35j_acquire_global_lock,
    P35j_product \o <<Take({"rules"})>> \o P35j_verify_sources \o <<Publish("sources_verified")>>
    \o Each(Fixtures, P35j_fixture) \o Each(Channels, P35j_channel)
    \o <<Some(C), Compute, Publish("completed"), Report>>)

\* The product's modules must be those of the repository that was verified.
P35k_acquire_global_lock == P35j_acquire_global_lock
P35k_product == <<Take({"code", "imports"}), Check({"imports"}), Look({"code", "rules"})>>
P35k_verify_sources == P35j_verify_sources
P35k_load_evtx(thing, i, words) == P35j_load_evtx(thing, i, words)

P35k_fixture(i) ==
  <<Open(i)>> \o
  TryRow(i, {"count", "save"},
         P35k_load_evtx("attack", i, {"hit", "miss"}) \o <<Count(i), Save>>)

P35k_channel(c) == P35k_load_evtx("benign", c, {"parsed", "empty"}) \o <<Save>>

P35k ==
  HomeScript(P35k_acquire_global_lock,
    P35k_product \o <<Take({"rules"})>> \o P35k_verify_sources \o <<Publish("sources_verified")>>
    \o Each(Fixtures, P35k_fixture) \o Each(Channels, P35k_channel)
    \o <<Some(C), Compute, Publish("completed"), Report>>)

(* P2-35L: the benign sources are members of an archive. The row of a      *)
(* fixture is written behind its try.                                      *)

P35l_acquire_global_lock == P35j_acquire_global_lock
P35l_product == P35k_product
P35l_verify_attack_sources == <<Look({"attack"})>>
P35l_verify_benign_archive == <<Look({"benign"})>>
P35l_inventory == <<Take({"benign"}), Compute>>
P35l_load_evtx(i, words) == <<Score(i, words)>>

P35l_fixture(i) ==
  <<Open(i)>> \o TryRow(i, {}, <<Take({"attack"})>> \o P35l_load_evtx(i, {"hit", "miss"}))
  \o <<Count(i), Save>>

P35l_member(c) == P35l_load_evtx(c, {"parsed", "empty"}) \o <<Save>>

\* The members are listed, then the archive is opened again.
P35l_benign ==
  P35l_inventory \o <<Save, Take({"benign"})>> \o Each(Channels, P35l_member)
  \o <<Some(C), Save>>

P35l ==
  HomeScript(P35l_acquire_global_lock,
    P35l_product \o <<Take({"rules"})>> \o P35l_verify_attack_sources
    \o P35l_verify_benign_archive \o <<Publish("sources_verified")>>
    \o Each(Fixtures, P35l_fixture) \o <<Save>> \o P35l_benign
    \o <<Publish("completed"), Report>>)

\* The attacks are in a repository of their own, which is verified like the
\* product.
P35m_acquire_global_lock == P35l_acquire_global_lock
P35m_product == P35l_product
P35m_verify_attack_repo == <<Look({"attack"})>>
P35m_verify_benign_archive == P35l_verify_benign_archive
P35m_inventory == P35l_inventory
P35m_load_evtx(i, words) == P35l_load_evtx(i, words)

P35m_fixture(i) ==
  <<Open(i)>> \o TryRow(i, {}, <<Take({"attack"})>> \o P35m_load_evtx(i, {"hit", "miss"}))
  \o <<Count(i), Save>>

P35m_member(c) == P35m_load_evtx(c, {"parsed", "empty"}) \o <<Save>>

P35m_benign ==
  P35m_inventory \o <<Save, Take({"benign"})>> \o Each(Channels, P35m_member)
  \o <<Some(C), Save>>

P35m ==
  HomeScript(P35m_acquire_global_lock,
    P35m_product \o <<Take({"rules"})>> \o P35m_verify_attack_repo
    \o P35m_verify_benign_archive \o <<Publish("sources_verified")>>
    \o Each(Fixtures, P35m_fixture) \o <<Save>> \o P35m_benign
    \o <<Publish("completed"), Report>>)

(* P2-36, P2-36B and P2-36C: the inventory of the archive is verified too, *)
(* and that there is room to unpack it. The row of a member is begun       *)
(* before it is read. P2-36 does not take an empty member.                 *)

P36_acquire_global_lock == P35l_acquire_global_lock
P36_product == P35k_product
P36_verify_attack_repo == <<Look({"attack"})>>
P36_verify_benign_archive == <<Look({"benign"}), Take({"benign"}), Check({"benign"})>>
P36_verify_temp_space == <<Look({"space"})>>
P36_score_evtx(i, words) == <<Score(i, words)>>

P36_fixture(i) ==
  <<Open(i)>> \o TryRow(i, {}, <<Take({"attack"})>> \o P36_score_evtx(i, {"hit", "miss"}))
  \o <<Count(i), Save>>

P36_member(c) == <<Open(c)>> \o P36_score_evtx(c, {"parsed"}) \o <<Save>>
P36_benign == <<Take({"benign"})>> \o Each(Channels, P36_member) \o <<Some(C), Save>>

P36 ==
  HomeScript(P36_acquire_global_lock,
    P36_product \o <<Take({"rules"})>> \o P36_verify_attack_repo
    \o P36_verify_benign_archive \o P36_verify_temp_space \o <<Publish("sources_verified")>>
    \o Each(Fixtures, P36_fixture) \o <<Save>> \o P36_benign
    \o <<Publish("completed"), Report>>)

P36b_acquire_global_lock == P36_acquire_global_lock
P36b_product == P36_product
P36b_verify_attack_repo == P36_verify_attack_repo
P36b_verify_benign_archive == P36_verify_benign_archive
P36b_verify_temp_space == P36_verify_temp_space
P36b_score_evtx(i, words) == P36_score_evtx(i, words)

P36b_fixture(i) ==
  <<Open(i)>> \o TryRow(i, {}, <<Take({"attack"})>> \o P36b_score_evtx(i, {"hit", "miss"}))
  \o <<Count(i), Save>>

P36b_member(c) == <<Open(c)>> \o P36b_score_evtx(c, {"parsed", "empty"}) \o <<Save>>
P36b_benign == <<Take({"benign"})>> \o Each(Channels, P36b_member) \o <<Some(C), Save>>

P36b ==
  HomeScript(P36b_acquire_global_lock,
    P36b_product \o <<Take({"rules"})>> \o P36b_verify_attack_repo
    \o P36b_verify_benign_archive \o P36b_verify_temp_space \o <<Publish("sources_verified")>>
    \o Each(Fixtures, P36b_fixture) \o <<Save>> \o P36b_benign
    \o <<Publish("completed"), Report>>)

\* The sizes of the members are bounded as well, when the archive is verified.
P36c_acquire_global_lock == P36_acquire_global_lock
P36c_product == P36_product
P36c_verify_attack_repo == P36_verify_attack_repo
P36c_verify_benign_archive == P36_verify_benign_archive
P36c_verify_temp_space == P36_verify_temp_space
P36c_score_evtx(i, words) == P36_score_evtx(i, words)

P36c_fixture(i) ==
  <<Open(i)>> \o TryRow(i, {}, <<Take({"attack"})>> \o P36c_score_evtx(i, {"hit", "miss"}))
  \o <<Count(i), Save>>

P36c_member(c) == <<Open(c)>> \o P36c_score_evtx(c, {"parsed", "empty"}) \o <<Save>>
P36c_benign == <<Take({"benign"})>> \o Each(Channels, P36c_member) \o <<Some(C), Save>>

P36c ==
  HomeScript(P36c_acquire_global_lock,
    P36c_product \o <<Take({"rules"})>> \o P36c_verify_attack_repo
    \o P36c_verify_benign_archive \o P36c_verify_temp_space \o <<Publish("sources_verified")>>
    \o Each(Fixtures, P36c_fixture) \o <<Save>> \o P36c_benign
    \o <<Publish("completed"), Report>>)

-----------------------------------------------------------------------------
(* Before the lock: P2-14E claims nothing, and writes its result once, not *)
(* atomically. The BRAWL score claims a lock and writes in the same way.   *)

P14e_detector == <<Look({"code"}), Look({"rules"}), Take({"code"}), Take({"rules"}), Compute>>
P14e_verify_and_extract_archive == <<Look({"attack"}), Take({"attack"}), Compute>>
P14e_parse_all_evtx == <<Compute>>
P14e_score == <<Compute>>

P14e ==
  Script("none",
    P14e_detector \o P14e_verify_and_extract_archive \o P14e_parse_all_evtx \o P14e_score
    \o <<Publish("torn"), Publish("completed"), Report>>)

Brawl_acquire_lock == Acquire
Brawl_verify == <<Look({"code"}), Look({"attack"}), Look({"rules"})>>
Brawl_records == <<Take({"attack"}), Compute>>
Brawl_score == <<Take({"rules"}), Compute>>

Brawl ==
  Script("home",
    Contract \o Brawl_verify \o Brawl_acquire_lock \o Brawl_records \o Brawl_score
    \o <<Publish("torn"), Publish("completed"), Report>>)

-----------------------------------------------------------------------------
(* The lock in the output directory: everything that can be verified is    *)
(* verified before the directory is made, except in P2-28 and P2-29B.      *)

OutScript(verified, steps) ==
  Script("out", Contract \o <<Take({"runner"}), Check({"runner"})>> \o verified
    \o <<MakeDir>> \o Acquire \o <<Publish("started")>> \o Try("failed", steps))

(* P2-28 and P2-29B: one corpus, ingested and counted.                     *)

P28_verify_product == <<Look({"code", "rules"})>>
P28_extract == <<Look({"attack"}), Take({"attack"}), Compute, Expect("failed_accounting_mismatch")>>
P28_ingest == <<Take({"code"}), Compute, Save, Compute, Expect("failed_accounting_mismatch")>>

P28 ==
  Script("out",
    Contract \o <<MakeDir>> \o Acquire
    \o Started(P28_verify_product \o P28_extract \o P28_ingest
                \o <<Publish("completed"), Report>>))

\* Compared with an earlier result, on the same machine.
P29b_verify_product == P28_verify_product
P29b_verify_baseline == <<Look({"baseline"}), Take({"baseline"}), Look({"machine"})>>
P29b_extract == P28_extract
P29b_ingest == P28_ingest
P29b_comparison_metrics == <<Compute>>

P29b ==
  Script("out",
    Contract \o <<MakeDir>> \o Acquire
    \o Started(P29b_verify_product \o P29b_verify_baseline \o P29b_extract \o P29b_ingest
                \o P29b_comparison_metrics \o <<Publish("completed"), Report>>))

(* P2-30, P2-30B, P2-33 and P2-34: workers do the same with variants of    *)
(* the code, and must find the same. A fixture stands for a worker here.   *)

Found == {"this", "that"}

P30_verify == <<Look({"machine"}), Look({"code"}), Look({"attack"})>>
P30_record(w) == <<Take({"attack"}), Score(w, Found)>>
P30_parser(w) == <<Take({"code"}), Score(w, Found)>>

P30_complete == <<Publish("completed")>>

P30 ==
  OutScript(P30_verify,
    Each(Fixtures, P30_record) \o <<Agree(F)>> \o Each(Fixtures, P30_parser)
    \o <<Agree(F)>> \o P30_complete)

P30b_verify == P30_verify
P30b_record(w) == P30_record(w)
P30b_parser(w) == P30_parser(w)

P30b_complete == P30_complete

P30b ==
  OutScript(P30b_verify,
    Each(Fixtures, P30b_record) \o <<Agree(F)>> \o Each(Fixtures, P30b_parser)
    \o <<Agree(F)>> \o P30b_complete)

P33_verify == <<Look({"machine"}), Look({"dependency"}), Look({"attack"})>>
P33_render(w) == <<Take({"attack", "dependency"}), Score(w, Found)>>

P33 ==
  OutScript(P33_verify, Each(Fixtures, P33_render) \o <<Agree(F), Publish("completed")>>)

\* The archive is hashed; of the files that were unpacked from it, the paths
\* and sizes are, by the run and by every worker.
P34_verify ==
  <<Look({"machine"}), Look({"dependency"}), Look({"archive"}), Look({"attack"})>>
P34_sweep(w) == <<Take({"dependency"}), Take({"attack"}), Check({"attack"}), Score(w, Found)>>

P34 ==
  OutScript(P34_verify, Each(Fixtures, P34_sweep) \o <<Agree(F), Publish("completed")>>)

(* P2-35C and P2-35D: attacks dated by a log of when they were made. Of    *)
(* the two members of the archive that are read, one is hashed.            *)

P35c_verify_product == <<Look({"code", "rules"})>>
P35c_verify_archive == <<Look({"selected", "timing"})>>
P35c_members == <<Take({"selected", "timing"}), Check({"selected"})>>
P35c_timeline == <<Compute>>
P35c_adapt == <<Compute>>
P35c_detect == <<Take({"code"}), Compute, Take({"rules"}), Compute>>
P35c_alignment == <<Compute>>
P35c_complete == <<Publish("completed")>>

P35c ==
  OutScript(P35c_verify_product \o P35c_verify_archive,
    P35c_members \o P35c_timeline \o P35c_adapt \o P35c_detect \o P35c_alignment
    \o P35c_complete)

P35d_verify_product == P35c_verify_product
P35d_verify_archive == P35c_verify_archive
P35d_members == P35c_members
P35d_timeline == P35c_timeline
P35d_adapt == P35c_adapt
P35d_detect == P35c_detect
P35d_alignment == P35c_alignment
P35d_complete == P35c_complete

P35d ==
  OutScript(P35d_verify_product \o P35d_verify_archive,
    P35d_members \o P35d_timeline \o P35d_adapt \o P35d_detect \o P35d_alignment
    \o P35d_complete)

(* From P2-35E on the lock is in the repository.                           *)

RepoScript(verified, acquire, steps) ==
  Script("repo", Contract \o <<Take({"runner"}), Check({"runner"})>> \o verified
    \o <<Fresh>> \o acquire \o <<MakeDir, Publish("started")>> \o Try("failed", steps))

P35e_acquire_global_lock == Acquire
P35e_verify_product == P35c_verify_product
P35e_verify_archive == P35c_verify_archive
P35e_members == P35c_members
P35e_timeline == P35c_timeline
P35e_adapt == P35c_adapt
P35e_detect == P35c_detect
P35e_alignment == P35c_alignment
P35e_complete == P35c_complete

P35e ==
  RepoScript(P35e_verify_product \o P35e_verify_archive, P35e_acquire_global_lock,
    P35e_members \o P35e_timeline \o P35e_adapt \o P35e_detect \o P35e_alignment
    \o P35e_complete)

(* P2-35F and P2-35G: parts of the P2-35E script are loaded and used; both *)
(* members are hashed.                                                     *)

P35f_acquire_global_lock == P35e_acquire_global_lock
P35f_verify_archive == P35e_verify_archive
P35f_load_predecessor == <<Look({"predecessor"}), Take({"predecessor"})>>
P35f_members == <<Take({"selected", "timing"}), Check({"selected", "timing"})>>
P35f_oracle_match == <<Compute>>
P35f_oracle == P35f_oracle_match \o <<Compute>>
P35f_complete == P35c_complete

P35f ==
  RepoScript(P35f_load_predecessor \o P35e_verify_product \o P35f_verify_archive,
    P35f_acquire_global_lock,
    P35f_members \o P35e_timeline \o P35e_adapt \o P35e_detect \o P35f_oracle
    \o P35f_complete)

P35g_acquire_global_lock == P35e_acquire_global_lock
P35g_verify_archive == P35e_verify_archive
P35g_load_predecessor == P35f_load_predecessor
P35g_members == P35f_members
P35g_oracle_match == <<Compute>>
P35g_oracle == P35g_oracle_match \o <<Compute>>
P35g_complete == P35c_complete

P35g ==
  RepoScript(P35g_load_predecessor \o P35e_verify_product \o P35g_verify_archive,
    P35g_acquire_global_lock,
    P35g_members \o P35e_timeline \o P35e_adapt \o P35e_detect \o P35g_oracle
    \o P35g_complete)

AllScripts ==
  {P14e, Brawl, P17c, P21, P24b, P24c, P25, P26c, P28, P29b, P30, P30b, P33, P34,
   P35c, P35d, P35e, P35f, P35g, P35j, P35k, P35l, P35m, P36, P36b, P36c}
=============================================================================
