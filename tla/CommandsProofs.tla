--------------------------- MODULE CommandsProofs ---------------------------
(***************************************************************************)
(* Proofs about Commands: what is proved of a component alone holds in the *)
(* process that dispatch runs, where the components of the other commands  *)
(* stay as they are.                                                       *)
(***************************************************************************)
EXTENDS Commands, WorkspaceAnalysisProofs, SetupFilesProofs, QueryProofs

(* A command changes its own component, by a step of that component, and   *)
(* no other.                                                               *)
LEMMA EachByItsSteps ==
  ASSUME [CommandNext]_commandVars
  PROVE  /\ [AnalysisNext]_analysisVars /\ [QueryNext]_queryVars
         /\ [MemberNext]_memberVars /\ [Compare]_diffVars /\ [SetupNext]_setupVars
<1>1. CASE UNCHANGED commandVars
  BY <1>1 DEF commandVars
<1>2. CASE CommandNext
  BY <1>2 DEF CommandNext
<1>. QED BY <1>1, <1>2

LEMMA OthersStay ==
  ASSUME [CommandNext]_commandVars
  PROVE  /\ command' = command
         /\ command # "load" => UNCHANGED analysisVars
         /\ command # "ask" => UNCHANGED queryVars
         /\ command # "relate" => UNCHANGED memberVars
         /\ command # "diff" => UNCHANGED diffVars
         /\ command # "setup" => UNCHANGED setupVars
<1>1. CASE UNCHANGED commandVars
  BY <1>1 DEF commandVars
<1>2. CASE CommandNext
  BY <1>2 DEF CommandNext
<1>. QED BY <1>1, <1>2

(* Every command starts the components at a state they can start from, or  *)
(* leaves them empty.                                                      *)
LEMMA CommandStarts ==
  ASSUME CommandInit
  PROVE  /\ AnalysisInit
         /\ QueryInit \/ NoQuery
         /\ MemberInit \/ NoMemberCall
         /\ DiffInit \/ NoDiff
         /\ SetupInit \/ NoSetup
  BY DEF CommandInit, NoAnalysis

LEMMA NoSetupIsInitial == NoSetup => SetupInit
<1> SUFFICES ASSUME NoSetup PROVE SetupInit
  OBVIOUS
<1>1. exe \in Exes
  BY SetupConstantsOK DEF NoSetup
<1>2. "claude" \in Agents /\ "codex" \in Agents
  BY DEF Agents
<1>. QED BY <1>1, <1>2 DEF NoSetup, SetupInit

(* Of the components of the commands that read what is loaded only the one *)
(* that was asked for leaves its empty state.                              *)
IdleStay ==
  /\ command # "ask" => NoQuery
  /\ command # "relate" => NoMemberCall
  /\ command # "diff" => NoDiff

LEMMA IdleStayInit == CommandInit => IdleStay
  BY DEF CommandInit, IdleStay

LEMMA IdleStayStep == IdleStay /\ [CommandNext]_commandVars => IdleStay'
<1> SUFFICES ASSUME IdleStay, [CommandNext]_commandVars PROVE IdleStay'
  OBVIOUS
<1>1. command # "ask" => NoQuery'
  BY OthersStay DEF IdleStay, NoQuery, queryVars
<1>2. command # "relate" => NoMemberCall'
  BY OthersStay DEF IdleStay, NoMemberCall, memberVars
<1>3. command # "diff" => NoDiff'
  BY OthersStay DEF IdleStay, NoDiff, diffVars
<1>. QED BY <1>1, <1>2, <1>3, OthersStay DEF IdleStay

AskTruths == NoBodyLost /\ JoinedNameSelects /\ CallersAndCalleesAgree

LEMMA NothingAsked == NoQuery => AskTruths
<1> SUFFICES ASSUME NoQuery PROVE AskTruths
  OBVIOUS
<1>1. Symbols = {}
  BY DEF NoQuery, Symbols
<1>2. \A S : Asked(S) = {}
  BY DEF NoQuery, Asked
<1>3. NoBodyLost /\ JoinedNameSelects
  BY <1>2 DEF NoBodyLost, JoinedNameSelects
<1>4. CallersAndCalleesAgree
  BY <1>1 DEF CallersAndCalleesAgree
<1>. QED BY <1>3, <1>4 DEF AskTruths

LEMMA NothingRelated == NoMemberCall => NearestScopeDecides
  BY DEF NoMemberCall, NearestScopeDecides

LEMMA NothingCompared == NoDiff => ChangesArePatch
  BY DEF NoDiff, ChangesArePatch

(* Each command runs its component by that component's specification: what *)
(* fills the workspace and setup always do, what reads the workspace does  *)
(* when it is the command that was given.                                  *)
THEOREM CommandsImplement ==
  CommandSpec => /\ AnalysisSpec
                 /\ SetupSpec
                 /\ command = "ask" => QuerySpec
                 /\ command = "relate" => MemberSpec
                 /\ command = "diff" => DiffSpec
<1>1. CommandInit => /\ AnalysisInit
                     /\ SetupInit
                     /\ command = "ask" => QueryInit
                     /\ command = "relate" => MemberInit
                     /\ command = "diff" => DiffInit
  BY CommandStarts, NoSetupIsInitial DEF CommandInit
<1>2. [CommandNext]_commandVars =>
        /\ [AnalysisNext]_analysisVars /\ [QueryNext]_queryVars
        /\ [MemberNext]_memberVars /\ [Compare]_diffVars /\ [SetupNext]_setupVars
  BY EachByItsSteps
<1>. QED BY <1>1, <1>2, PTL DEF CommandSpec, AnalysisSpec, SetupSpec, QuerySpec, MemberSpec, DiffSpec

(* Whatever command was given, no reachable state breaks what is proved of *)
(* the components: those of the commands that were not given are empty.    *)
THEOREM CommandInvariants ==
  CommandSpec => /\ [](AnalysisTypeOK /\ IndexConsistent /\ ResultIsReference)
                 /\ [](NoBodyLost /\ JoinedNameSelects /\ CallersAndCalleesAgree)
                 /\ []NearestScopeDecides
                 /\ []ChangesArePatch
                 /\ [](SetupTypeOK /\ UntouchedWhenSaidSo)
<1>1. CommandSpec => []IdleStay
  BY IdleStayInit, IdleStayStep, PTL DEF CommandSpec
<1>2. CommandSpec => [](AnalysisTypeOK /\ IndexConsistent /\ ResultIsReference)
  BY CommandsImplement, AnalysisTyped, IndexIsConsistent, ResultsAreReference, PTL
<1>3. CommandSpec => [](SetupTypeOK /\ UntouchedWhenSaidSo)
  BY CommandsImplement, SetupTyped, UntouchedFiles, PTL
<1>4. CommandSpec => []AskTruths
  <2>1. (command # "ask") /\ [CommandNext]_commandVars => (command # "ask")'
    BY OthersStay
  <2>2. IdleStay /\ command # "ask" => AskTruths
    BY NothingAsked DEF IdleStay
  <2>3. CommandSpec /\ command = "ask" => []AskTruths
    <3>1. NoBodyLost /\ JoinedNameSelects /\ CallersAndCalleesAgree => AskTruths
      BY DEF AskTruths
    <3>. QED BY <3>1, CommandsImplement, BodiesAreKept, QualifiedNamesDisambiguate, CallersCalleesAgree, PTL
  <2>4. CommandSpec /\ command # "ask" => []AskTruths
    BY <1>1, <2>1, <2>2, PTL DEF CommandSpec
  <2>. QED BY <2>3, <2>4
<1>5. CommandSpec => []NearestScopeDecides
  <2>1. (command # "relate") /\ [CommandNext]_commandVars => (command # "relate")'
    BY OthersStay
  <2>2. IdleStay /\ command # "relate" => NearestScopeDecides
    BY NothingRelated DEF IdleStay
  <2>3. CommandSpec /\ command = "relate" => []NearestScopeDecides
    BY CommandsImplement, NearestScopeWins, PTL
  <2>4. CommandSpec /\ command # "relate" => []NearestScopeDecides
    BY <1>1, <2>1, <2>2, PTL DEF CommandSpec
  <2>. QED BY <2>3, <2>4
<1>6. CommandSpec => []ChangesArePatch
  <2>1. (command # "diff") /\ [CommandNext]_commandVars => (command # "diff")'
    BY OthersStay
  <2>2. IdleStay /\ command # "diff" => ChangesArePatch
    BY NothingCompared DEF IdleStay
  <2>3. CommandSpec /\ command = "diff" => []ChangesArePatch
    BY CommandsImplement, ChangesAreAPatch, PTL
  <2>4. CommandSpec /\ command # "diff" => []ChangesArePatch
    BY <1>1, <2>1, <2>2, PTL DEF CommandSpec
  <2>. QED BY <2>3, <2>4
<1>7. AskTruths => NoBodyLost /\ JoinedNameSelects /\ CallersAndCalleesAgree
  BY DEF AskTruths
<1>. QED BY <1>2, <1>3, <1>4, <1>5, <1>6, <1>7, PTL

(* Every file a command is to load is settled once, by whichever worker,   *)
(* and all of them before the workspace is returned.                       *)
THEOREM CommandsSettleOnce == CommandSpec => SettledOnce
  BY CommandsImplement, EntriesSettledOnce, PTL

(* If the TOML files are plain, no step of any command takes a hook of the *)
(* user's that is read back as it is written from a file that was read and *)
(* written whole.                                                          *)
THEOREM CommandsKeepHooks ==
  ASSUME \A ls \in TomlFiles : Plain(ls)
  PROVE  CommandSpec => HooksKept
  BY CommandsImplement, HooksAreKept, PTL

(* Of executables whose commands are recognised, and of files with one     *)
(* [hooks] table, no command reports of a setup what did not happen.       *)
THEOREM CommandsReportTruly ==
  ASSUME Exes \subseteq Recognised, \A ls \in TomlFiles : OneTable(ls)
  PROVE  CommandSpec => []ReportsTruthful
  BY CommandsImplement, ReportsAreTruthful, PTL
=============================================================================
