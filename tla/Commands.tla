------------------------------- MODULE Commands -------------------------------
(***************************************************************************)
(* One ast-tool process: dispatch (src/ast-tool.cpp) runs the one command  *)
(* that was asked for - a command that fills a workspace, one that asks    *)
(* about a symbol of it, one that relates a member call to its callee, or  *)
(* setup - and the components of the other commands stay as they are.      *)
(* "diff" is a program that links the library to compare two workspaces;   *)
(* no command of ast-tool does.                                            *)
(***************************************************************************)
EXTENDS WorkspaceAnalysis, SymbolQueries, MemberCalls, SemanticDiff, SetupFiles

(* What no command was asked to fill is a workspace of no files.           *)
ASSUME CommandConstantsOK == <<>> \in Lists /\ "parsed" \in Fates

VARIABLE command

commandVars == <<command, analysisVars, queryVars, memberVars, diffVars, setupVars>>

NoAnalysis ==
  NothingGiven /\ fate = [f \in Files |-> "parsed"] /\ AnalysisInit
NoQuery == catalog = <<>> /\ sites = {} /\ question = <<>> /\ answer = "none"
NoSetup ==
  /\ config = [a \in Agents |-> NoFile]
  /\ tmp = config /\ before = config
  /\ runs = 0 /\ exe = CHOOSE e \in Exes : TRUE
  /\ args = [dry |-> FALSE, remove |-> FALSE]
  /\ todo = {} /\ pc = "idle" /\ plan = NoPlan
  /\ result = [a \in Agents |-> "none"]
  /\ lossy = [a \in Agents |-> FALSE]

NoMemberCall ==
  /\ program = [decls |-> <<>>, before |-> 0, caller |-> NoName, receiver |-> "",
                member |-> "", symbols |-> <<>>]
  /\ stage = "asked" /\ at = 0 /\ best = Far /\ written = NoName /\ target = Nobody
NoDiff == old = <<>> /\ new = <<>> /\ changes = NotCompared

CommandInit ==
  \/ command = "load"   /\ AnalysisInit /\ NoQuery   /\ NoMemberCall /\ NoDiff   /\ NoSetup
  \/ command = "ask"    /\ NoAnalysis   /\ QueryInit /\ NoMemberCall /\ NoDiff   /\ NoSetup
  \/ command = "relate" /\ NoAnalysis   /\ NoQuery   /\ MemberInit   /\ NoDiff   /\ NoSetup
  \/ command = "diff"   /\ NoAnalysis   /\ NoQuery   /\ NoMemberCall /\ DiffInit /\ NoSetup
  \/ command = "setup"  /\ NoAnalysis   /\ NoQuery   /\ NoMemberCall /\ NoDiff   /\ SetupInit

CommandNext ==
  /\ \/ /\ command = "load" /\ AnalysisNext
        /\ UNCHANGED <<queryVars, memberVars, diffVars, setupVars>>
     \/ /\ command = "ask" /\ QueryNext
        /\ UNCHANGED <<analysisVars, memberVars, diffVars, setupVars>>
     \/ /\ command = "relate" /\ MemberNext
        /\ UNCHANGED <<analysisVars, queryVars, diffVars, setupVars>>
     \/ /\ command = "diff" /\ Compare
        /\ UNCHANGED <<analysisVars, queryVars, memberVars, setupVars>>
     \/ /\ command = "setup" /\ SetupNext
        /\ UNCHANGED <<analysisVars, queryVars, memberVars, diffVars>>
  /\ UNCHANGED command

CommandSpec == CommandInit /\ [][CommandNext]_commandVars /\ AnalysisFairness
=============================================================================
