------------------------------ MODULE SetupFiles ------------------------------
(***************************************************************************)
(* `ast-tool setup` (src/setup.cpp): for Claude Code and then for Codex,   *)
(* read the agent's configuration file, work out the new content, write it *)
(* to <file>.tmp and rename that over the file.                            *)
(*                                                                         *)
(* Of a configuration file the model keeps its session-start hooks.  The   *)
(* JSON file is the sequence of the hooks of all groups; a group that is   *)
(* emptied disappears by itself.  The TOML file is a sequence of lines, as *)
(* its line parser sees them.  A hook is its "id", which a TOML entry has  *)
(* not, and its command as it is spelled in the file; the one setup writes *)
(* is named after the executable it starts.                                *)
(***************************************************************************)
EXTENDS Naturals, Sequences, FiniteSets

CONSTANTS
  Exes,         \* places ast-tool is or was installed at
  UserCommands, \* the user's own hooks
  JsonFiles,    \* what a settings.json may hold before the first setup
  TomlFiles,    \* the same for config.toml
  Recognised,   \* the commands that contain "ast-tool" and "cache warm"
  Escaped,      \* of each agent: the spellings whose escapes its reader and writer lose
  Garbled,      \* what is left of such a command
  Literal,      \* the spellings in single quotes, which TOML has and setup_codex skips
  Anomalies,    \* what may happen beyond a failing call or a crash
  MaxRuns,      \* bound: how many times setup is started
  NoFile

Agents == {"claude", "codex"}
Hooks  == [id : BOOLEAN, cmd : Exes \cup UserCommands]
Kinds  == { "hooks",     \* [hooks]
            "section",   \* any other table header
            "open",      \* session_start = [ ...      with more lines to come
            "array",     \* session_start = [ ... ]
            "string",    \* session_start = "...", or any other value
            "item",      \* a line of an array
            "last",      \* a line of an array that ends with its bracket
            "close",     \* ] or ],
            "note" }     \* a comment, a blank line, another key
Lines  == [kind : Kinds, hooks : Seq(Hooks)]

AllAnomalies ==
  { "unreadable",  \* the file exists and cannot be read
    "malformed",   \* the JSON parser meets something it does not know
    "flush" }      \* fflush fails, whose result is ignored

ASSUME SetupConstantsOK ==
  /\ Exes \cap UserCommands = {}
  /\ Exes # {}
  /\ Recognised \subseteq Exes \cup UserCommands
  /\ Escaped \in [Agents -> SUBSET UserCommands]
  /\ Literal \subseteq UserCommands
  /\ Garbled \in UserCommands \ (Literal \cup UNION {Escaped[a] : a \in Agents})
  /\ JsonFiles \subseteq Seq(Hooks)
  /\ TomlFiles \subseteq Seq(Lines)
  /\ Anomalies \subseteq AllAnomalies
  /\ MaxRuns \in Nat
  /\ NoFile \notin Seq(Hooks) \cup Seq(Lines)

VARIABLES
  config, tmp,   \* of each agent: its configuration file, and <file>.tmp
  runs,
  args, exe,     \* of the run: its arguments and the path of its executable
  todo,          \* the agents that are not dealt with yet
  pc, plan,
  result,        \* of each agent: its SetupResult
  before,        \* the files when the run was started
  lossy          \* history: of each agent, was its file read or written short

fileVars == <<config, tmp>>
runVars == <<runs, args, exe, before>>
setupVars == <<fileVars, runVars, todo, pc, plan, result, lossy>>

Contents(a) == IF a = "claude" THEN Seq(Hooks) ELSE Seq(Lines)
Results == {"Installed", "AlreadyConfigured", "Updated", "Removed", "Failed"}

-----------------------------------------------------------------------------
(* The new content. *)

First(S) == CHOOSE i \in S : \A j \in S : i <= j

(* is_our_hook; setup_codex has the same test for commands. *)
IsOurs(h) == h.id \/ h.cmd \in Recognised
Ours(hs) == {i \in DOMAIN hs : IsOurs(hs[i])}

(* The hook that starts e, as setup_claude and setup_codex write it. *)
Entry(a, e) == [id |-> a = "claude", cmd |-> e]

Drop(hs, i) == SubSeq(hs, 1, i - 1) \o SubSeq(hs, i + 1, Len(hs))

(* Only the first of our hooks is looked at. *)
Verdict(a, hs, e, remove) ==
  CASE Ours(hs) = {} -> IF remove THEN "AlreadyConfigured" ELSE "Installed"
    [] OTHER -> IF remove THEN "Removed"
                ELSE IF hs[First(Ours(hs))] = Entry(a, e) THEN "AlreadyConfigured"
                ELSE "Updated"

NewHooks(a, hs, e, remove) ==
  CASE Ours(hs) = {} -> IF remove THEN hs ELSE Append(hs, Entry(a, e))
    [] OTHER -> IF remove THEN Drop(hs, First(Ours(hs)))
                ELSE [hs EXCEPT ![First(Ours(hs))] = Entry(a, e)]

(* The line parser.  The table a line is in is that of the last header     *)
(* before it; session_start's first line in [hooks] is its start.          *)
InHooks(ls, i) ==
  \E h \in 1..(i - 1) :
    /\ ls[h].kind = "hooks"
    /\ \A j \in (h + 1)..(i - 1) : ls[j].kind # "section"

Starts(ls) == {i \in DOMAIN ls : ls[i].kind \in {"open", "array", "string"} /\ InHooks(ls, i)}

Nth(I, n) == CHOOSE i \in I : Cardinality({j \in I : j <= i}) = n

(* Of the values on a line those in double quotes. *)
Basic(h) == h.cmd \notin Literal
Strings(hs) ==
  LET B == {i \in DOMAIN hs : Basic(hs[i])}
  IN [n \in 1..Cardinality(B) |-> hs[Nth(B, n)]]

(* Where the value that starts at s ends.  One that is neither an array    *)
(* nor in double quotes has no end, as an array that is never closed.      *)
Forgotten(l) == l.kind = "string" /\ Strings(l.hooks) = <<>>
Ends(ls, s) ==
  {i \in DOMAIN ls :
     IF ls[s].kind = "open" THEN s < i /\ ls[i].kind = "close"
     ELSE i = s /\ ~Forgotten(ls[s])}

HasValue(ls) == Starts(ls) # {} /\ Ends(ls, First(Starts(ls))) # {}

(* Of a line inside an array only the first string is taken, and of the    *)
(* line that opens it none.                                                *)
Items(ls, s, e) ==
  {i \in (s + 1)..(e - 1) :
     ls[i].kind \in {"item", "last"} /\ ls[i].hooks # <<>> /\ Basic(ls[i].hooks[1])}
Values(ls) ==
  LET s == First(Starts(ls))
      items == Items(ls, s, First(Ends(ls, s)))
  IN IF ~HasValue(ls) THEN <<>>
     ELSE IF ls[s].kind # "open" THEN Strings(ls[s].hooks)
     ELSE [n \in 1..Cardinality(items) |-> ls[Nth(items, n)].hooks[1]]

Line(kind, hs) == [kind |-> kind, hooks |-> hs]
Block(hs) ==
  <<Line("open", <<>>)>> \o [i \in DOMAIN hs |-> Line("item", <<hs[i]>>)]
    \o <<Line("close", <<>>)>>

(* The lines after the p-th up to the q-th are replaced. *)
Splice(ls, p, q, hs) == SubSeq(ls, 1, p) \o Block(hs) \o SubSeq(ls, q + 1, Len(ls))

(* Headers after an array that is not closed are taken for its lines. *)
Headers(ls) ==
  LET s == First(Starts(ls)) IN
  {i \in DOMAIN ls :
     ls[i].kind = "hooks" /\ (Starts(ls) # {} /\ ls[s].kind = "open" => i < s)}
LastOf(S) == CHOOSE i \in S : \A j \in S : j <= i

Rebuilt(ls, hs) ==
  LET s == First(Starts(ls))
      h == LastOf(Headers(ls))
  IN IF HasValue(ls) THEN Splice(ls, s - 1, First(Ends(ls, s)), hs)
     ELSE IF Headers(ls) # {} THEN Splice(ls, h, h, hs)
     ELSE Splice(Append(ls, Line("hooks", <<>>)), Len(ls) + 1, Len(ls) + 1, hs)

(* In a JSON string a \u escape is read as a question mark.  In a TOML     *)
(* string an escape other than \n, \t, \" and \\ is read without its       *)
(* backslash, and a line end that was spelled \n is written as one: what   *)
(* is behind it is not read again.                                         *)
Decoded(a, hs) ==
  [i \in DOMAIN hs |-> IF hs[i].cmd \in Escaped[a] THEN [hs[i] EXCEPT !.cmd = Garbled] ELSE hs[i]]

(* A JSON root, "hooks" or "SessionStart" of another type is replaced by   *)
(* an empty one: there are no hooks in it.                                 *)
HooksIn(a, c) == Decoded(a, IF a = "claude" THEN c ELSE Values(c))
NewContent(a, c, e, remove) ==
  LET hs == NewHooks(a, HooksIn(a, c), e, remove) IN
  IF a = "claude" THEN hs ELSE Rebuilt(c, hs)

(* A file that is not there is read as an empty one. *)
TextOf(c) == IF c = NoFile THEN <<>> ELSE c

-----------------------------------------------------------------------------

NoPlan == [verdict |-> "none", content |-> <<>>]

SetupInit ==
  /\ config \in {c \in [Agents -> JsonFiles \cup TomlFiles \cup {NoFile}] :
                   /\ c["claude"] \in JsonFiles \cup {NoFile}
                   /\ c["codex"] \in TomlFiles \cup {NoFile}}
  /\ tmp = [a \in Agents |-> NoFile]
  /\ runs = 0
  /\ args = [dry |-> FALSE, remove |-> FALSE]
  /\ exe \in Exes
  /\ todo = {}
  /\ pc = "idle" /\ plan = NoPlan
  /\ result = [a \in Agents |-> "none"]
  /\ before = config
  /\ lossy = [a \in Agents |-> FALSE]

(* run_setup with the flags that parse_setup made of the command line. *)
Start ==
  /\ pc = "idle"
  /\ runs < MaxRuns
  /\ runs' = runs + 1
  /\ args' \in [dry : BOOLEAN, remove : BOOLEAN]
  /\ exe' \in Exes
  /\ todo' \in (SUBSET Agents) \ {{}}
  /\ pc' = "read"
  /\ result' = [a \in Agents |-> "none"]
  /\ before' = config
  /\ lossy' = [a \in Agents |-> FALSE]
  /\ UNCHANGED <<fileVars, plan>>

Turn == IF "claude" \in todo THEN "claude" ELSE "codex"

Report(r) ==
  /\ result' = [result EXCEPT ![Turn] = r]
  /\ todo' = todo \ {Turn}
  /\ pc' = IF todo = {Turn} THEN "idle" ELSE "read"
  /\ plan' = NoPlan
  /\ UNCHANGED runVars

(* What read_file and the parser may take the file for. *)
Seen(a) ==
  LET text == TextOf(config[a]) IN
  {text} \cup (IF "unreadable" \in Anomalies THEN {<<>>} ELSE {})
      \cup (IF "malformed" \in Anomalies /\ a = "claude"
            THEN {SubSeq(text, 1, n) : n \in 0..Len(text)} ELSE {})

(* setup_claude and setup_codex up to create_directories. *)
Read ==
  /\ pc = "read"
  /\ \E c \in Seen(Turn) :
       LET v == Verdict(Turn, HooksIn(Turn, c), exe, args.remove) IN
       /\ lossy' = [lossy EXCEPT ![Turn] = c # TextOf(config[Turn])]
       /\ \/ /\ v = "AlreadyConfigured" \/ args.dry
             /\ Report(v)
          \/ /\ v # "AlreadyConfigured" /\ ~args.dry
             /\ plan' = [verdict |-> v, content |-> NewContent(Turn, c, exe, args.remove)]
             /\ pc' = "open"
             /\ UNCHANGED <<runVars, todo, result>>
  /\ UNCHANGED fileVars

(* Fault: the file is written in place. *)
OpenInPlace ==
  /\ pc = "open"
  /\ \/ /\ config' = [config EXCEPT ![Turn] = <<>>]
        /\ tmp' = [tmp EXCEPT ![Turn] = <<>>]
        /\ pc' = "write"
        /\ UNCHANGED <<runVars, todo, plan, result>>
     \/ Report("Failed") /\ UNCHANGED fileVars
  /\ UNCHANGED lossy

(* create_directories and the fopen of atomic_write. *)
OpenTmp ==
  /\ pc = "open"
  /\ \/ /\ tmp' = [tmp EXCEPT ![Turn] = <<>>]
        /\ pc' = "write"
        /\ UNCHANGED <<config, runVars, todo, plan, result>>
     \/ Report("Failed") /\ UNCHANGED fileVars
  /\ UNCHANGED lossy

(* <file>.tmp is removed; whether that worked is not looked at. *)
GiveUp ==
  /\ tmp' \in {tmp, [tmp EXCEPT ![Turn] = NoFile]}
  /\ Report("Failed")
  /\ UNCHANGED <<config, lossy>>

(* A write that the disk refuses only when it is flushed leaves the file   *)
(* short without a sign.                                                   *)
Write ==
  /\ pc = "write"
  /\ \/ /\ \/ tmp' = [tmp EXCEPT ![Turn] = plan.content] /\ UNCHANGED lossy
           \/ "flush" \in Anomalies /\ UNCHANGED tmp /\ lossy' = [lossy EXCEPT ![Turn] = TRUE]
        /\ pc' = "rename"
        /\ UNCHANGED <<config, runVars, todo, plan, result>>
     \/ GiveUp

(* Fault: the result of the rename is not looked at. *)
RenameUnchecked ==
  /\ pc = "rename"
  /\ \/ /\ config' = [config EXCEPT ![Turn] = tmp[Turn]]
        /\ tmp' = [tmp EXCEPT ![Turn] = NoFile]
     \/ UNCHANGED fileVars
  /\ Report(plan.verdict)
  /\ UNCHANGED lossy

Rename ==
  /\ pc = "rename"
  /\ \/ /\ config' = [config EXCEPT ![Turn] = tmp[Turn]]
        /\ tmp' = [tmp EXCEPT ![Turn] = NoFile]
        /\ Report(plan.verdict)
        /\ UNCHANGED lossy
     \/ GiveUp

(* The process is killed. *)
Crash ==
  /\ pc # "idle"
  /\ pc' = "idle"
  /\ todo' = {}
  /\ plan' = NoPlan
  /\ result' = [a \in Agents |-> "none"]
  /\ UNCHANGED <<fileVars, runVars, lossy>>

SetupNext == Start \/ Read \/ OpenTmp \/ Write \/ Rename \/ Crash

SetupSpec == SetupInit /\ [][SetupNext]_setupVars

-----------------------------------------------------------------------------
(* Properties. *)

(* The types; a run is over exactly when every agent was dealt with, and   *)
(* a rename has something to rename.                                       *)
SetupTypeOK ==
  /\ DOMAIN config = Agents /\ DOMAIN tmp = Agents
  /\ \A a \in Agents : config[a] \in Contents(a) \cup {NoFile}
  /\ \A a \in Agents : tmp[a] \in Contents(a) \cup {NoFile}
  /\ runs \in 0..MaxRuns
  /\ args \in [dry : BOOLEAN, remove : BOOLEAN]
  /\ exe \in Exes
  /\ todo \subseteq Agents
  /\ pc \in {"idle", "read", "open", "write", "rename"}
  /\ pc = "idle" <=> todo = {}
  /\ plan.verdict \in Results \cup {"none"} /\ plan.content \in Contents(Turn)
  /\ pc \in {"idle", "read"} => plan = NoPlan
  /\ pc \in {"write", "rename"} => tmp[Turn] # NoFile
  /\ result \in [Agents -> Results \cup {"none"}]
  /\ lossy \in [Agents -> BOOLEAN]

(* "Existing user hooks are never removed or overwritten" (help.cpp:653):  *)
(* no step of a setup - with --remove or without, when calls fail, when it *)
(* is killed and started again from elsewhere - takes a hook of the user's *)
(* from a configuration file that was read and written whole; a hook that  *)
(* is spelled plainly, whatever the spelling of those around it.           *)
HooksOf(c) == {c[i] : i \in DOMAIN c}
Everything(a, c) ==
  IF a = "claude" THEN HooksOf(c) ELSE UNION {HooksOf(l.hooks) : l \in HooksOf(c)}
(* Laid out so that the line parser sees every hook: one on each line of   *)
(* an array that spans lines, and the array's bracket on a line of its own. *)
Plain(ls) ==
  /\ \A i \in DOMAIN ls :
       /\ ls[i].kind \in {"item", "last"} => Len(ls[i].hooks) <= 1
       /\ ls[i].kind \notin {"item", "last", "array", "string"} => ls[i].hooks = <<>>
  /\ \A i, j \in DOMAIN ls :
       i < j /\ ls[i].kind = "open" /\ ls[j].kind \in {"array", "string"} =>
         \E k \in (i + 1)..(j - 1) : ls[k].kind = "close"

ReadBack(a, h) == h.cmd \notin Escaped[a] /\ (a = "codex" => Basic(h))
Lasting(a, h) == ~IsOurs(h) /\ ReadBack(a, h)
LastingHooks(a, c) == {h \in Everything(a, TextOf(c)) : Lasting(a, h)}
KeepsHooks ==
  \A a \in Agents : lossy[a] \/ LastingHooks(a, config[a]) \subseteq LastingHooks(a, config'[a])
HooksKept == [][KeepsHooks]_setupVars

(* The sentence of the manual as it stands, of every spelling. *)
UsersHooks(a, c) == {h \in Everything(a, TextOf(c)) : ~IsOurs(h)}
EveryHookKept ==
  [][\A a \in Agents : lossy[a] \/ UsersHooks(a, config[a]) \subseteq UsersHooks(a, config'[a])]_setupVars

(* What setup reports is what happened: Failed, AlreadyConfigured and a    *)
(* dry run leave the file as it was, whatever went wrong; of a file that   *)
(* was read and written whole Installed, Updated and AlreadyConfigured say *)
(* that another setup has nothing to do and that no second hook of ours    *)
(* was made ("does not create duplicate hooks"), and Removed that one hook *)
(* of ours is gone.                                                        *)
HooksNow(a) == HooksIn(a, TextOf(config[a]))
OursNow(a) == Cardinality(Ours(HooksNow(a)))
OursBefore(a) == Cardinality(Ours(HooksIn(a, TextOf(before[a]))))
UntouchedWhenSaidSo ==
  \A a \in Agents :
    result[a] # "none" /\ (result[a] \in {"Failed", "AlreadyConfigured"} \/ args.dry) =>
      config[a] = before[a]
ReportsTruthful ==
  /\ UntouchedWhenSaidSo
  /\ \A a \in Agents : ~lossy[a] /\ ~args.dry =>
       /\ result[a] \in {"Installed", "Updated", "AlreadyConfigured"} /\ ~args.remove =>
            /\ Verdict(a, HooksNow(a), exe, FALSE) = "AlreadyConfigured"
            /\ OursNow(a) = (IF OursBefore(a) = 0 THEN 1 ELSE OursBefore(a))
       /\ result[a] = "Removed" => OursNow(a) + 1 = OursBefore(a)

(* TOML has a table defined once: what the theorem takes of the files. *)
OneTable(ls) == \A i, j \in DOMAIN ls : ls[i].kind = "hooks" /\ ls[j].kind = "hooks" => i = j
=============================================================================
