---------------------------- MODULE RuleManager ----------------------------
(***************************************************************************)
(* The rules of the compressor in memory and in their file                 *)
(* (SCHC_RulesManager.cpp, and the menu's "Create new rule" in             *)
(* Test/main.cpp): a new rule is written to a second file with all the     *)
(* others, checked there, put into memory, and the file moved over the     *)
(* first.  Each call that touches a file is a step, so that the program    *)
(* can end between any two.                                                *)
(***************************************************************************)
EXTENDS Integers, Sequences, SequencesExt

CONSTANTS
    NewRules,      \* the rules a user may enter
    InitialFiles   \* the rules.json the program may find

VARIABLES
    rules,     \* RuleContext, the rules in memory
    disk,      \* the two files
    creating   \* the place in the creation of a rule, and the rule

NoFile == [exists |-> FALSE, rules |-> <<>>]
File(list) == [exists |-> TRUE, rules |-> list]
NotCreating == [pc |-> "no", rule |-> <<>>, unread |-> FALSE]

(* History.  saved: the rules loaded or reported as saved, since the last  *)
(* creation that could not read the file.  from: how many rules in memory  *)
(* come before those that the file should hold.  replaceFailed: the error  *)
(* "Could not replace rules.json" was reported.                            *)
DiskInit ==
    \E list \in InitialFiles :
      disk = [file |-> File(list), tmp |-> NoFile, saved |-> ToSet(list),
              from |-> 0, replaceFailed |-> FALSE]

(* What the YANG model asks of a list of rules as a whole: its keys.       *)
ValidYang(list) ==
    \A i, j \in DOMAIN list :
      list[i].id = list[j].id /\ list[i].idLen = list[j].idLen => i = j

InMemory(rule) == \E i \in DOMAIN rules : rules[i].id = rule.id

(* libstdc++ doubles the capacity of a full vector.                        *)
Reallocates(n) == n = 0 \/ \E k \in 0 .. n : n = 2^k

-----------------------------------------------------------------------------
At(pc) == creating.pc = pc
Goto(pc) == creating' = [creating EXCEPT !.pc = pc]
Finish == creating' = NotCreating

BeginRule ==
    /\ At("no")
    /\ \E rule \in NewRules :
         creating' = [pc |-> "write", rule |-> rule, unread |-> FALSE]
    /\ UNCHANGED <<rules, disk>>

(* Mutant: every file counts as empty.                                     *)
WithNewRuleOnly(read) == File(<<creating.rule>>)

(* write_rule_to_json().  A file that cannot be opened, read or parsed     *)
(* counts as empty, and nothing is said of it.                             *)
WithNewRule(read) ==
    File(Append(IF read THEN disk.file.rules ELSE <<>>, creating.rule))

WriteRule ==
    /\ At("write")
    /\ \/ \E read \in BOOLEAN :
            /\ disk' = [disk EXCEPT !.tmp = WithNewRule(read)]
            /\ creating' = [creating EXCEPT !.pc = "validate", !.unread = ~read]
       \/ UNCHANGED disk /\ Goto("discard")
    /\ UNCHANGED rules

(* It fails also for a file that was not written to its end, or a model    *)
(* that libyang cannot load.                                               *)
ValidateRule ==
    /\ At("validate")
    /\ \/ ValidYang(disk.tmp.rules) /\ Goto("insert")
       \/ Goto("discard")
    /\ UNCHANGED <<rules, disk>>

(* insert_rule_into_context().                                             *)
InsertRule ==
    /\ At("insert")
    /\ ~InMemory(creating.rule)
    /\ rules' = Append(rules, creating.rule)
    /\ Goto("rename")
    /\ UNCHANGED disk

(* Mutant: a return where the code throws.                                 *)
RefuseRuleSilently ==
    /\ At("insert")
    /\ InMemory(creating.rule)
    /\ Goto("rename")
    /\ UNCHANGED <<rules, disk>>

RefuseRule ==
    /\ At("insert")
    /\ InMemory(creating.rule)
    /\ Goto("discard")
    /\ UNCHANGED <<rules, disk>>

(* What the user may still count on once the first file is gone.           *)
Covered == IF creating.unread THEN {} ELSE disk.saved

(* "New rule validated and saved.", also when all the others are lost.     *)
Moved ==
    [disk EXCEPT !.file = disk.tmp, !.tmp = NoFile,
                 !.saved = Covered \cup {creating.rule},
                 !.from = IF creating.unread THEN Len(rules) - 1 ELSE @]

RenameFile ==
    /\ At("rename")
    /\ \/ disk' = Moved /\ Finish
       \/ UNCHANGED disk /\ Goto("remove")
    /\ UNCHANGED rules

RemoveFile ==
    /\ At("remove")
    /\ disk' \in {[disk EXCEPT !.file = NoFile, !.saved = Covered], disk}
    /\ Goto("rename again")
    /\ UNCHANGED rules

RenameAgain ==
    /\ At("rename again")
    /\ \/ disk' = Moved /\ Finish
       \/ disk' = [disk EXCEPT !.replaceFailed = TRUE] /\ Goto("discard")
    /\ UNCHANGED rules

(* The handler of an exception removes the second file, if it can.         *)
DiscardFile ==
    /\ At("discard")
    /\ disk' \in {[disk EXCEPT !.tmp = NoFile], disk}
    /\ Finish
    /\ UNCHANGED rules

CreateRule ==
    \/ WriteRule \/ ValidateRule \/ InsertRule \/ RefuseRule
    \/ RenameFile \/ RemoveFile \/ RenameAgain \/ DiscardFile

=============================================================================
