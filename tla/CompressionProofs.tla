--------------------------- MODULE CompressionProofs ---------------------------
(***************************************************************************)
(* Theorems about CompressionTest for all rules, files and packets, and    *)
(* any number of choices and starts, with proofs that TLAPS checks.        *)
(***************************************************************************)
EXTENDS CompressionTest, SequenceTheorems, WellFoundedInduction, TLAPS

-----------------------------------------------------------------------------
(* The rules in memory and on the disk.                                    *)

AllRules == NewRules \cup UNION {ToSet(list) : list \in InitialFiles}

FileRecord == [exists : BOOLEAN, rules : Seq(AllRules)]

DiskRecord ==
    [file : FileRecord, tmp : FileRecord, saved : SUBSET AllRules, from : Int,
     replaceFailed : BOOLEAN]

Places == {"write", "validate", "insert", "rename", "remove", "rename again",
           "discard"}

CreatingRecord == [pc : Places, rule : NewRules, unread : BOOLEAN]

StoreTyped ==
    /\ pc \in {"off", "menu", "create", "read", "run"}
    /\ rules \in Seq(AllRules)
    /\ disk \in DiskRecord
    /\ IF pc = "create" THEN creating \in CreatingRecord
                        ELSE creating = Manager!NotCreating

(* The rules in memory behind the first n.                                 *)
Behind(n) == SubSeq(rules, n + 1, Len(rules))

(* Until the new rule is in memory the file is what memory holds behind the*)
(* rules that a creation has lost.                                         *)
FileAhead ==
    pc # "off" /\ creating.pc \in {"no", "write", "validate", "insert", "discard"} =>
      disk.from \in 0 .. Len(rules) /\ disk.file = Manager!File(Behind(disk.from))

(* How many rules in memory come before those of the second file.          *)
NextFrom == IF creating.unread THEN Len(rules) - 1 ELSE disk.from

(* The second file is what memory holds behind them, or is about to hold.  *)
SecondAhead ==
    /\ creating.pc \in {"validate", "insert"} =>
         disk.tmp = Manager!WithNewRule(~creating.unread)
    /\ creating.pc \in {"rename", "remove", "rename again"} =>
         /\ NextFrom \in 0 .. Len(rules)
         /\ disk.tmp = Manager!File(Behind(NextFrom))

(* The first file is removed only once the second has the new rule and all *)
(* that were read from the first.                                          *)
FirstCovered ==
    creating.pc \in {"rename", "remove", "rename again"} =>
      /\ creating.rule \in ToSet(disk.tmp.rules)
      /\ ~creating.unread => ToSet(disk.file.rules) \subseteq ToSet(disk.tmp.rules)
      /\ creating.pc # "rename again" => disk.file.exists

StoreInv ==
    /\ StoreTyped
    /\ ~disk.replaceFailed => FileAhead /\ SecondAhead /\ FirstCovered
    /\ RulesKept

(* A rule put at the end of a list is among its rules, with the others.    *)
LEMMA Appended ==
    ASSUME NEW S, NEW list \in Seq(S), NEW x \in S
    PROVE  /\ Append(list, x) \in Seq(S)
           /\ ToSet(Append(list, x)) = ToSet(list) \cup {x}
<1>1. Append(list, x) \in Seq(S)
  OBVIOUS
<1>2. ToSet(Append(list, x)) \subseteq ToSet(list) \cup {x}
  BY DEF ToSet
<1>3. ASSUME NEW y \in ToSet(list) \cup {x} PROVE y \in ToSet(Append(list, x))
  <2>1. CASE y = x
    <3>1. /\ Append(list, x)[Len(list) + 1] = x
          /\ Len(list) + 1 \in DOMAIN Append(list, x)
      OBVIOUS
    <3> QED
      BY <2>1, <3>1 DEF ToSet
  <2>2. CASE y \in ToSet(list)
    <3>1. PICK i \in DOMAIN list : y = list[i]
      BY <2>2 DEF ToSet
    <3>2. i \in DOMAIN Append(list, x) /\ Append(list, x)[i] = y
      BY <3>1
    <3> QED
      BY <3>2 DEF ToSet
  <2> QED
    BY <1>3, <2>1, <2>2
<1> QED
  BY <1>1, <1>2, <1>3

LEMMA StoreInitially == Init => StoreInv
<1> SUFFICES ASSUME Init PROVE StoreInv
  OBVIOUS
<1>1. PICK list \in InitialFiles :
        disk = [file |-> Manager!File(list), tmp |-> Manager!NoFile,
                saved |-> ToSet(list), from |-> 0, replaceFailed |-> FALSE]
  BY DEF Init, Manager!DiskInit, ToSet, Manager!ToSet
<1>2. ToSet(list) \subseteq AllRules /\ list \in Seq(AllRules)
  <2>1. ToSet(list) \subseteq AllRules
    BY DEF AllRules
  <2>2. list \in Seq(ToSet(list))
    BY CompressionAssumption
  <2> QED
    BY <2>1, <2>2, SeqMonotonic
<1>3. pc = "off" /\ rules = <<>> /\ creating = Manager!NotCreating
  BY DEF Init
<1>4. /\ disk.file = Manager!File(list) /\ disk.saved = ToSet(disk.file.rules)
      /\ creating.pc = "no"
  BY <1>1, <1>3 DEF Manager!File, Manager!NotCreating
<1>5. disk \in DiskRecord
  BY <1>1, <1>2 DEF DiskRecord, FileRecord, Manager!File, Manager!NoFile
<1>6. StoreTyped
  BY <1>3, <1>5 DEF StoreTyped
<1>7. FileAhead /\ SecondAhead /\ FirstCovered
  BY <1>3, <1>4 DEF FileAhead, SecondAhead, FirstCovered
<1>8. RulesKept
  BY <1>4 DEF RulesKept
<1> QED
  BY <1>6, <1>7, <1>8 DEF StoreInv


(* The compressor reads the rules and leaves them as they are.             *)
LEMMA CompressorKeepsRules ==
    Compressor!StepPasses \/ Compressor!FindNoRule => UNCHANGED rules
BY DEF Compressor!StepPasses, Compressor!FindNoRule, Compressor!Enter,
       Compressor!st_idle, Compressor!st_parse, Compressor!st_find_rule,
       Compressor!FindDefaultRule, Compressor!st_mo, Compressor!MoRejects,
       Compressor!st_cda, Compressor!st_gen, Compressor!st_nocompress

(* The rest of the program touches neither the rules nor the files.        *)
LEMMA OutsideStore ==
    ASSUME StoreTyped, ChoosesCompress \/ ReadsPacket \/ Steps
    PROVE  /\ UNCHANGED <<rules, disk, creating>>
           /\ pc \in {"menu", "read", "run"}
           /\ pc' \in {"menu", "read", "run"}
<1>1. CASE ChoosesCompress
  BY <1>1 DEF ChoosesCompress, Chooses
<1>2. CASE ReadsPacket
  BY <1>2 DEF ReadsPacket, Compressor!PacketArrives
<1>3. CASE Steps
  BY <1>3, CompressorKeepsRules DEF Steps
<1> QED
  BY <1>1, <1>2, <1>3

(* Between the program's steps with the files only its place may change.   *)
LEMMA StoreStays ==
    ASSUME StoreInv, UNCHANGED <<rules, disk, creating>>,
           pc' = pc \/ (pc \in {"menu", "read", "run"} /\ pc' \in {"menu", "read", "run"})
    PROVE  StoreInv'
<1>1. StoreTyped'
  BY DEF StoreInv, StoreTyped
<1>2. FileAhead => FileAhead'
  BY DEF FileAhead, Behind
<1>3. SecondAhead => SecondAhead'
  BY DEF SecondAhead, NextFrom, Behind, Manager!WithNewRule
<1>4. FirstCovered => FirstCovered'
  BY DEF FirstCovered
<1>5. RulesKept'
  BY DEF StoreInv, RulesKept
<1> QED
  BY <1>1, <1>2, <1>3, <1>4, <1>5 DEF StoreInv

LEMMA LaunchKeepsStore ==
    ASSUME StoreInv, Launch PROVE StoreInv'
<1>1. pc' = "menu" /\ rules' = disk.file.rules /\ disk.file.exists
  BY DEF Launch
<1>2. creating' = creating /\ creating = Manager!NotCreating
  BY DEF Launch, StoreInv, StoreTyped
<1>3. disk \in DiskRecord /\ disk.file \in FileRecord
  BY DEF StoreInv, StoreTyped, DiskRecord
<1>4. disk.file = Manager!File(disk.file.rules) /\ disk.file.rules \in Seq(AllRules)
  BY <1>1, <1>3 DEF FileRecord, Manager!File
<1>5. /\ disk' \in DiskRecord /\ disk'.file = disk.file /\ disk'.from = 0
      /\ disk'.tmp = disk.tmp /\ disk'.saved = disk.saved
      /\ disk'.replaceFailed = disk.replaceFailed
  <2>1. disk' = [disk EXCEPT !.from = 0]
    BY DEF Launch
  <2> QED
    BY <1>3, <2>1 DEF DiskRecord
<1>6. creating.pc = "no" /\ creating'.pc = "no"
  BY <1>2 DEF Manager!NotCreating
<1>7. StoreTyped'
  BY <1>1, <1>2, <1>4, <1>5 DEF StoreInv, StoreTyped, Manager!NotCreating
<1>8. FileAhead' /\ SecondAhead' /\ FirstCovered'
  <2>1. SubSeq(rules', 0 + 1, Len(rules')) = rules'
    BY <1>1, <1>4
  <2>2. Behind(disk.from)' = rules' /\ disk'.from \in 0 .. Len(rules')
    BY <1>1, <1>4, <1>5, <2>1 DEF Behind
  <2> QED
    BY <1>1, <1>4, <1>5, <1>6, <2>2 DEF FileAhead, SecondAhead, FirstCovered
<1>9. RulesKept'
  BY <1>5 DEF StoreInv, RulesKept
<1> QED
  BY <1>7, <1>8, <1>9 DEF StoreInv

LEMMA OffKeepsStore ==
    ASSUME StoreInv, Off PROVE StoreInv'
<1>1. /\ pc' = "off" /\ rules' = <<>> /\ disk' = disk
      /\ creating' = Manager!NotCreating /\ creating'.pc = "no"
  BY DEF Off, Manager!NotCreating
<1>2. StoreTyped'
  BY <1>1 DEF StoreInv, StoreTyped, Manager!NotCreating
<1>3. FileAhead' /\ SecondAhead' /\ FirstCovered'
  BY <1>1 DEF FileAhead, SecondAhead, FirstCovered
<1>4. RulesKept'
  BY <1>1 DEF StoreInv, RulesKept
<1> QED
  BY <1>2, <1>3, <1>4 DEF StoreInv

LEMMA BeginKeepsStore ==
    ASSUME StoreInv, ChoosesCreate PROVE StoreInv'
<1>1. PICK rule \in NewRules :
        creating' = [pc |-> "write", rule |-> rule, unread |-> FALSE]
  BY DEF ChoosesCreate, Manager!BeginRule
<1>2. pc = "menu" /\ pc' = "create" /\ UNCHANGED <<rules, disk>>
  BY DEF ChoosesCreate, Chooses, Manager!BeginRule
<1>3. creating.pc = "no"
  BY <1>2 DEF StoreInv, StoreTyped, Manager!NotCreating
<1>4. StoreTyped'
  BY <1>1, <1>2 DEF StoreInv, StoreTyped, Places, CreatingRecord
<1>5. FileAhead => FileAhead' /\ SecondAhead' /\ FirstCovered'
  BY <1>1, <1>2, <1>3 DEF FileAhead, SecondAhead, FirstCovered, Behind
<1>6. RulesKept'
  BY <1>2 DEF StoreInv, RulesKept
<1> QED
  BY <1>2, <1>4, <1>5, <1>6 DEF StoreInv

(* What memory holds behind the first n rules, with a rule put at its end. *)
LEMMA AppendedBehind ==
    ASSUME rules \in Seq(AllRules), NEW rule \in AllRules, NEW n \in 0 .. Len(rules),
           rules' = Append(rules, rule)
    PROVE  /\ Behind(n)' = Append(Behind(n), rule)
           /\ SubSeq(rules', Len(rules'), Len(rules')) = <<rule>>
<1>1. Len(rules') = Len(rules) + 1 /\ rules' \in Seq(AllRules)
  OBVIOUS
<1>2. Behind(n)' = Append(Behind(n), rule)
  <2> DEFINE longer == SubSeq(rules', n + 1, Len(rules) + 1)
             shorter == SubSeq(rules, n + 1, Len(rules))
             size == Len(rules) - n
  <2>1. Behind(n)' = longer /\ Behind(n) = shorter
    BY <1>1 DEF Behind
  <2>2. /\ longer \in Seq(AllRules) /\ Len(longer) = size + 1
        /\ \A i \in 1 .. size + 1 : longer[i] = rules'[n + i]
    BY <1>1
  <2>3. /\ shorter \in Seq(AllRules) /\ Len(shorter) = size
        /\ \A i \in 1 .. size : shorter[i] = rules[n + i]
    OBVIOUS
  <2>4. /\ rules'[n + (size + 1)] = rule
        /\ \A i \in 1 .. size : rules'[n + i] = rules[n + i]
    OBVIOUS
  <2>5. size \in Nat
    OBVIOUS
  <2> HIDE DEF longer, shorter, size
  <2>6. /\ Append(shorter, rule) \in Seq(AllRules)
        /\ Len(Append(shorter, rule)) = size + 1
        /\ Append(shorter, rule)[size + 1] = rule
        /\ \A i \in 1 .. size : Append(shorter, rule)[i] = shorter[i]
    BY <2>3, <2>5
  <2>7. ASSUME NEW i \in 1 .. size + 1 PROVE longer[i] = Append(shorter, rule)[i]
    <3>1. CASE i = size + 1
      BY <2>2, <2>4, <2>6, <3>1
    <3>2. CASE i \in 1 .. size
      BY <2>2, <2>3, <2>4, <2>6, <3>2
    <3>3. i = size + 1 \/ i \in 1 .. size
      BY <2>5, <2>7
    <3> QED
      BY <3>1, <3>2, <3>3
  <2>8. longer = Append(shorter, rule)
    BY <2>2, <2>6, <2>7, SeqEqual
  <2> QED
    BY <2>1, <2>8
<1>3. SubSeq(rules', Len(rules'), Len(rules')) = <<rule>>
  <2>1. rules'[Len(rules')] = rule /\ Len(rules') \in Nat \ {0}
    BY <1>1
  <2> DEFINE last == SubSeq(rules', Len(rules'), Len(rules'))
  <2>2. last \in Seq(AllRules) /\ Len(last) = 1 /\ last[1] = rule
    BY <1>1, <2>1
  <2>3. /\ <<rule>> \in Seq(AllRules) /\ Len(<<rule>>) = 1
        /\ <<rule>>[1] = rule
    OBVIOUS
  <2> HIDE DEF last
  <2>4. last = <<rule>>
    BY <2>2, <2>3, SeqEqual
  <2> QED
    BY <2>4 DEF last
<1> QED
  BY <1>2, <1>3

(* The creation of a rule, step by step.                                   *)
LEMMA CreatesKeepsStore ==
    ASSUME StoreInv, Creates PROVE StoreInv'
<1> DEFINE rule == creating.rule
           unread == creating.unread
<1> USE DEF Manager!At, Manager!Goto, Manager!Finish, Manager!NotCreating
<1>1. /\ pc = "create"
      /\ creating \in CreatingRecord
      /\ creating.pc \in Places /\ unread \in BOOLEAN
      /\ rule \in AllRules
      /\ rules \in Seq(AllRules)
      /\ disk \in DiskRecord
      /\ pc' = IF creating'.pc = "no" THEN "menu" ELSE "create"
  BY DEF Creates, StoreInv, StoreTyped, AllRules, CreatingRecord
<1>2. /\ disk.file.rules \in Seq(AllRules)
      /\ Append(disk.file.rules, rule) \in Seq(AllRules)
      /\ Append(<<>>, rule) \in Seq(AllRules)
      /\ ToSet(Append(disk.file.rules, rule)) = ToSet(disk.file.rules) \cup {rule}
      /\ rule \in ToSet(Append(<<>>, rule))
  <2>1. disk.file.rules \in Seq(AllRules) /\ <<>> \in Seq(AllRules)
    BY <1>1 DEF FileRecord, DiskRecord
  <2>2. Append(<<>>, rule) \in Seq(AllRules) /\ rule \in ToSet(Append(<<>>, rule))
    <3>1. \A list \in Seq(AllRules) : /\ Append(list, rule) \in Seq(AllRules)
                                      /\ rule \in ToSet(Append(list, rule))
      BY <1>1, Appended
    <3> QED
      BY <2>1, <3>1
  <2>3. /\ Append(disk.file.rules, rule) \in Seq(AllRules)
        /\ ToSet(Append(disk.file.rules, rule)) = ToSet(disk.file.rules) \cup {rule}
    BY <1>1, <2>1, Appended
  <2> QED
    BY <2>1, <2>2, <2>3
<1>3. RulesKept
  BY DEF StoreInv
<1>4. ~disk.replaceFailed => FileAhead /\ SecondAhead /\ FirstCovered
  BY DEF StoreInv
<1>5. ASSUME NEW place \in Places,
             creating' = [pc |-> place, rule |-> rule, unread |-> unread]
      PROVE  pc' = "create" /\ creating' \in CreatingRecord
  BY <1>1, <1>5 DEF Places, CreatingRecord, AllRules
<1>6. ASSUME NEW place \in Places, creating' = [creating EXCEPT !.pc = place]
      PROVE  creating' = [pc |-> place, rule |-> rule, unread |-> unread]
  BY <1>1, <1>6 DEF CreatingRecord
<1>7. ASSUME creating.pc \in {"write", "validate", "insert"},
             rules' = rules, disk' = disk, Manager!Goto("discard")
      PROVE  StoreInv'
  <2>1. creating' = [pc |-> "discard", rule |-> rule, unread |-> unread]
    BY <1>6, <1>7 DEF Places
  <2>2. pc' = "create" /\ creating' \in CreatingRecord
    BY <1>5, <2>1 DEF Places
  <2>3. StoreTyped'
    BY <1>1, <1>7, <2>2 DEF StoreTyped
  <2>4. FileAhead => FileAhead' /\ SecondAhead' /\ FirstCovered'
    BY <1>1, <1>7, <2>1, <2>2 DEF FileAhead, SecondAhead, FirstCovered, Behind
  <2>5. RulesKept'
    BY <1>3, <1>7 DEF RulesKept
  <2> QED
    BY <1>4, <1>7, <2>3, <2>4, <2>5 DEF StoreInv
<1>8. CASE Manager!WriteRule
  <2>1. creating.pc = "write" /\ rules' = rules
    BY <1>8 DEF Manager!WriteRule
  <2>2. ASSUME NEW read \in BOOLEAN,
               disk' = [disk EXCEPT !.tmp = Manager!WithNewRule(read)],
               creating' = [creating EXCEPT !.pc = "validate", !.unread = ~read]
        PROVE  StoreInv'
    <3>1. creating' = [pc |-> "validate", rule |-> rule, unread |-> ~read]
      BY <1>1, <2>2 DEF CreatingRecord
    <3>2. pc' = "create" /\ creating' \in CreatingRecord
      BY <1>1, <2>2, <3>1 DEF Places, CreatingRecord
    <3>3. Manager!WithNewRule(read) \in FileRecord
      BY <1>2 DEF FileRecord, Manager!WithNewRule, Manager!File
    <3>4. /\ disk' \in DiskRecord /\ disk'.file = disk.file
          /\ disk'.tmp = Manager!WithNewRule(read) /\ disk'.from = disk.from
          /\ disk'.saved = disk.saved /\ disk'.replaceFailed = disk.replaceFailed
      BY <1>1, <2>2, <3>3 DEF DiskRecord
    <3>5. StoreTyped'
      BY <1>1, <2>1, <3>2, <3>4 DEF StoreTyped
    <3>6. Manager!WithNewRule(~creating.unread)' = Manager!WithNewRule(read)
      BY <3>1, <3>4 DEF Manager!WithNewRule
    <3>7. FileAhead => FileAhead' /\ SecondAhead' /\ FirstCovered'
      BY <1>1, <2>1, <3>1, <3>4, <3>6 DEF FileAhead, SecondAhead, FirstCovered, Behind
    <3>8. FileAhead => disk.file.exists
      BY <1>1, <2>1 DEF FileAhead, Manager!File
    <3>9. RulesKept'
      BY <1>3, <1>4, <3>4, <3>8 DEF RulesKept
    <3> QED
      BY <1>4, <3>4, <3>5, <3>7, <3>9 DEF StoreInv
  <2>3. CASE disk' = disk /\ Manager!Goto("discard")
    BY <1>7, <2>1, <2>3
  <2> QED
    BY <1>8, <2>2, <2>3 DEF Manager!WriteRule
<1>9. CASE Manager!ValidateRule
  <2>1. creating.pc = "validate" /\ rules' = rules /\ disk' = disk
    BY <1>9 DEF Manager!ValidateRule
  <2>2. CASE Manager!Goto("insert")
    <3>1. creating' = [pc |-> "insert", rule |-> rule, unread |-> unread]
      BY <1>6, <2>2 DEF Places
    <3>2. pc' = "create" /\ creating' \in CreatingRecord
      BY <1>5, <3>1 DEF Places
    <3>3. StoreTyped'
      BY <1>1, <2>1, <3>2 DEF StoreTyped
    <3>4. Manager!WithNewRule(~creating.unread)' = Manager!WithNewRule(~creating.unread)
      BY <2>1, <3>1 DEF Manager!WithNewRule
    <3>5. FileAhead /\ SecondAhead => FileAhead' /\ SecondAhead' /\ FirstCovered'
      BY <1>1, <2>1, <3>1, <3>4 DEF FileAhead, SecondAhead, FirstCovered, Behind
    <3>6. RulesKept'
      BY <1>3, <2>1 DEF RulesKept
    <3> QED
      BY <1>4, <2>1, <3>3, <3>5, <3>6 DEF StoreInv
  <2>3. CASE Manager!Goto("discard")
    BY <1>7, <2>1, <2>3
  <2> QED
    BY <1>9, <2>2, <2>3 DEF Manager!ValidateRule
<1>10. CASE Manager!InsertRule
  <2>1. /\ creating.pc = "insert" /\ disk' = disk
        /\ rules' = Append(rules, rule)
        /\ creating' = [pc |-> "rename", rule |-> rule, unread |-> unread]
    BY <1>6, <1>10 DEF Manager!InsertRule, Places
  <2>2. pc' = "create" /\ creating' \in CreatingRecord
    BY <1>5, <2>1 DEF Places
  <2>3. rules' \in Seq(AllRules) /\ Len(rules') = Len(rules) + 1
    BY <1>1, <2>1
  <2>4. StoreTyped'
    BY <1>1, <2>1, <2>2, <2>3 DEF StoreTyped
  <2>5. FileAhead => /\ disk.from \in 0 .. Len(rules) /\ disk.file.exists
                     /\ disk.file.rules = Behind(disk.from)
    BY <1>1, <2>1 DEF FileAhead, Manager!File
  <2>6. SecondAhead =>
          disk.tmp = Manager!File(Append(IF unread THEN <<>> ELSE disk.file.rules, rule))
    BY <1>1, <2>1 DEF SecondAhead, Manager!WithNewRule
  <2>7. FileAhead /\ SecondAhead => SecondAhead'
    <3> SUFFICES ASSUME FileAhead, SecondAhead PROVE SecondAhead'
      OBVIOUS
    <3>1. CASE unread
      <4>1. NextFrom' = Len(rules) /\ Len(rules) \in Nat
        BY <1>1, <2>1, <2>3, <3>1 DEF NextFrom
      <4>2. Behind(NextFrom)' = SubSeq(rules', Len(rules'), Len(rules'))
        BY <2>3, <4>1 DEF Behind
      <4>3. Behind(NextFrom)' = <<rule>>
        BY <1>1, <2>1, <2>5, <4>2, AppendedBehind
      <4>4. disk'.tmp = Manager!File(Behind(NextFrom)')
        BY <2>1, <2>6, <3>1, <4>3
      <4> QED
        BY <2>1, <2>3, <4>1, <4>4 DEF SecondAhead, Manager!File
    <3>2. CASE ~unread
      <4>1. NextFrom' = disk.from
        BY <2>1, <3>2 DEF NextFrom
      <4>2. Behind(disk.from)' = Append(Behind(disk.from), rule)
        BY <1>1, <2>1, <2>5, AppendedBehind
      <4>3. Behind(NextFrom)' = Append(disk.file.rules, rule)
        BY <2>1, <2>5, <4>1, <4>2 DEF Behind
      <4>4. disk'.tmp = Manager!File(Behind(NextFrom)')
        BY <2>1, <2>6, <3>2, <4>3
      <4> QED
        BY <1>1, <2>1, <2>3, <2>5, <4>1, <4>4 DEF SecondAhead, Manager!File
    <3> QED
      BY <1>1, <3>1, <3>2
  <2>8. FileAhead /\ SecondAhead => FileAhead' /\ FirstCovered'
    <3>1. SecondAhead => disk.tmp.rules = Append(IF unread THEN <<>> ELSE disk.file.rules, rule)
      BY <2>6 DEF Manager!File
    <3> QED
      BY <1>2, <2>1, <2>5, <3>1 DEF FileAhead, FirstCovered
  <2>9. RulesKept'
    BY <1>3, <2>1 DEF RulesKept
  <2> QED
    BY <1>4, <2>1, <2>4, <2>7, <2>8, <2>9 DEF StoreInv
<1>11. CASE Manager!RefuseRule
  BY <1>7, <1>11 DEF Manager!RefuseRule
<1>12. ASSUME creating.pc \in {"rename", "remove", "rename again"},
             rules' = rules, disk' = Manager!Moved,
             creating' = Manager!NotCreating
      PROVE  StoreInv'
  <2>1. pc' = "menu" /\ creating'.pc = "no"
    BY <1>1, <1>12
  <2>2. /\ disk' \in DiskRecord /\ disk'.file = disk.tmp
        /\ disk'.saved = Manager!Covered \cup {rule}
        /\ disk'.from = NextFrom
        /\ disk'.replaceFailed = disk.replaceFailed
    <3>1. Manager!NoFile \in FileRecord /\ NextFrom \in Int
      BY <1>1 DEF FileRecord, Manager!NoFile, NextFrom, DiskRecord
    <3>2. Manager!Covered \cup {rule} \in SUBSET AllRules
      BY <1>1 DEF Manager!Covered, DiskRecord
    <3> QED
      BY <1>1, <1>12, <3>1, <3>2 DEF DiskRecord, Manager!Moved, NextFrom
  <2>3. StoreTyped'
    BY <1>1, <1>12, <2>1, <2>2 DEF StoreTyped
  <2>4. SecondAhead => /\ NextFrom \in 0 .. Len(rules)
                       /\ disk.tmp = Manager!File(Behind(NextFrom))
    BY <1>12 DEF SecondAhead
  <2>5. FirstCovered => /\ rule \in ToSet(disk.tmp.rules)
                        /\ ~unread => ToSet(disk.file.rules) \subseteq ToSet(disk.tmp.rules)
    BY <1>12 DEF FirstCovered
  <2>6. SecondAhead => FileAhead' /\ SecondAhead' /\ FirstCovered'
    <3>1. Behind(disk.from)' = Behind(NextFrom)
      BY <1>12, <2>2 DEF Behind
    <3> QED
      BY <1>12, <2>1, <2>2, <2>4, <3>1 DEF FileAhead, SecondAhead, FirstCovered
  <2>7. RulesKept'
    BY <1>3, <1>4, <2>2, <2>5 DEF RulesKept, Manager!Covered
  <2> QED
    BY <1>4, <2>2, <2>3, <2>6, <2>7 DEF StoreInv
<1>13. CASE Manager!RenameFile
  <2>1. creating.pc = "rename" /\ rules' = rules
    BY <1>13 DEF Manager!RenameFile
  <2>2. CASE disk' = Manager!Moved /\ Manager!Finish
    BY <1>12, <2>1, <2>2
  <2>3. CASE disk' = disk /\ Manager!Goto("remove")
    <3>1. creating' = [pc |-> "remove", rule |-> rule, unread |-> unread]
      BY <1>6, <2>3 DEF Places
    <3>2. pc' = "create" /\ creating' \in CreatingRecord
      BY <1>5, <3>1 DEF Places
    <3>3. StoreTyped'
      BY <1>1, <2>1, <2>3, <3>2 DEF StoreTyped
    <3>4. NextFrom' = NextFrom /\ Behind(NextFrom)' = Behind(NextFrom)
      BY <2>1, <2>3, <3>1 DEF NextFrom, Behind
    <3>5. SecondAhead /\ FirstCovered => FileAhead' /\ SecondAhead' /\ FirstCovered'
      BY <2>1, <2>3, <3>1, <3>4 DEF FileAhead, SecondAhead, FirstCovered
    <3>6. RulesKept'
      BY <1>3, <2>3 DEF RulesKept
    <3> QED
      BY <1>4, <2>3, <3>3, <3>5, <3>6 DEF StoreInv
  <2> QED
    BY <1>13, <2>2, <2>3 DEF Manager!RenameFile
<1>14. CASE Manager!RemoveFile
  <2>1. /\ creating.pc = "remove" /\ rules' = rules
        /\ creating' = [pc |-> "rename again", rule |-> rule, unread |-> unread]
        /\ \/ disk' = [disk EXCEPT !.file = Manager!NoFile, !.saved = Manager!Covered]
           \/ disk' = disk
    BY <1>6, <1>14 DEF Manager!RemoveFile, Places
  <2>2. pc' = "create" /\ creating' \in CreatingRecord
    BY <1>5, <2>1 DEF Places
  <2>3. /\ disk' \in DiskRecord /\ disk'.tmp = disk.tmp /\ disk'.from = disk.from
        /\ \/ disk'.file = Manager!NoFile /\ disk'.saved = Manager!Covered
           \/ disk' = disk
        /\ disk'.replaceFailed = disk.replaceFailed
    <3>1. Manager!NoFile \in FileRecord
      BY DEF FileRecord, Manager!NoFile
    <3>2. Manager!Covered \in SUBSET AllRules
      BY <1>1 DEF Manager!Covered, DiskRecord
    <3> QED
      BY <1>1, <2>1, <3>1, <3>2 DEF DiskRecord
  <2>4. StoreTyped'
    BY <1>1, <2>1, <2>2, <2>3 DEF StoreTyped
  <2>5. FirstCovered => /\ rule \in ToSet(disk.tmp.rules) /\ disk.file.exists
                        /\ ~unread => ToSet(disk.file.rules) \subseteq ToSet(disk.tmp.rules)
    BY <2>1 DEF FirstCovered
  <2>6. ~Manager!NoFile.exists /\ ToSet(Manager!NoFile.rules) = {}
    BY DEF Manager!NoFile, ToSet
  <2>7. NextFrom' = NextFrom /\ Behind(NextFrom)' = Behind(NextFrom)
    BY <2>1, <2>3 DEF NextFrom, Behind
  <2>8. SecondAhead => FileAhead' /\ SecondAhead'
    BY <2>1, <2>3, <2>7 DEF FileAhead, SecondAhead
  <2>9. FirstCovered => FirstCovered'
    BY <2>1, <2>3, <2>5, <2>6 DEF FirstCovered
  <2>10. RulesKept'
    BY <1>3, <1>4, <2>3, <2>5, <2>6 DEF RulesKept, Manager!Covered
  <2> QED
    BY <1>4, <2>3, <2>4, <2>8, <2>9, <2>10 DEF StoreInv
<1>15. CASE Manager!RenameAgain
  <2>1. creating.pc = "rename again" /\ rules' = rules
    BY <1>15 DEF Manager!RenameAgain
  <2>2. CASE disk' = Manager!Moved /\ Manager!Finish
    BY <1>12, <2>1, <2>2
  <2>3. CASE disk' = [disk EXCEPT !.replaceFailed = TRUE] /\ Manager!Goto("discard")
    <3>1. creating' = [pc |-> "discard", rule |-> rule, unread |-> unread]
      BY <1>6, <2>3 DEF Places
    <3>2. pc' = "create" /\ creating' \in CreatingRecord
      BY <1>5, <3>1 DEF Places
    <3>3. disk' \in DiskRecord /\ disk'.replaceFailed
      BY <1>1, <2>3 DEF DiskRecord
    <3>4. StoreTyped'
      BY <1>1, <2>1, <3>2, <3>3 DEF StoreTyped
    <3>5. RulesKept'
      BY <3>3 DEF RulesKept
    <3> QED
      BY <3>3, <3>4, <3>5 DEF StoreInv
  <2> QED
    BY <1>15, <2>2, <2>3 DEF Manager!RenameAgain
<1>16. CASE Manager!DiscardFile
  <2>1. /\ creating.pc = "discard" /\ rules' = rules
        /\ creating' = Manager!NotCreating
        /\ disk' = [disk EXCEPT !.tmp = Manager!NoFile] \/ disk' = disk
    BY <1>1, <1>16 DEF Manager!DiscardFile
  <2>2. pc' = "menu" /\ creating'.pc = "no"
    BY <1>1, <2>1
  <2>3. /\ disk' \in DiskRecord /\ disk'.file = disk.file /\ disk'.from = disk.from
        /\ disk'.saved = disk.saved /\ disk'.replaceFailed = disk.replaceFailed
    <3>1. Manager!NoFile \in FileRecord
      BY DEF FileRecord, Manager!NoFile
    <3> QED
      BY <1>1, <2>1, <3>1 DEF DiskRecord
  <2>4. StoreTyped'
    BY <1>1, <2>1, <2>2, <2>3 DEF StoreTyped
  <2>5. FileAhead => disk.file.exists
    BY <1>1, <2>1 DEF FileAhead, Manager!File
  <2>6. FileAhead => FileAhead' /\ SecondAhead' /\ FirstCovered'
    BY <1>1, <2>1, <2>2, <2>3 DEF FileAhead, SecondAhead, FirstCovered, Behind
  <2>7. RulesKept'
    BY <1>3, <1>4, <2>3, <2>5 DEF RulesKept
  <2> QED
    BY <1>4, <2>3, <2>4, <2>6, <2>7 DEF StoreInv
<1> QED
  BY <1>8, <1>9, <1>10, <1>11, <1>13, <1>14, <1>15, <1>16
  DEF Creates, Manager!CreateRule

LEMMA StoreStep == StoreInv /\ [Next]_vars => StoreInv'
<1> SUFFICES ASSUME StoreInv, [Next]_vars PROVE StoreInv'
  OBVIOUS
<1>1. CASE Launch
  BY <1>1, LaunchKeepsStore
<1>2. CASE Ends \/ Crashes
  BY <1>2, OffKeepsStore DEF Ends, Crashes
<1>3. CASE ChoosesCreate
  BY <1>3, BeginKeepsStore
<1>4. CASE Creates
  BY <1>4, CreatesKeepsStore
<1>5. CASE ChoosesCompress \/ ReadsPacket \/ Steps
  <2>1. /\ rules' = rules /\ disk' = disk /\ creating' = creating
        /\ pc \in {"menu", "read", "run"} /\ pc' \in {"menu", "read", "run"}
    BY <1>5, OutsideStore DEF StoreInv
  <2> QED
    BY <2>1, StoreStays
<1>6. CASE UNCHANGED vars
  BY <1>6, StoreStays DEF vars
<1> QED
  BY <1>1, <1>2, <1>3, <1>4, <1>5, <1>6 DEF Next

LEMMA StoreInvariance == Spec => []StoreInv
BY StoreInitially, StoreStep, PTL DEF Spec

(* At the menu the file holds the rules in memory, in their order, whatever*)
(* the creation of a rule came to and however often the program ended in   *)
(* the middle of one; all of them, or, behind a creation that could not    *)
(* read the file and replaced it, those from its rule on                   *)
(* (write_rule_to_json() and insert_rule_into_context()).                  *)
THEOREM FileIsMemory == Spec => []FileMatchesMemory
<1>1. StoreInv => FileMatchesMemory
  BY DEF StoreInv, StoreTyped, FileAhead, FileMatchesMemory, Behind,
         Manager!NotCreating
<1> QED
  BY <1>1, StoreInvariance, PTL

(* No end of the program, at whatever step of the exchange of the files,   *)
(* loses a rule that was loaded or reported as saved; what does is a       *)
(* creation that could not read the file, and then reports success.        *)
THEOREM NoRuleLost == Spec => []RulesKept
<1>1. StoreInv => RulesKept
  BY DEF StoreInv
<1> QED
  BY <1>1, StoreInvariance, PTL

-----------------------------------------------------------------------------
(* The search for a rule.                                                  *)

CtxFields ==
    {"arrived", "raw", "defRule", "selected", "search", "fields", "indexMM",
     "residue", "out", "began"}

Pointers == -1 .. Len(rules)

(* Before the program is started, and after its end.                       *)
Fresh == ctx = Compressor!NewCtx /\ state_ = "IDLE" /\ rules = <<>>

CtxTyped ==
    /\ DOMAIN ctx = CtxFields
    /\ ctx.search \in 0 .. Len(rules)
    /\ ctx.began \in Nat
    /\ ctx.defRule \in Pointers
    /\ ctx.selected \in Pointers

(* What the search has passed does not fit the packet.                     *)
Passed(k) == \A j \in ctx.began + 1 .. k : ~Fits(rules[j])

SearchOrdered ==
    /\ state_ = "FIND_RULE" => Passed(ctx.search)
    /\ state_ \in {"MO", "CDA"} => Passed(ctx.selected - 1)
    /\ state_ = "NOCOMPRESS" => Passed(Len(rules))

(* What each state of the machine relies on.                               *)
StateRelies ==
    /\ ctx.defRule > 0 => rules[ctx.defRule].nature = "no-compression"
    /\ state_ \in {"MO", "CDA", "GEN"} =>
         ctx.selected > 0 /\ rules[ctx.selected].nature = "compression"
    /\ state_ = "MO" => ctx.selected = ctx.search
    /\ state_ = "NOCOMPRESS" => ctx.selected = ctx.defRule
    /\ state_ # "IDLE" => ctx.arrived
    /\ pc \in {"menu", "create"} => state_ \in {"IDLE", "FIND_RULE"}
    /\ pc = "off" => Fresh

SearchInv == StoreInv /\ CtxTyped /\ StateRelies /\ SearchOrdered

(* First finds the least of a set of positions.                            *)
LEMMA FirstIsLeast ==
    ASSUME NEW ks \in SUBSET Nat, ks # {}
    PROVE  /\ Compressor!First(ks) \in ks
           /\ \A j \in ks : Compressor!First(ks) <= j
<1>1. \E k \in ks : \A j \in ks : ~(<<j, k>> \in OpToRel(<, Nat))
  BY NatLessThanWellFounded, WFMin
<1>2. OpToRel(<, Nat) = {p \in Nat \X Nat : p[1] < p[2]}
  BY Zenon DEF OpToRel
<1>3. \A j, k \in Nat : <<j, k>> \in {p \in Nat \X Nat : p[1] < p[2]} <=> j < k
  BY SMT
<1>4. \E k \in ks : \A j \in ks : ~(j < k)
  BY <1>1, <1>2, <1>3
<1>5. \E k \in ks : \A j \in ks : k <= j
  BY <1>4
<1> QED
  BY <1>5 DEF Compressor!First

(* Whether a rule fits depends on nothing but the rule and the fields.     *)
LEMMA FitsStays ==
    ASSUME ctx'.fields = ctx.fields, NEW r
    PROVE  Fits(r)' <=> Fits(r)
BY DEF Fits, Compressor!HasFields, Compressor!Matches, Compressor!Parsed,
       Compressor!FieldOf, Compressor!MappingIndex

LEMMA PassedStays ==
    ASSUME ctx'.fields = ctx.fields, ctx'.began = ctx.began, NEW k \in Int,
           \A j \in ctx.began + 1 .. k : rules'[j] = rules[j],
           NEW m \in Int, m <= k, ctx.began \in Nat,
           Passed(k)
    PROVE  \A j \in ctx'.began + 1 .. m : ~Fits(rules[j])'
<1>1. ASSUME NEW j \in ctx'.began + 1 .. m PROVE ~Fits(rules[j])'
  <2>1. j \in ctx.began + 1 .. k
    OBVIOUS
  <2>2. ~Fits(rules[j])
    BY <2>1 DEF Passed
  <2> QED
    BY <2>1, <2>2, FitsStays
<1> QED
  BY <1>1

LEMMA FreshIsOrdered ==
    ASSUME Fresh PROVE CtxTyped /\ StateRelies /\ SearchOrdered
<1>1. /\ ctx.search = 0 /\ ctx.began = 0 /\ ctx.defRule = 0 /\ ctx.selected = 0
      /\ DOMAIN ctx = CtxFields
  BY DEF Fresh, Compressor!NewCtx, CtxFields, Compressor!Null
<1>2. state_ = "IDLE" /\ rules = <<>> /\ Len(rules) = 0
  BY DEF Fresh
<1> QED
  BY <1>1, <1>2 DEF CtxTyped, StateRelies, SearchOrdered, Pointers, Fresh

LEMMA LaunchKeepsSearch ==
    ASSUME SearchInv, StoreInv', Launch PROVE SearchInv'
<1>1. Fresh /\ ctx' = ctx /\ state_' = state_ /\ pc' = "menu"
  BY DEF Launch, SearchInv, StateRelies
<1>2. /\ ctx.search = 0 /\ ctx.began = 0 /\ ctx.defRule = 0 /\ ctx.selected = 0
      /\ DOMAIN ctx = CtxFields
  BY <1>1 DEF Fresh, Compressor!NewCtx, CtxFields, Compressor!Null
<1>3. state_ = "IDLE" /\ Len(rules') \in Nat
  BY <1>1 DEF Fresh, StoreInv, StoreTyped
<1> QED
  BY <1>1, <1>2, <1>3 DEF SearchInv, CtxTyped, StateRelies, SearchOrdered, Pointers

LEMMA OffKeepsSearch ==
    ASSUME StoreInv', Off PROVE SearchInv'
<1>1. Fresh'
  BY DEF Off, Fresh
<1> QED
  BY <1>1, FreshIsOrdered, PTL DEF SearchInv

(* A rule is created at the menu: the machine is idle or has found no rule.*)
LEMMA CreatesKeepsSearch ==
    ASSUME SearchInv, StoreInv', Creates PROVE SearchInv'
<1>1. /\ pc = "create" /\ pc' \in {"menu", "create"}
      /\ state_' = state_ /\ state_ \in {"IDLE", "FIND_RULE"}
      /\ rules \in Seq(AllRules) /\ creating.rule \in AllRules
  BY DEF Creates, SearchInv, StateRelies, StoreInv, StoreTyped, AllRules,
         CreatingRecord
<1>2. rules' = rules \/ rules' = Append(rules, creating.rule)
  BY DEF Creates, Manager!CreateRule, Manager!WriteRule, Manager!ValidateRule,
         Manager!InsertRule, Manager!RefuseRule, Manager!RenameFile,
         Manager!RemoveFile, Manager!RenameAgain, Manager!DiscardFile
<1>3. /\ Len(rules) \in Nat /\ Len(rules') \in Nat /\ Len(rules) <= Len(rules')
      /\ \A j \in 1 .. Len(rules) : rules'[j] = rules[j]
  BY <1>1, <1>2
<1>4. /\ DOMAIN ctx' = CtxFields
      /\ ctx'.search = ctx.search /\ ctx'.began = ctx.began
      /\ ctx'.fields = ctx.fields /\ ctx'.arrived = ctx.arrived
      /\ ctx'.defRule \in {ctx.defRule, -1}
      /\ ctx'.selected \in {ctx.selected, -1}
  BY DEF Creates, AfterPush, Compressor!Dangling, SearchInv, CtxTyped, CtxFields
<1>5. CtxTyped'
  BY <1>3, <1>4 DEF SearchInv, CtxTyped, Pointers
<1>6. StateRelies'
  BY <1>1, <1>3, <1>4 DEF SearchInv, CtxTyped, StateRelies, Pointers
<1>7. ASSUME Passed(ctx.search) PROVE Passed(ctx.search)'
  <2>1. /\ ctx.search \in Int /\ ctx.began \in Nat
        /\ \A j \in ctx.began + 1 .. ctx.search : rules'[j] = rules[j]
    BY <1>3 DEF SearchInv, CtxTyped
  <2>2. \A j \in ctx'.began + 1 .. ctx.search : ~Fits(rules[j])'
    BY <1>4, <1>7, <2>1, PassedStays
  <2> QED
    BY <1>4, <2>2 DEF Passed
<1>8. SearchOrdered'
  BY <1>1, <1>7 DEF SearchInv, SearchOrdered
<1> QED
  BY <1>5, <1>6, <1>8 DEF SearchInv

(* The choices of the user and the packets leave the search alone.         *)
LEMMA ChoicesKeepSearch ==
    ASSUME SearchInv, StoreInv', ChoosesCreate \/ ChoosesCompress \/ ReadsPacket
    PROVE  SearchInv'
<1>1. rules' = rules /\ state_' = state_ /\ pc # "off" /\ pc' # "off"
  BY DEF ChoosesCreate, ChoosesCompress, ReadsPacket, Chooses, Manager!BeginRule,
         Compressor!PacketArrives
<1>2. /\ DOMAIN ctx' = CtxFields
      /\ ctx'.search = ctx.search /\ ctx'.began = ctx.began
      /\ ctx'.fields = ctx.fields /\ ctx'.defRule = ctx.defRule
      /\ ctx'.selected = ctx.selected /\ (ctx.arrived => ctx'.arrived)
  BY DEF ChoosesCreate, ChoosesCompress, ReadsPacket, Compressor!PacketArrives,
         SearchInv, CtxTyped, CtxFields
<1>3. pc' \in {"menu", "create"} => pc = "menu"
  BY DEF ChoosesCreate, ChoosesCompress, ReadsPacket, Chooses
<1>4. CtxTyped'
  BY <1>1, <1>2 DEF SearchInv, CtxTyped, Pointers
<1>5. StateRelies'
  BY <1>1, <1>2, <1>3 DEF SearchInv, StateRelies
<1>6. Len(rules) \in Nat
  BY DEF SearchInv, StoreInv, StoreTyped
<1>7. ASSUME NEW k \in Int, Passed(k) PROVE \A j \in ctx'.began + 1 .. k : ~Fits(rules[j])'
  BY <1>1, <1>2, <1>7, PassedStays DEF SearchInv, CtxTyped
<1>8. /\ ctx.search \in Int /\ ctx.selected - 1 \in Int /\ Len(rules) \in Int
  BY <1>6 DEF SearchInv, CtxTyped, Pointers
<1>9. /\ Passed(ctx.search) => Passed(ctx.search)'
      /\ Passed(ctx.selected - 1) => Passed(ctx.selected - 1)'
      /\ Passed(Len(rules)) => Passed(Len(rules))'
  BY <1>1, <1>2, <1>7, <1>8 DEF Passed
<1>10. SearchOrdered'
  BY <1>1, <1>9 DEF SearchInv, SearchOrdered
<1> QED
  BY <1>4, <1>5, <1>10 DEF SearchInv

(* The default rule that a search comes upon sends packets as they are.    *)
LEMMA DefaultSuits ==
    ASSUME SearchInv
    PROVE  /\ Compressor!DefaultFound \in Pointers
           /\ Compressor!DefaultFound > 0 =>
                rules[Compressor!DefaultFound].nature = "no-compression"
<1> DEFINE last == IF Compressor!Candidates = {} THEN Len(rules)
                   ELSE Compressor!First(Compressor!Candidates)
           seen == {k \in ctx.search + 1 .. last :
                      /\ rules[k].nature = "no-compression"
                      /\ rules[k].id = Compressor!default_ID}
<1>1. Len(rules) \in Nat /\ ctx.search \in 0 .. Len(rules)
  BY DEF SearchInv, StoreInv, StoreTyped, CtxTyped
<1>2. Compressor!Candidates \subseteq 1 .. Len(rules)
  BY <1>1 DEF Compressor!Candidates
<1>3. last \in 0 .. Len(rules)
  <2>1. CASE Compressor!Candidates = {}
    BY <1>1, <2>1
  <2>2. CASE Compressor!Candidates # {}
    <3>1. Compressor!Candidates \in SUBSET Nat
      BY <1>1, <1>2
    <3>2. Compressor!First(Compressor!Candidates) \in Compressor!Candidates
      BY <2>2, <3>1, FirstIsLeast
    <3>3. last = Compressor!First(Compressor!Candidates)
      BY <2>2
    <3>4. last \in Compressor!Candidates
      BY <3>2, <3>3, Zenon
    <3> HIDE DEF last
    <3>5. last \in 1 .. Len(rules)
      BY <1>2, <3>4
    <3> QED
      BY <1>1, <3>5
  <2> QED
    BY <2>1, <2>2
<1>4. Compressor!DefaultFound =
        IF ctx.defRule # 0 \/ seen = {} THEN ctx.defRule ELSE Compressor!First(seen)
  BY Zenon DEF Compressor!DefaultFound, Compressor!Null
<1> HIDE DEF last
<1>5. seen \subseteq 1 .. Len(rules)
  BY <1>1, <1>3
<1>6. CASE ctx.defRule # 0 \/ seen = {}
  <2>1. Compressor!DefaultFound = ctx.defRule
    BY <1>6, <1>4
  <2> QED
    BY <2>1 DEF SearchInv, CtxTyped, StateRelies
<1>7. CASE ctx.defRule = 0 /\ seen # {}
  <2>1. Compressor!DefaultFound = Compressor!First(seen)
    BY <1>7, <1>4
  <2>2. Compressor!First(seen) \in seen
    <3>1. seen \in SUBSET Nat
      BY <1>1, <1>5
    <3> HIDE DEF seen
    <3> QED
      BY <1>7, <3>1, FirstIsLeast
  <2> QED
    BY <1>1, <1>5, <2>1, <2>2 DEF Pointers
<1> QED
  BY <1>6, <1>7

(* What is no candidate does not fit.                                      *)
LEMMA OnlyCandidatesFit ==
    ASSUME SearchInv, NEW j \in ctx.search + 1 .. Len(rules),
           j \notin Compressor!Candidates
    PROVE  ~Fits(rules[j])
BY DEF Fits, Compressor!Candidates, Compressor!EntriesOf

LEMMA StepsKeepSearch ==
    ASSUME SearchInv, StoreInv', Steps PROVE SearchInv'
<1>1. /\ pc = "run" /\ pc' \in {"run", "menu"}
      /\ rules' = rules /\ Len(rules) \in Nat
  BY CompressorKeepsRules DEF Steps, SearchInv, StoreInv, StoreTyped
<1>2. /\ DOMAIN ctx = CtxFields /\ ctx.search \in 0 .. Len(rules)
      /\ ctx.began \in Nat
      /\ ctx.defRule \in Pointers /\ ctx.selected \in Pointers
  BY DEF SearchInv, CtxTyped
<1>3. ASSUME NEW k \in Int, Passed(k), ctx'.fields = ctx.fields,
             ctx'.began = ctx.began
      PROVE  \A j \in ctx'.began + 1 .. k : ~Fits(rules[j])'
  BY <1>1, <1>2, <1>3, PassedStays
<1> USE DEF Compressor!Enter
<1>4. ASSUME Compressor!StepPasses, pc' = IF ctx'.arrived THEN "run" ELSE "menu"
      PROVE  SearchInv'
  <2>1. CASE Compressor!st_idle
    <3>1. state_ = "IDLE" /\ state_' = "PARSE" /\ ctx' = ctx /\ ctx.arrived
      BY <2>1 DEF Compressor!st_idle
    <3>2. pc' = "run"
      BY <1>4, <3>1
    <3>3. CtxTyped' /\ StateRelies' /\ SearchOrdered'
      BY <1>1, <1>2, <3>1, <3>2
      DEF SearchInv, CtxTyped, StateRelies, SearchOrdered, Pointers
    <3> QED
      BY <3>3 DEF SearchInv
  <2>2. CASE Compressor!st_parse
    <3>1. /\ state_ = "PARSE" /\ state_' = "FIND_RULE"
          /\ ctx' = [ctx EXCEPT !.fields = Compressor!parse_ipv6_udp_fields(ctx.raw),
                                !.began = ctx.search]
      BY <2>2 DEF Compressor!st_parse
    <3>2. /\ DOMAIN ctx' = CtxFields /\ ctx'.search = ctx.search
          /\ ctx'.began = ctx.search /\ ctx'.defRule = ctx.defRule
          /\ ctx'.selected = ctx.selected /\ ctx'.arrived = ctx.arrived
      BY <1>2, <3>1 DEF CtxFields
    <3>3. ctx.arrived /\ pc' = "run"
      BY <1>4, <3>1, <3>2 DEF SearchInv, StateRelies
    <3>4. CtxTyped' /\ StateRelies'
      BY <1>1, <1>2, <3>1, <3>2, <3>3
      DEF SearchInv, CtxTyped, StateRelies, Pointers
    <3>5. SearchOrdered'
      BY <1>2, <3>1, <3>2 DEF SearchOrdered, Passed
    <3> QED
      BY <3>4, <3>5 DEF SearchInv
  <2>3. CASE Compressor!st_find_rule
    <3> DEFINE k == Compressor!First(Compressor!Candidates)
    <3>1. /\ state_ = "FIND_RULE" /\ state_' = "MO"
          /\ Compressor!Candidates # {}
          /\ ctx' = [ctx EXCEPT !.defRule = Compressor!DefaultFound,
                                !.selected = k, !.search = k]
      BY <2>3 DEF Compressor!st_find_rule, Compressor!Behind
    <3>2. /\ DOMAIN ctx' = CtxFields /\ ctx'.search = k /\ ctx'.selected = k
          /\ ctx'.defRule = Compressor!DefaultFound /\ ctx'.began = ctx.began
          /\ ctx'.fields = ctx.fields /\ ctx'.arrived = ctx.arrived
      BY <1>2, <3>1 DEF CtxFields
    <3>3. Compressor!Candidates \in SUBSET Nat
      BY <1>1, <1>2 DEF Compressor!Candidates
    <3>4. /\ k \in Compressor!Candidates
          /\ \A j \in Compressor!Candidates : k <= j
      BY <3>1, <3>3, FirstIsLeast
    <3>5. /\ k \in ctx.search + 1 .. Len(rules)
          /\ rules[k].nature = "compression"
      BY <3>4 DEF Compressor!Candidates
    <3>6. ctx.arrived /\ pc' = "run"
      BY <1>4, <3>1, <3>2 DEF SearchInv, StateRelies
    <3>7. CtxTyped'
      BY <1>1, <1>2, <3>2, <3>5, DefaultSuits DEF CtxTyped, Pointers
    <3>8. StateRelies'
      BY <1>1, <1>2, <3>1, <3>2, <3>5, <3>6, DefaultSuits DEF StateRelies
    <3>9. Passed(k - 1)
      <4> SUFFICES ASSUME NEW j \in ctx.began + 1 .. k - 1 PROVE ~Fits(rules[j])
        BY DEF Passed
      <4>1. CASE j <= ctx.search
        <5>1. Passed(ctx.search)
          BY <3>1 DEF SearchInv, SearchOrdered
        <5> QED
          BY <1>2, <3>5, <4>1, <5>1 DEF Passed
      <4>2. CASE j > ctx.search
        <5>1. j \in ctx.search + 1 .. Len(rules) /\ ~(k <= j)
          BY <1>1, <1>2, <3>5, <4>2
        <5> QED
          BY <3>4, <5>1, OnlyCandidatesFit
      <4> QED
        BY <1>2, <3>5, <4>1, <4>2
    <3>10. SearchOrdered'
      <4>1. \A j \in ctx'.began + 1 .. k - 1 : ~Fits(rules[j])'
        BY <1>2, <1>3, <3>2, <3>5, <3>9
      <4> QED
        BY <3>1, <3>2, <4>1 DEF SearchOrdered, Passed
    <3> QED
      BY <3>7, <3>8, <3>10 DEF SearchInv
  <2>4. CASE Compressor!FindDefaultRule
    <3>1. /\ state_ = "FIND_RULE" /\ state_' = "NOCOMPRESS"
          /\ Compressor!Candidates = {}
          /\ ctx' = [ctx EXCEPT !.defRule = Compressor!DefaultFound,
                                !.selected = Compressor!DefaultFound]
      BY <2>4 DEF Compressor!FindDefaultRule
    <3>2. /\ DOMAIN ctx' = CtxFields /\ ctx'.search = ctx.search
          /\ ctx'.defRule = Compressor!DefaultFound /\ ctx'.began = ctx.began
          /\ ctx'.selected = Compressor!DefaultFound
          /\ ctx'.fields = ctx.fields /\ ctx'.arrived = ctx.arrived
      BY <1>2, <3>1 DEF CtxFields
    <3>3. ctx.arrived /\ pc' = "run"
      BY <1>4, <3>1, <3>2 DEF SearchInv, StateRelies
    <3>4. CtxTyped'
      BY <1>1, <1>2, <3>2, DefaultSuits DEF CtxTyped, Pointers
    <3>5. StateRelies'
      BY <1>1, <3>1, <3>2, <3>3, DefaultSuits DEF StateRelies
    <3>6. Passed(Len(rules))
      <4> SUFFICES ASSUME NEW j \in ctx.began + 1 .. Len(rules) PROVE ~Fits(rules[j])
        BY DEF Passed
      <4>1. CASE j <= ctx.search
        <5>1. Passed(ctx.search)
          BY <3>1 DEF SearchInv, SearchOrdered
        <5> QED
          BY <1>2, <4>1, <5>1 DEF Passed
      <4>2. CASE j > ctx.search
        <5>1. j \in ctx.search + 1 .. Len(rules)
          BY <1>1, <1>2, <4>2
        <5> QED
          BY <3>1, <5>1, OnlyCandidatesFit
      <4> QED
        BY <1>1, <1>2, <4>1, <4>2
    <3>7. SearchOrdered'
      <4>1. \A j \in ctx'.began + 1 .. Len(rules) : ~Fits(rules[j])'
        BY <1>1, <1>3, <3>2, <3>6
      <4> QED
        BY <1>1, <3>1, <3>2, <4>1 DEF SearchOrdered, Passed
    <3> QED
      BY <3>4, <3>5, <3>7 DEF SearchInv
  <2>5. CASE Compressor!st_mo
    <3>1. /\ state_ = "MO" /\ state_' = "CDA"
          /\ \E pushed : ctx' = [ctx EXCEPT !.indexMM = pushed]
      BY <2>5 DEF Compressor!st_mo
    <3>2. /\ DOMAIN ctx' = CtxFields /\ ctx'.search = ctx.search
          /\ ctx'.defRule = ctx.defRule /\ ctx'.began = ctx.began
          /\ ctx'.selected = ctx.selected
          /\ ctx'.fields = ctx.fields /\ ctx'.arrived = ctx.arrived
      BY <1>2, <3>1 DEF CtxFields
    <3>3. ctx.arrived /\ pc' = "run"
      BY <1>4, <3>1, <3>2 DEF SearchInv, StateRelies
    <3>4. CtxTyped' /\ StateRelies'
      BY <1>1, <1>2, <3>1, <3>2, <3>3
      DEF SearchInv, CtxTyped, StateRelies, Pointers
    <3>5. SearchOrdered'
      <4>1. Passed(ctx.selected - 1) /\ ctx.selected - 1 \in Int
        BY <1>1, <1>2, <3>1 DEF SearchInv, SearchOrdered, Pointers
      <4>2. \A j \in ctx'.began + 1 .. ctx.selected - 1 : ~Fits(rules[j])'
        BY <1>3, <3>2, <4>1
      <4> QED
        BY <3>1, <3>2, <4>2 DEF SearchOrdered, Passed
    <3> QED
      BY <3>4, <3>5 DEF SearchInv
  <2>6. CASE Compressor!MoRejects
    <3>1. /\ state_ = "MO" /\ state_' = "FIND_RULE"
          /\ Compressor!Mismatches # {}
          /\ \E pushed : ctx' = [ctx EXCEPT !.indexMM = pushed, !.selected = 0]
      BY <2>6 DEF Compressor!MoRejects, Compressor!Null
    <3>2. /\ DOMAIN ctx' = CtxFields /\ ctx'.search = ctx.search
          /\ ctx'.defRule = ctx.defRule /\ ctx'.began = ctx.began
          /\ ctx'.selected = 0
          /\ ctx'.fields = ctx.fields /\ ctx'.arrived = ctx.arrived
      BY <1>2, <3>1 DEF CtxFields
    <3>3. ctx.arrived /\ pc' = "run"
      BY <1>4, <3>1, <3>2 DEF SearchInv, StateRelies
    <3>4. CtxTyped' /\ StateRelies'
      BY <1>1, <1>2, <3>1, <3>2, <3>3
      DEF SearchInv, CtxTyped, StateRelies, Pointers
    <3>5. ctx.selected = ctx.search /\ ~Fits(rules[ctx.search])
      <4>1. ctx.selected = ctx.search
        BY <3>1 DEF SearchInv, StateRelies
      <4> QED
        BY <3>1, <4>1 DEF Fits, Compressor!Mismatches, Compressor!Selected
    <3>6. Passed(ctx.search)
      <4>1. Passed(ctx.search - 1)
        BY <3>1, <3>5 DEF SearchInv, SearchOrdered
      <4> QED
        BY <1>2, <3>5, <4>1 DEF Passed
    <3>7. SearchOrdered'
      <4>1. \A j \in ctx'.began + 1 .. ctx.search : ~Fits(rules[j])'
        BY <1>2, <1>3, <3>2, <3>6
      <4> QED
        BY <3>1, <3>2, <4>1 DEF SearchOrdered, Passed
    <3> QED
      BY <3>4, <3>7 DEF SearchInv
  <2>7. CASE Compressor!st_cda
    <3>1. /\ state_ = "CDA" /\ state_' = "GEN"
          /\ \E residue : ctx' = [ctx EXCEPT !.residue = residue]
      BY <2>7 DEF Compressor!st_cda
    <3>2. /\ DOMAIN ctx' = CtxFields /\ ctx'.search = ctx.search
          /\ ctx'.defRule = ctx.defRule /\ ctx'.began = ctx.began
          /\ ctx'.selected = ctx.selected /\ ctx'.arrived = ctx.arrived
      BY <1>2, <3>1 DEF CtxFields
    <3>3. ctx.arrived /\ pc' = "run"
      BY <1>4, <3>1, <3>2 DEF SearchInv, StateRelies
    <3>4. CtxTyped' /\ StateRelies' /\ SearchOrdered'
      BY <1>1, <1>2, <3>1, <3>2, <3>3
      DEF SearchInv, CtxTyped, StateRelies, SearchOrdered, Pointers
    <3> QED
      BY <3>4 DEF SearchInv
  <2>8. CASE Compressor!st_gen \/ Compressor!st_nocompress
    <3>1. state_' = "IDLE"
      BY <2>8 DEF Compressor!st_gen, Compressor!st_nocompress
    <3>2. /\ DOMAIN ctx' = CtxFields /\ ctx'.search = ctx.search
          /\ ctx'.defRule = ctx.defRule /\ ctx'.began = ctx.began
          /\ ctx'.selected = ctx.selected
      <4>1. CASE Compressor!st_gen
        <5>1. \E out : ctx' = [ctx EXCEPT !.out = out, !.arrived = FALSE]
          BY <4>1 DEF Compressor!st_gen
        <5> QED
          BY <1>2, <5>1 DEF CtxFields
      <4>2. CASE Compressor!st_nocompress
        <5> DEFINE whole == Compressor!WholePacket(ctx.raw)
        <5>1. \E id : ctx' = [ctx EXCEPT !.residue = whole, !.arrived = FALSE,
                                        !.out = [rule |-> id, residue |-> whole]]
          BY <4>2 DEF Compressor!st_nocompress
        <5> HIDE DEF whole
        <5> QED
          BY <1>2, <5>1 DEF CtxFields
      <4> QED
        BY <2>8, <4>1, <4>2
    <3>3. CtxTyped' /\ StateRelies' /\ SearchOrdered'
      BY <1>1, <1>2, <3>1, <3>2
      DEF SearchInv, CtxTyped, StateRelies, SearchOrdered, Pointers
    <3> QED
      BY <3>3 DEF SearchInv
  <2> QED
    BY <1>4, <2>1, <2>2, <2>3, <2>4, <2>5, <2>6, <2>7, <2>8
    DEF Compressor!StepPasses
<1>5. ASSUME Compressor!FindNoRule PROVE SearchInv'
  <2>1. /\ state_ = "FIND_RULE" /\ state_' = "FIND_RULE"
        /\ ctx' = [ctx EXCEPT !.selected = 0]
    BY <1>5 DEF Compressor!FindNoRule, Compressor!Null
  <2>2. /\ DOMAIN ctx' = CtxFields /\ ctx'.search = ctx.search
        /\ ctx'.defRule = ctx.defRule /\ ctx'.began = ctx.began
        /\ ctx'.selected = 0
        /\ ctx'.fields = ctx.fields /\ ctx'.arrived = ctx.arrived
    BY <1>2, <2>1 DEF CtxFields
  <2>3. CtxTyped' /\ StateRelies'
    BY <1>1, <1>2, <2>1, <2>2 DEF SearchInv, CtxTyped, StateRelies, Pointers
  <2>4. SearchOrdered'
    <3>1. Passed(ctx.search)
      BY <2>1 DEF SearchInv, SearchOrdered
    <3>2. \A j \in ctx'.began + 1 .. ctx.search : ~Fits(rules[j])'
      BY <1>2, <1>3, <2>2, <3>1
    <3> QED
      BY <2>1, <2>2, <3>2 DEF SearchOrdered, Passed
  <2> QED
    BY <2>3, <2>4 DEF SearchInv
<1> QED
  BY <1>4, <1>5 DEF Steps

LEMMA SearchInitially == Init => SearchInv
<1> SUFFICES ASSUME Init PROVE SearchInv
  OBVIOUS
<1>1. Fresh
  BY DEF Init, Compressor!CompInit, Fresh
<1> QED
  BY <1>1, StoreInitially, FreshIsOrdered DEF SearchInv

LEMMA SearchStep == SearchInv /\ [Next]_vars => SearchInv'
<1> SUFFICES ASSUME SearchInv, [Next]_vars PROVE SearchInv'
  OBVIOUS
<1>1. StoreInv'
  BY StoreStep DEF SearchInv
<1>2. CASE Launch
  BY <1>1, <1>2, LaunchKeepsSearch
<1>3. CASE Ends \/ Crashes
  BY <1>1, <1>3, OffKeepsSearch DEF Ends, Crashes
<1>4. CASE Creates
  BY <1>1, <1>4, CreatesKeepsSearch
<1>5. CASE ChoosesCreate \/ ChoosesCompress \/ ReadsPacket
  BY <1>1, <1>5, ChoicesKeepSearch
<1>6. CASE Steps
  BY <1>1, <1>6, StepsKeepSearch
<1>7. CASE UNCHANGED vars
  <2>1. /\ ctx' = ctx /\ rules' = rules /\ state_' = state_ /\ pc' = pc
    BY <1>7 DEF vars
  <2>2. CtxTyped' /\ StateRelies'
    BY <2>1 DEF SearchInv, CtxTyped, StateRelies, Pointers, Fresh
  <2>3. /\ ctx.search \in Int /\ ctx.selected - 1 \in Int /\ Len(rules) \in Int
        /\ ctx.began \in Nat
    BY DEF SearchInv, CtxTyped, Pointers, StoreInv, StoreTyped
  <2>4. ASSUME NEW k \in Int, Passed(k)
        PROVE  \A j \in ctx'.began + 1 .. k : ~Fits(rules[j])'
    BY <2>1, <2>3, <2>4, PassedStays
  <2>5. /\ Passed(ctx.search) => Passed(ctx.search)'
        /\ Passed(ctx.selected - 1) => Passed(ctx.selected - 1)'
        /\ Passed(Len(rules)) => Passed(Len(rules))'
    BY <2>1, <2>3, <2>4 DEF Passed
  <2>6. SearchOrdered'
    BY <2>1, <2>5 DEF SearchInv, SearchOrdered
  <2> QED
    BY <1>1, <2>2, <2>6 DEF SearchInv
<1> QED
  BY <1>2, <1>3, <1>4, <1>5, <1>6, <1>7 DEF Next

LEMMA SearchInvariance == Spec => []SearchInv
BY SearchInitially, SearchStep, PTL DEF Spec

(* The types, and what each state of CompressorFSM relies on: st_cda() has *)
(* a rule of compression, and st_nocompress() the default one.             *)
THEOREM TypeCorrect == Spec => []TypeOK
<1>1. ASSUME SearchInv PROVE TypeOK
  <2>1. /\ pc \in {"off", "menu", "create", "read", "run"}
        /\ (pc = "create") <=> (creating.pc # "no")
    <3>1. StoreTyped
      BY <1>1 DEF SearchInv, StoreInv
    <3>2. CASE pc = "create"
      <4>1. creating \in CreatingRecord
        BY <3>1, <3>2 DEF StoreTyped
      <4>2. creating.pc # "no"
        BY <4>1 DEF Places, CreatingRecord
      <4> QED
        BY <3>1, <3>2, <4>2 DEF StoreTyped
    <3>3. CASE pc # "create"
      BY <3>1, <3>3 DEF StoreTyped, Manager!NotCreating
    <3> QED
      BY <3>2, <3>3
  <2>2. CtxTyped /\ StateRelies
    BY <1>1 DEF SearchInv
  <2>3. /\ ctx.search \in 0 .. Len(rules)
        /\ ctx.defRule \in -1 .. Len(rules) /\ ctx.selected \in -1 .. Len(rules)
    BY <2>2, Zenon DEF CtxTyped, Pointers
  <2>4. /\ ctx.defRule > 0 => rules[ctx.defRule].nature = "no-compression"
        /\ state_ \in {"MO", "CDA", "GEN"} =>
             rules[ctx.selected].nature = "compression"
        /\ state_ = "NOCOMPRESS" => ctx.selected = ctx.defRule
        /\ state_ # "IDLE" => ctx.arrived
        /\ pc \in {"menu", "create"} => state_ \in {"IDLE", "FIND_RULE"}
    BY <2>2 DEF StateRelies
  <2> QED
    BY <2>1, <2>3, <2>4, Zenon DEF TypeOK
<1> QED
  BY <1>1, SearchInvariance, PTL

(* A packet is compressed with the first rule that fits it behind where    *)
(* its search began, and left as it is only if none does: st_find_rule()   *)
(* and st_mo(), with all the rules that users may enter between two        *)
(* searches.                                                               *)
THEOREM FirstFitChosen == Spec => []FirstFit
<1>1. ASSUME SearchInv PROVE FirstFit
  <2>1. CASE state_ = "CDA"
    BY <1>1, <2>1 DEF SearchInv, SearchOrdered, Passed, FirstFit
  <2>2. CASE state_ = "NOCOMPRESS"
    BY <1>1, <2>2 DEF SearchInv, SearchOrdered, Passed, FirstFit
  <2> QED
    BY <2>1, <2>2 DEF FirstFit
<1> QED
  BY <1>1, SearchInvariance, PTL

===============================================================================
