-------------------------- MODULE CompressionTest --------------------------
(***************************************************************************)
(* The compression program (Test/main.cpp): a menu from which a user       *)
(* creates rules and has packets compressed, with the rules and the FSM_Ctx*)
(* that both use.  It can end at any step and be started again.            *)
(***************************************************************************)
EXTENDS Integers, Sequences, SequencesExt

CONSTANTS
    NewRules, InitialFiles,   \* see RuleManager
    Packets,                  \* the packets a user may choose
    MaxChoices, MaxLaunches   \* bounds: menu choices, starts of the program

VARIABLES rules, ctx, state_, disk, creating, pc, budget

vars == <<rules, ctx, state_, disk, creating, pc, budget>>

Compressor == INSTANCE SCHCCompressor
Manager == INSTANCE RuleManager

(* What the YANG model says of the entries of a rule, and the wire of the  *)
(* fields of a packet: numbers and bits.                                   *)
Binary == Seq({0, 1})
RuleTyped(rule) ==
    /\ rule.entries \in Seq(ToSet(rule.entries))
    /\ \A e \in ToSet(rule.entries) : e.msb \in Nat /\ e.tv \in Seq(Binary)
PacketTyped(packet) ==
    \A fid \in ToSet(Compressor!FieldsOf(packet)) :
      Compressor!FieldBits(packet, fid) \in Binary

ASSUME CompressionAssumption ==
    /\ \A list \in InitialFiles : list \in Seq(ToSet(list))
    /\ \A rule \in NewRules \cup UNION {ToSet(list) : list \in InitialFiles} :
         RuleTyped(rule)
    /\ \A packet \in Packets : PacketTyped(packet)
    /\ {MaxChoices, MaxLaunches} \subseteq Nat

Init ==
    /\ Compressor!CompInit
    /\ Manager!DiskInit
    /\ creating = Manager!NotCreating
    /\ rules = <<>>
    /\ pc = "off"
    /\ budget = [choices |-> MaxChoices, launches |-> MaxLaunches]

(* main() returns at once without a file of rules.                         *)
Launch ==
    /\ pc = "off"
    /\ budget.launches > 0
    /\ disk.file.exists
    /\ rules' = disk.file.rules
    /\ pc' = "menu"
    /\ budget' = [budget EXCEPT !.launches = @ - 1]
    /\ disk' = [disk EXCEPT !.from = 0]
    /\ UNCHANGED <<ctx, state_, creating>>

(* The process is gone, and the files stay.                                *)
Off ==
    /\ pc' = "off"
    /\ rules' = <<>>
    /\ ctx' = Compressor!NewCtx
    /\ state_' = "IDLE"
    /\ creating' = Manager!NotCreating
    /\ UNCHANGED <<disk, budget>>

(* "Close program", a signal, or an entry that create_rule() cannot read:  *)
(* it throws, and no handler is there.                                     *)
Ends == pc # "off" /\ Off

Chooses ==
    /\ pc = "menu"
    /\ budget.choices > 0
    /\ budget' = [budget EXCEPT !.choices = @ - 1]

ChoosesCreate ==
    /\ Chooses
    /\ Manager!BeginRule
    /\ pc' = "create"
    /\ UNCHANGED <<ctx, state_>>

(* Putting a rule into a full vector moves it, and what points into it is  *)
(* left behind.                                                            *)
AfterPush(pointer) ==
    IF pointer # Compressor!Null /\ Manager!Reallocates(Len(rules))
    THEN Compressor!Dangling ELSE pointer

Creates ==
    /\ pc = "create"
    /\ Manager!CreateRule
    /\ pc' = IF creating'.pc = "no" THEN "menu" ELSE "create"
    /\ ctx' = IF rules' = rules THEN ctx
              ELSE [ctx EXCEPT !.defRule = AfterPush(@), !.selected = AfterPush(@)]
    /\ UNCHANGED <<state_, budget>>

(* A packet that is still there after an error is not asked for again.     *)
ChoosesCompress ==
    /\ Chooses
    /\ pc' = IF ctx.arrived THEN "run" ELSE "read"
    /\ UNCHANGED <<rules, ctx, state_, disk, creating>>

ReadsPacket ==
    /\ pc = "read"
    /\ \E p \in Packets : Compressor!PacketArrives(p)
    /\ pc' = "run"
    /\ UNCHANGED <<disk, creating, budget>>

(* The loop around stepFSM().                                              *)
Steps ==
    /\ pc = "run"
    /\ \/ Compressor!StepPasses /\ pc' = IF ctx'.arrived THEN "run" ELSE "menu"
       \/ Compressor!FindNoRule /\ pc' = "menu"
    /\ UNCHANGED <<disk, creating, budget>>

Crashes == pc = "run" /\ Compressor!StepThrows /\ Off

Next ==
    \/ Launch \/ Ends \/ ChoosesCreate \/ Creates \/ ChoosesCompress
    \/ ReadsPacket \/ Steps \/ Crashes

Spec == Init /\ [][Next]_vars /\ WF_vars(Steps \/ Crashes)

-----------------------------------------------------------------------------
(* Types, and what each state of the machine relies on: a rule of          *)
(* compression while it compresses and one of no compression otherwise.    *)
TypeOK ==
    /\ pc \in {"off", "menu", "create", "read", "run"}
    /\ (pc = "create") <=> (creating.pc # "no")
    /\ ctx.search \in 0 .. Len(rules)
    /\ {ctx.defRule, ctx.selected} \subseteq -1 .. Len(rules)
    /\ ctx.defRule > 0 => rules[ctx.defRule].nature = "no-compression"
    /\ state_ \in {"MO", "CDA", "GEN"} => rules[ctx.selected].nature = "compression"
    /\ state_ = "NOCOMPRESS" => ctx.selected = ctx.defRule
    /\ state_ # "IDLE" => ctx.arrived
    /\ pc \in {"menu", "create"} => state_ \in {"IDLE", "FIND_RULE"}

(* The rule that a packet is compressed with is the first that fits it,    *)
(* and it is left uncompressed only if none does: of those behind the last *)
(* rule that an earlier packet tried, where the search begins              *)
(* (SCHC_Compressor.cpp:204).                                              *)
Fits(rule) ==
    /\ rule.nature = "compression"
    /\ Compressor!HasFields(rule.entries)
    /\ \A i \in DOMAIN rule.entries : Compressor!Matches(rule.entries[i])

FirstFit ==
    state_ \in {"CDA", "NOCOMPRESS"} =>
      LET end == IF state_ = "CDA" THEN ctx.selected - 1 ELSE Len(rules)
      IN  \A k \in ctx.began + 1 .. end : ~Fits(rules[k])

(* A reference for the residue: what the i-th entry and its bits say of    *)
(* the field, in a rule whose actions go with its operators.               *)
WholeBytes(entry) == Compressor!FieldOf(entry.fid).bit_length % 8 = 0

Sound(entry) ==
    \/ entry.mo = "equal" /\ entry.cda = "not-sent"
    \/ entry.mo = "match-mapping" /\ entry.cda = "mapping-sent" /\ Len(entry.tv) <= 128
    \/ entry.mo # "match-mapping" /\ entry.cda = "compute"
    \/ entry.mo # "match-mapping" /\ entry.cda = "value-sent" /\ WholeBytes(entry)
    \/ /\ entry.mo = "msb" /\ entry.cda = "lsb" /\ WholeBytes(entry)
       /\ Compressor!FieldOf(entry.fid).bit_length - entry.msb \in 0 .. 16

SentLength(entry) ==
    LET width == Compressor!FieldOf(entry.fid).bit_length
    IN  CASE entry.cda = "value-sent" -> width
          [] entry.cda = "lsb" -> width - entry.msb
          [] entry.cda = "mapping-sent" ->
               CHOOSE b \in 1 .. 7 : 2^b >= Len(entry.tv) /\ (b = 1 \/ 2^(b - 1) < Len(entry.tv))
          [] OTHER -> 0

Number(bits) ==
    LET n[i \in 0 .. Len(bits)] == IF i = 0 THEN 0 ELSE 2 * n[i - 1] + bits[i]
    IN  n[Len(bits)]

(* Where the bits of each entry end in the residue.                        *)
SentEnds(entries) ==
    LET end[i \in 0 .. Len(entries)] ==
          IF i = 0 THEN 0 ELSE end[i - 1] + SentLength(entries[i])
    IN  end

Restored(entries, i) ==
    LET bits == SubSeq(ctx.residue, SentEnds(entries)[i - 1] + 1, SentEnds(entries)[i])
    IN  CASE entries[i].cda = "not-sent" -> entries[i].tv[1]
          [] entries[i].cda = "value-sent" -> bits
          [] entries[i].cda = "mapping-sent" -> entries[i].tv[Number(bits) + 1]
          [] entries[i].cda = "lsb" -> SubSeq(entries[i].tv[1], 1, entries[i].msb) \o bits

(* The residue of a packet, with the rule, gives back every field that the *)
(* rule sends or knows: the indexes that st_mo() collects over several     *)
(* rules are the ones that st_cda() sends.  Of Sound rules only: fields    *)
(* that are sent are whole bytes, of a field at most its last 16 bits, and *)
(* match-mapping goes with mapping-sent; for others the code sends less.   *)
ResidueRestores ==
    state_ = "GEN" =>
      LET entries == rules[ctx.selected].entries
      IN  (\A i \in DOMAIN entries : Sound(entries[i])) =>
            \A i \in DOMAIN entries :
              entries[i].cda # "compute" =>
                Restored(entries, i) = Compressor!FieldOf(entries[i].fid).value

(* At the menu the file holds the rules in memory, in their order, from    *)
(* the first on, or from the last one whose creation could not read the    *)
(* file and reported success (SCHC_RulesManager.cpp:186); unless the       *)
(* program has said that it could not replace the file.                    *)
FileMatchesMemory ==
    pc = "menu" /\ ~disk.replaceFailed =>
      disk.file = Manager!File(SubSeq(rules, disk.from + 1, Len(rules)))

(* Whenever the program ends, every rule that was loaded or reported as    *)
(* saved, since a creation last replaced the file without having read it,  *)
(* is in one of the two files, with the same exception.                    *)
RulesKept ==
    ~disk.replaceFailed =>
      \/ disk.saved \subseteq ToSet(disk.file.rules)
      \/ ~disk.file.exists /\ disk.saved \subseteq ToSet(disk.tmp.rules)

(* The calls of stepFSM() for a packet come back to the menu or end the    *)
(* program: the search for a rule goes forward through MO and FIND_RULE.   *)
(* Asking for the packet (main.cpp:141-161) is not part of it: the user    *)
(* may never give one, and at the end of the input it asks for ever.       *)
StartReturns == (pc = "run") ~> (pc # "run")

=============================================================================
