----------------------------- MODULE PresetStore -----------------------------
(***************************************************************************)
(* The presets on their way to the charger and back: setters change the    *)
(* objects that read_presets made (module Presets), write_presets puts all *)
(* of them into one image, with a checksum in every preset and one after   *)
(* every block of presets, and read_presets makes new objects of an image  *)
(* whose block checksums are right.  In between the charger's memory may   *)
(* have been erased, or a word of it may have gone bad.                    *)
(*                                                                         *)
(* An image is a function from its words' places.  The CRC around it and   *)
(* the swapped bytes of its words belong to the transport and are left     *)
(* out, as are the erasing command and its failures (module Emulator).     *)
(***************************************************************************)
EXTENDS Presets

CONSTANTS
  PerBlock,    \* presets between two checksums of the image; 5
  Blocks,      \* bound: blocks of an image; 15
  Touched,     \* bound: the presets that are changed
  Inputs,      \* the pairs of a field and a value that setters are called with
  NewValues,   \* the values _update_presets computes: sequences of such pairs
  Harmed,      \* bound: the words of an image that may go bad
  MaxChanges   \* bound: changes of presets

PresetNums == 0..(PerBlock * Blocks - 1)
BlockWords == 51 * PerBlock + 1
Places == 0..(BlockWords * Blocks - 1)

ASSUME StoreAssumption ==
  /\ PerBlock \in Nat \ {0} /\ Blocks \in Nat \ {0} /\ MaxChanges \in Nat
  /\ Touched \subseteq PresetNums /\ Harmed \subseteq Places
  /\ Inputs \subseteq Fields \X Int
  /\ \A i \in Inputs : ~Undecided(i[1], i[2])
  /\ \A new \in NewValues : new \in Seq((Fields \ {"max_charge_amps"}) \X Int)
  /\ \A new \in NewValues : \A k \in DOMAIN new :
       /\ ~Undecided(new[k][1], new[k][2])
       /\ \A j \in DOMAIN new : new[j][1] = new[k][1] => j = k

VARIABLES
  presets,   \* _presets: the words of each preset
  flash,     \* the image the charger holds
  damaged,   \* a record of the world: flash is not what was last written
  last,      \* a record of the last call: what it was asked, and if it raised
  changes    \* bound: changes made

vars == <<presets, flash, damaged, last, changes>>

-----------------------------------------------------------------------------
(* util.checksum: add a word, rotate 16 bits to the left by 2, and so on   *)
(* with the next.  A run is the loop over the words from one to another,   *)
(* and what it begins with; it is split in halves, the second of which     *)
(* goes on from the result of the first.                                   *)
RotateLeft2(word) == (word % 2 ^ 14) * 4 + (word \div 2 ^ 14)

Runs(words) ==
  {run \in (1..Len(words)) \X (1..Len(words)) \X Word : run[1] <= run[2]}

Checksum(words, init) ==
  LET loop[run \in Runs(words)] ==
        LET first == run[1]
            final == run[2]
            mid   == (first + final) \div 2 IN
        IF first = final THEN RotateLeft2((run[3] + words[first]) % 2 ^ 16)
        ELSE loop[<<mid + 1, final, loop[<<first, mid, run[3]>>]>>]
  IN  loop[<<1, Len(words), init>>]

(* A preset's checksum is over the words before it.                        *)
PresetSumOfAll(data) == Checksum([i \in 1..51 |-> data[2 * (i - 1)]], 45)
PresetSum(data) == Checksum([i \in 1..50 |-> data[2 * (i - 1)]], 45)

(* is_empty: nothing is set, but for the byte of is_hide_empty.            *)
IsEmpty(data) ==
  \A i \in Offsets \ {CHECKSUM} : data[i] = 0 \/ (i = 94 /\ data[i] % 256 = 0)

(* is_validated and raw_bytes.                                             *)
Prepared(data) ==
  LET d == SetField(data, "is_validated", IF IsEmpty(data) THEN 0 ELSE 1)
  IN  [d EXCEPT ![CHECKSUM] = PresetSum(d)]

(* _prestart_offset, in words.                                             *)
PlaceOf(num) == 51 * num + num \div PerBlock

(* The place of a block's checksum, and the checksum of the words before   *)
(* it.                                                                     *)
SumPlace(block) == (block + 1) * BlockWords - 1

BlockSum(image, block) ==
  Checksum([i \in 1..(BlockWords - 1) |-> image[block * BlockWords + i - 1]], 200)

(* An erased block is not one whose checksum is right.                     *)
ASSUME ErasedAssumption ==
  Checksum([i \in 1..(BlockWords - 1) |-> 65535], 200) # 65535

(* The image write_presets puts together of presets that are prepared:     *)
(* block after block, and after each its checksum.                         *)
WordOf(ps, num, i) == ps[num][2 * i]

Image(ps) ==
  LET word(block, i) == WordOf(ps, block * PerBlock + i \div 51, i % 51)
      sum(block) == Checksum([i \in 1..(BlockWords - 1) |-> word(block, i - 1)], 200)
  IN  [a \in Places |-> IF (a + 1) % BlockWords = 0 THEN sum(a \div BlockWords)
                        ELSE word(a \div BlockWords, a % BlockWords)]

(* _verify_preset_checksums, and the presets of an image.                  *)
VerifiedFirst(image) == image[SumPlace(0)] = BlockSum(image, 0)

Verified(image) ==
  \A block \in 0..(Blocks - 1) : image[SumPlace(block)] = BlockSum(image, block)

Contents(image) ==
  [num \in PresetNums |-> [i \in Offsets |-> image[PlaceOf(num) + i \div 2]]]

-----------------------------------------------------------------------------
Call(op, num, asked, raised) ==
  [op |-> op, num |-> num, asked |-> asked, raised |-> raised]

NoPreset == -1

Init ==
  /\ presets = [num \in PresetNums |-> Prepared([i \in Offsets |-> 0])]
  /\ flash = Image(presets)
  /\ damaged = FALSE /\ changes = 0
  /\ last = Call("read", NoPreset, <<>>, FALSE)

(* A setter of Preset.                                                     *)
Set(num, f, value) ==
  /\ changes < MaxChanges /\ ~damaged
  /\ presets' = IF Raises(f, value) THEN presets
                ELSE [presets EXCEPT ![num] = SetField(@, f, value)]
  /\ last' = Call("set", num, << <<f, value>> >>, Raises(f, value))
  /\ changes' = changes + 1
  /\ UNCHANGED <<flash, damaged>>

(* _modify_preset, called by _update_presets.                              *)
Modify(num, new) ==
  /\ changes < MaxChanges /\ ~damaged
  /\ presets' = [presets EXCEPT ![num] = Modified(@, new).data]
  /\ last' = Call("modify", num, new, Modified(presets[num], new).raised)
  /\ changes' = changes + 1
  /\ UNCHANGED <<flash, damaged>>

(* write_presets, when it succeeds.                                        *)
WritePresets ==
  /\ presets' = [num \in PresetNums |-> Prepared(presets[num])]
  /\ flash' = Image(presets')
  /\ damaged' = FALSE
  /\ last' = Call("write", NoPreset, <<>>, FALSE)
  /\ UNCHANGED changes

(* read_presets, when the image arrives as the charger holds it.           *)
ReadPresets ==
  /\ presets' = IF Verified(flash) THEN Contents(flash) ELSE presets
  /\ last' = Call("read", NoPreset, <<>>, ~Verified(flash))
  /\ UNCHANGED <<flash, damaged, changes>>

(* The charger's memory: erased, as it is before it is written, or a word  *)
(* of it wrong.  Bound: once in every image, before the presets change     *)
(* again.                                                                  *)
Erase ==
  /\ last.op = "write" /\ ~damaged
  /\ flash' = [a \in Places |-> 65535]
  /\ damaged' = TRUE
  /\ UNCHANGED <<presets, last, changes>>

GoBad(a) ==
  /\ last.op = "write" /\ ~damaged
  /\ \E bit \in {0, 15} : flash' = [flash EXCEPT ![a] = (@ + 2 ^ bit) % 2 ^ 16]
  /\ damaged' = TRUE
  /\ UNCHANGED <<presets, last, changes>>

Next ==
  \/ \E num \in Touched, i \in Inputs : Set(num, i[1], i[2])
  \/ \E num \in Touched, new \in NewValues : Modify(num, new)
  \/ WritePresets
  \/ ReadPresets
  \/ Erase
  \/ \E a \in Harmed : GoBad(a)

Spec == Init /\ [][Next]_vars

-----------------------------------------------------------------------------
(* Every word has 16 bits: no setter carries into the word before.         *)
TypeOK ==
  /\ presets \in [PresetNums -> [Offsets -> Word]]
  /\ flash \in [Places -> Word]
  /\ damaged \in BOOLEAN /\ changes \in 0..MaxChanges
  /\ last.op \in {"set", "modify", "write", "read"} /\ last.raised \in BOOLEAN

(* A setter that does not raise an exception stores the value the charger  *)
(* can hold that is nearest to the one it was given, on either side of the *)
(* places where the steps get coarser (module Presets' Nearest).           *)
StoresNearest ==
  (last.op = "set" /\ ~last.raised) =>
    LET f == last.asked[1][1] IN
    Nearest(f, last.asked[1][2], ValueOf(presets[last.num], f))

(* A call changes the fields it was asked to change and no others: neither *)
(* a neighbour in the same word, nor a field of another preset.            *)
FieldsApart ==
  [][last'.op \in {"set", "modify"} =>
       \A num \in PresetNums, f \in Fields :
         presets'[num] # presets[num]
           /\ ValueOf(presets'[num], f) # ValueOf(presets[num], f) =>
           /\ num = last'.num /\ ~(last'.op = "set" /\ last'.raised)
           /\ \E k \in DOMAIN AllNew(last'.asked) : AllNew(last'.asked)[k][1] = f]_vars

(* A preset that was given a battery's values is as it should be: giving   *)
(* it the same values again changes nothing, and it is reported not to     *)
(* need an update exactly if it can hold them all as they are.  (Module    *)
(* Emulator's Exact says that this is so.)                                 *)
ModifySettles ==
  (last.op = "modify" /\ ~last.raised) =>
    LET again == Modified(presets[last.num], last.asked) IN
    /\ again.data = presets[last.num] /\ ~again.raised
    /\ again.update <=> \E k \in DOMAIN last.asked : ~Holds(last.asked[k][1], last.asked[k][2])

(* What was written can be read, and it is what is read; and an erased     *)
(* memory, or one with a word that went bad, is never taken for presets    *)
(* (module Emulator's ReadPresetsFails).                                   *)
OnlyWrittenIsRead ==
  /\ Verified(flash) <=> ~damaged
  /\ last.op = "write" /\ ~damaged => Contents(flash) = presets

(* Presets that are read and written back leave the image as it is, to the *)
(* bit: nothing drifts, however often the settings change and change back. *)
RewriteIsStable ==
  [][last.op = "read" /\ ~last.raised /\ ~damaged /\ last'.op = "write" => flash' = flash]_vars
=============================================================================
