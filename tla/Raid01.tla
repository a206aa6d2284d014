------------------------------- MODULE Raid01 -------------------------------
(***************************************************************************)
(* The placement function of the volume (class Raid01, raid01.cpp).        *)
(*                                                                         *)
(* The volume is striped over three minions: minion i keeps stripe i in    *)
(* the first MINION_SIZE cells of its file and, in the next MINION_SIZE    *)
(* cells, the backup of the stripe of its predecessor.  Only the START of  *)
(* a request is translated; the size of the request is not looked at.      *)
(***************************************************************************)
EXTENDS Integers, Sequences

CONSTANT MINION_SIZE    \* cells of one stripe (4 * MB in raid01.hpp)

ASSUME RaidAssumption == MINION_SIZE \in Nat \ {0}

Minions == 0 .. 2       \* m_minion_proxy_vector(3)

MEMORY == 3 * MINION_SIZE

(* A place: which minion, and the offset in that minion's file.            *)
Place(minion, offset) == [minion |-> minion, offset |-> offset]

(* Mutants of OffsetToProxy: a backup that is not moved out of the stripe  *)
(* of its host, and one that is moved too far.                             *)
OffsetToProxyNoShift(offset) ==
  LET minion_idx    == offset \div MINION_SIZE
      minion_offset == offset % MINION_SIZE
  IN  << Place(minion_idx, minion_offset),
         Place((minion_idx + 1) % 3, minion_offset) >>

OffsetToProxyTwice(offset) ==
  LET minion_idx    == offset \div MINION_SIZE
      minion_offset == offset % MINION_SIZE
  IN  << Place(minion_idx, minion_offset),
         Place((minion_idx + 1) % 3, minion_offset + 2 * MINION_SIZE) >>

(* The original copy first, the backup second.                             *)
OffsetToProxy(offset) ==
  LET minion_idx    == offset \div MINION_SIZE
      minion_offset == offset % MINION_SIZE
  IN  << Place(minion_idx, minion_offset),
         Place((minion_idx + 1) % 3, minion_offset + MINION_SIZE) >>
=============================================================================
