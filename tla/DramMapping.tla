---------------------------- MODULE DramMapping ----------------------------
(***************************************************************************)
(* Where a tensor lies in the DRAM, and which commands stand for it when a *)
(* request is simulated: src/src/dram/mmap_controller.cpp and the kernels  *)
(* of src/src/dram/pimkernel.  A kernel walks over all bundles of a tensor *)
(* and keeps those on the first pair of pseudo channels, and for a GEMV    *)
(* those on the first banks: the other ones behave alike.  run_ideal of    *)
(* src/src/hardware/device.cpp counts the same commands by a formula.      *)
(***************************************************************************)
EXTENDS Integers, FiniteSets, Sequences

CONSTANTS
    granul, num_cube, num_logic_cube, num_channel, num_rank, num_bankgroup,
    num_row, num_col

num_bank == 4      \* the LOGIC mapping splits the bank number into two bits

ASSUME GeometryAssumption ==
    /\ {granul, num_cube, num_logic_cube, num_channel, num_rank, num_bankgroup,
        num_row, num_col} \subseteq Nat \ {0}
    /\ num_channel % 2 = 0
    /\ num_logic_cube = num_cube

-----------------------------------------------------------------------------
(* The digits of the number x in the mixed radix bases, lowest first. *)
Digits(x, bases) ==
    LET below[i \in 0 .. Len(bases)] == IF i = 0 THEN 1 ELSE below[i - 1] * bases[i]
    IN  [i \in 1 .. Len(bases) + 1 |->
            IF i <= Len(bases) THEN (x \div below[i - 1]) % bases[i]
            ELSE x \div below[i - 1]]

addrToVec(address) ==
    LET d == Digits(address \div granul,
                    <<num_cube, num_channel, num_rank, num_bankgroup, num_bank, num_col>>)
    IN  [cube |-> d[1], channel |-> d[2], rank |-> d[3], bankgroup |-> d[4],
         bank |-> d[5], col |-> d[6], row |-> d[7]]

addrToVecLOGIC(address) ==
    LET d == Digits(address \div granul,
                    <<num_logic_cube, num_channel, num_bankgroup, 2, num_col, num_row, 2,
                      num_rank>>)
    IN  [cube |-> d[1], channel |-> d[2], bankgroup |-> d[3], bank |-> d[7] * 2 + d[4],
         col |-> d[5], row |-> d[6], rank |-> d[8]]

(* addrToVec asserts that the row exists. *)
ValidAddress(address) == addrToVec(address).row < num_row

(* The number of the pseudo channel in the whole device; ramulator's       *)
(* channel is a pair of them.                                              *)
PseudoChannel(v) == num_channel * v.cube + v.channel
RamulatorChannel(v) == PseudoChannel(v) \div 2

getAddrVec(type, base, bundle) ==
    IF type = "LOGIC" THEN addrToVecLOGIC(base + bundle * granul)
                      ELSE addrToVec(base + bundle * granul)

-----------------------------------------------------------------------------
NumBundles(size) == size \div granul

ReadKernel(type, v) == RamulatorChannel(v) = 0

WriteKernel(type, v) == RamulatorChannel(v) = 0

(* Mutant: the commands of every bank group are kept. *)
GEMVAllGroups(type, x, v) ==
    /\ PseudoChannel(v) = 0
    /\ \/ type = "PIM" /\ v.rank = 0 /\ v.bank % (x \div 4) = 0
       \/ type = "LOGIC" /\ v.bank % 2 = 0

(* All-bank commands: one MAC command works on the x banks it stands for.  *)
(* The GPU has no branch here.                                             *)
GEMV(type, x, v) ==
    /\ PseudoChannel(v) = 0
    /\ v.bankgroup = 0
    /\ \/ type = "PIM" /\ v.rank = 0
          /\ \/ x = 16 /\ v.bank = 0
             \/ x = 8 /\ v.bank % 2 = 0
             \/ x = 4
       \/ type = "LOGIC" /\ x = 4 /\ v.bank % 2 = 0

Issues(req, type, x, v) ==
    CASE req = "kRead"  -> ReadKernel(type, v)
      [] req = "kWrite" -> WriteKernel(type, v)
      [] req = "kGEMV"  -> GEMV(type, x, v)

(* The number of commands that are simulated for a request. *)
Commands(req, type, x, base, size) ==
    Cardinality({b \in 0 .. NumBundles(size) - 1 :
                    Issues(req, type, x, getAddrVec(type, base, b))})

(* The rows that these commands open, each of them once. *)
Activations(req, type, x, base, size) ==
    LET at(b) == getAddrVec(type, base, b)
    IN  Cardinality({[at(b) EXCEPT !.col = 0] :
                        b \in {i \in 0 .. NumBundles(size) - 1 : Issues(req, type, x, at(i))}})

-----------------------------------------------------------------------------
CeilDiv(a, b) == (a + b - 1) \div b

(* Mutant: both pseudo channels are rounded up. *)
IdealCommandsRounded(size) ==
    2 * CeilDiv(CeilDiv(NumBundles(size), num_cube), num_channel)

(* run_ideal: the commands of a read or write, counted by division. *)
IdealCommands(size) ==
    LET cube0 == CeilDiv(NumBundles(size), num_cube)
    IN  CeilDiv(cube0, num_channel)
        + (IF cube0 % num_channel = 1 THEN cube0 \div num_channel
                                     ELSE (cube0 \div num_channel) + 1)
=============================================================================
