--------------------------- MODULE MMapController ---------------------------
(***************************************************************************)
(* The memory objects of a device's tensors                                *)
(* (MMapController::setNormal, MemoryObject): weights are placed one after *)
(* the other, activations and caches all start at address 0 and change     *)
(* their size with the batch.                                              *)
(***************************************************************************)
EXTENDS DramMapping

CONSTANTS
    Sizes,         \* sizes of tensors in bytes
    MaxTensors     \* bound on the number of tensors

ASSUME TensorAssumption == Sizes \subseteq Nat /\ MaxTensors \in Nat

VARIABLES
    start_addr_normal,
    objects        \* the memory objects, in the order of their creation

mvars == <<start_addr_normal, objects>>

Tags == {"weight", "act", "cache"}

MMTypeOK ==
    /\ start_addr_normal \in Nat
    /\ objects \in Seq([tag : Tags, address : Nat, size : Nat])

MMInit == start_addr_normal = 0 /\ objects = <<>>

(* Mutant: the next weight starts where the last one does. *)
setNormalUnmoved(tag, size) ==
    /\ Len(objects) < MaxTensors
    /\ objects' = Append(objects, [tag |-> tag, size |-> size, address |-> 0])
    /\ UNCHANGED start_addr_normal

(* setMemoryObject -> setNormal, when a tensor is created. *)
setNormal(tag, size) ==
    /\ Len(objects) < MaxTensors
    /\ objects' = Append(objects,
                         [tag |-> tag, size |-> size,
                          address |-> IF tag = "weight" THEN start_addr_normal ELSE 0])
    /\ start_addr_normal' = start_addr_normal + (IF tag = "weight" THEN size ELSE 0)

(* Tensor::setShape of an activation or a cache. *)
setSize(i, size) ==
    /\ objects[i].tag # "weight"
    /\ objects' = [objects EXCEPT ![i].size = size]
    /\ UNCHANGED start_addr_normal

MMNext ==
    \/ \E tag \in Tags, size \in Sizes : setNormal(tag, size)
    \/ \E i \in DOMAIN objects, size \in Sizes : setSize(i, size)

MMSpec == MMInit /\ [][MMNext]_mvars

-----------------------------------------------------------------------------
Bundles(o) == 0 .. NumBundles(o.size) - 1

Fits(o) == \A b \in Bundles(o) : ValidAddress(o.address + b * granul)

(* No two weights of a device share a place in the DRAM, in the normal     *)
(* mapping nor in the LOGIC mapping:                                       *)
(* setNormal hands out disjoint ranges even when a size is no multiple of  *)
(* the bundle, and addrToVec and addrToVecLOGIC send different bundles to  *)
(* different places.                                                       *)
WeightsDisjoint ==
    \A i, j \in DOMAIN objects :
        i < j /\ objects[i].tag = "weight" /\ objects[j].tag = "weight"
              /\ Fits(objects[i]) /\ Fits(objects[j]) =>
            \A b \in Bundles(objects[i]), c \in Bundles(objects[j]), type \in {"GPU", "LOGIC"} :
                getAddrVec(type, objects[i].address, b) # getAddrVec(type, objects[j].address, c)

(* The kernels a processor can run: request, processor, bandwidth_x. *)
Kernels ==
    ({"kRead", "kWrite"} \X {"GPU", "LOGIC", "PIM"} \X {0})
    \union ({"kGEMV"} \X {"PIM"} \X {4, 8, 16}) \union {<<"kGEMV", "LOGIC", 4>>}

(* Consecutive bundles after which the places come round again, and how    *)
(* many of them a kernel keeps.                                            *)
Round(req, type) ==
    IF req # "kGEMV" THEN num_cube * num_channel
    ELSE IF type = "PIM" THEN num_cube * num_channel * num_rank * num_bankgroup * num_bank
    ELSE num_cube * num_channel * num_bankgroup * 2
Kept(req, type, x) ==
    IF req # "kGEMV" THEN 2 ELSE IF type = "PIM" THEN 16 \div x ELSE 1

(* The commands that a kernel keeps stand for the whole tensor, at any     *)
(* address: a share of them per round over the channels and banks, and     *)
(* what they stand for is off by less than one round.  A filter that keeps *)
(* too few makes every simulated time too short.                           *)
SampleStandsForTensor ==
    \A i \in DOMAIN objects, k \in Kernels :
        LET o == objects[i]
            n == Commands(k[1], k[2], k[3], o.address, o.size) * Round(k[1], k[2])
            all == NumBundles(o.size) * Kept(k[1], k[2], k[3])
            slack == Round(k[1], k[2]) * Kept(k[1], k[2], k[3])
        IN  Fits(o) => all - slack < n /\ n < all + slack

(* The formula of run_ideal counts what the simulation would issue for an  *)
(* activation, or one command more: it counts one too many for the second  *)
(* pseudo channel when the commands of the cube divide evenly.             *)
IdealCountsSimulated ==
    \A i \in DOMAIN objects :
        LET o == objects[i]
            extra == IdealCommands(o.size) - Commands("kRead", "GPU", 0, 0, o.size)
        IN  o.tag # "weight" =>
                extra = IF CeilDiv(NumBundles(o.size), num_cube) % num_channel = 0 THEN 1 ELSE 0

=============================================================================
