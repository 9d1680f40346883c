------------------------------ MODULE SysUtil ------------------------------
(***************************************************************************)
(* Conversions of src/plugins/sys_util.h that other modules use.  A        *)
(* netmask is given by its length, the number of its leading one bits.     *)
(***************************************************************************)
EXTENDS Naturals

(***************************************************************************)
(* inet_pton() stores the address in network byte order: the first byte of *)
(* the mask is the lowest byte of the in_addr_t of a little-endian         *)
(* machine.  The bits set in that integer, 0 the least significant.        *)
(***************************************************************************)
MaskBits(len) == {8 * (k \div 8) + (7 - (k % 8)) : k \in 0 .. len - 1}

(***************************************************************************)
(* netmask_to_plen(): while (n > 0) { n = n >> 1; i++; } counts the shifts *)
(* until the highest one bit has fallen out.                               *)
(***************************************************************************)
NetmaskToPlen(len) ==
  CHOOSE i \in 0..32 : /\ \A b \in MaskBits(len) : b < i
                       /\ i > 0 => i - 1 \in MaskBits(len)
=============================================================================
