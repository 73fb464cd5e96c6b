--------------------------- MODULE MCDeviceErase ----------------------------
(***************************************************************************)
(* DeviceErase with the StorageDevice of DeviceInfo, on devices of two and *)
(* three sectors: one that encrypts and a plain one, as a USB disk (which  *)
(* counts as SATA where its link in sysfs cannot be read) and as an NVMe   *)
(* partition, which a scan leaves out.                                     *)
(***************************************************************************)
EXTENDS DeviceInfo

MCNodes ==
  {[stem |-> "sd", ends_in_digit |-> FALSE, p_and_digit |-> FALSE, usb |-> TRUE],
   [stem |-> "nvme", ends_in_digit |-> TRUE, p_and_digit |-> TRUE, usb |-> FALSE]}

Encrypting == [rotational |-> TRUE, read_only |-> FALSE, security |-> TRUE, frozen |-> FALSE,
               word59 |-> {12, 13, 14}, oacs |-> {1}, fna |-> {2}, sanicap |-> {2}]
Plain      == [rotational |-> FALSE, read_only |-> FALSE, security |-> FALSE, frozen |-> TRUE,
               word59 |-> {}, oacs |-> {}, fna |-> {}, sanicap |-> {}]

MCDisks == {Encrypting, Plain}
=============================================================================
