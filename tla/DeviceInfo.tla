----------------------------- MODULE DeviceInfo -----------------------------
(***************************************************************************)
(* Where block_erase_device gets its StorageDevice from: device_scan and   *)
(* device_get_info read sysfs attribute by attribute,                      *)
(* device_refresh_capabilities reads the read-only flag again and asks the *)
(* device for its IDENTIFY data, and every one of these reads may fail.    *)
(* The caller keeps the record and erases with it later, while the device  *)
(* may be made read-only, or be replaced by another one that gets the same *)
(* name.                                                                   *)
(***************************************************************************)
EXTENDS DeviceErase

CONSTANTS
  Nodes,   \* the names devices may have
  Disks    \* the devices that may have them, but for their capacity

\* What is_partition and device_classify look at in a name.
NodeName == [stem: {"sd", "nvme", "mmcblk", "loop"}, ends_in_digit: BOOLEAN,
             p_and_digit: BOOLEAN, usb: BOOLEAN]

\* What sysfs and IDENTIFY say: words 82, 128 and 59; OACS, FNA and SANICAP.
Disk == [rotational: BOOLEAN, read_only: BOOLEAN,
         security: BOOLEAN, frozen: BOOLEAN, word59: SUBSET (12 .. 15),
         oacs: SUBSET (0 .. 3), fna: SUBSET (0 .. 2), sanicap: SUBSET (0 .. 2)]

ASSUME InfoParameters ==
  /\ Nodes \subseteq NodeName
  /\ Disks \subseteq Disk
  /\ Snapshots = Capacities \cup {0}

VARIABLES
  node,      \* the name the caller knows the device by
  disk,      \* the device that has it
  dev,       \* the caller's StorageDevice
  ipc,       \* the sysfs attribute, or the step, the caller is at
  replugged  \* the device was replaced since device_get_info started

info  == <<node, disk, dev, ipc, replugged>>
ivars == <<vars, info>>

\* device_init.
Blank == [is_rotational |-> FALSE, is_read_only |-> FALSE, capacity_bytes |-> 0,
          transport |-> "UNKNOWN", device_type |-> "UNKNOWN",
          encrypted |-> FALSE, block |-> FALSE, crypto |-> FALSE, native |-> FALSE]

InfoTypeOK ==
  /\ node \in Nodes
  /\ disk \in Disk
  /\ dev \in [is_rotational: BOOLEAN, is_read_only: BOOLEAN, capacity_bytes: Snapshots,
              transport: {"UNKNOWN", "SATA", "USB", "NVME", "SD"},
              device_type: {"UNKNOWN", "HDD", "SATA_SSD", "NVME_SSD", "USB_HDD",
                            "USB_FLASH", "SD_CARD"},
              encrypted: BOOLEAN, block: BOOLEAN, crypto: BOOLEAN, native: BOOLEAN]
  /\ ipc \in {"none", "is_rotational", "is_read_only", "capacity_bytes", "classify",
              "known", "recheck", "query"}
  /\ replugged \in BOOLEAN

-----------------------------------------------------------------------------
(* Names and types. *)

IsPartition(n) ==
  CASE n.stem = "loop"                 -> TRUE
    [] n.stem \in {"nvme", "mmcblk"}   -> n.p_and_digit
    [] OTHER                           -> n.ends_in_digit

\* device_classify: the name, then the subsystem link in sysfs where it can be read.
Transports(n) ==
  IF n.stem = "nvme" THEN {"NVME"}
  ELSE IF n.stem = "mmcblk" THEN {"SD"}
  ELSE IF n.usb THEN {"USB", "SATA"} ELSE {"SATA"}

DeviceType(transport, rotational) ==
  CASE transport = "NVME" -> "NVME_SSD"
    [] transport = "SD"   -> "SD_CARD"
    [] transport = "USB"  -> IF rotational THEN "USB_HDD" ELSE "USB_FLASH"
    [] transport = "SATA" -> IF rotational THEN "HDD" ELSE "SATA_SSD"

-----------------------------------------------------------------------------
(* What the device says of itself. *)

\* An SG_IO ioctl ends in one of these ways; only the last has data.  A check
\* condition counts as a failure even where the ATA status in it is good.
AtaAnswers == {"open_refused", "ioctl_failed", "ATA_error", "check_condition", "data"}

\* An NVMe admin command has a status where SG_IO has a sense code.
NvmeAnswers == {"open_refused", "ioctl_failed", "NVMe_status", "data"}

\* Word 59 is valid where bits 15 and 14 are 0 and 1, and then they are also
\* what is read as block erase and overwrite.
Sanitizes(d, bit) == d.word59 \cap {14, 15} = {14} /\ {12, bit} \subseteq d.word59

AtaCapabilities(d) ==
  [crypto |-> Sanitizes(d, 13),
   native |-> (d.security /\ ~d.frozen) \/ Sanitizes(d, 14) \/ Sanitizes(d, 15)]

\* nvme_identify_controller: the bits it takes from the controller's data.
NvmeController(d) ==
  [format |-> 1 \in d.oacs, format_crypto |-> 2 \in d.fna,
   sanitize |-> d.sanicap, sanitize_crypto |-> 2 \in d.sanicap]

NvmeCapabilities(d) ==
  LET ctrl == NvmeController(d)
  IN  [crypto |-> (ctrl.format /\ ctrl.format_crypto) \/ ctrl.sanitize_crypto,
       native |-> ctrl.format \/ ctrl.sanitize # {}]

\* What the query of a device on this transport would find.
Capabilities(transport, d) ==
  IF transport = "SATA" THEN AtaCapabilities(d) ELSE NvmeCapabilities(d)

-----------------------------------------------------------------------------
(* The calls. *)

Idle == pc \in {"idle", "done"} /\ ipc \in {"none", "known"}

\* Mutant of GetInfo: the record is not initialised and keeps what it held.
GetInfoKeeps ==
  /\ Idle
  /\ dev' = dev
  /\ ipc' = "is_rotational"
  /\ replugged' = FALSE
  /\ UNCHANGED <<vars, node, disk>>

\* device_get_info, for a name the caller has or one that device_scan found.
GetInfo ==
  /\ Idle
  /\ dev' = Blank
  /\ ipc' = "is_rotational"
  /\ replugged' = FALSE
  /\ UNCHANGED <<vars, node, disk>>

\* device_scan asks for what is listed in /sys/block and is no partition.
Scan == ~IsPartition(node) /\ GetInfo

\* The attribute as sysfs shows it at this moment.
Attribute(name) ==
  CASE name = "is_rotational"  -> disk.rotational
    [] name = "is_read_only"   -> disk.read_only
    [] name = "capacity_bytes" -> capacity

AfterAttribute == [is_rotational |-> "is_read_only", is_read_only |-> "capacity_bytes",
                   capacity_bytes |-> "classify"]

\* sysfs_read_uint32 and the assignment, which a failed read leaves out.  The
\* removable flag and the two sector sizes, which nothing here looks at again,
\* are read the same way and left out.
ReadAttribute(name) ==
  /\ ipc = name
  /\ \E value \in {dev[name], Attribute(name)} : dev' = [dev EXCEPT ![name] = value]
  /\ ipc' = AfterAttribute[name]
  /\ UNCHANGED <<vars, node, disk, replugged>>

\* The end of device_get_info.
Classify ==
  /\ ipc = "classify"
  /\ \E t \in Transports(node) :
       dev' = [dev EXCEPT !.transport = t,
                          !.device_type = DeviceType(t, dev.is_rotational),
                          !.is_rotational = @ /\ t \in {"USB", "SATA"},
                          !.block = ~dev.is_read_only]
  /\ ipc' = "known"
  /\ UNCHANGED <<vars, node, disk, replugged>>

Refresh ==
  /\ Idle
  /\ ipc = "known"
  /\ ipc' = "recheck"
  /\ UNCHANGED <<vars, node, disk, dev, replugged>>

\* The read-only flag is read again, and decides on block erase.
Recheck ==
  /\ ipc = "recheck"
  /\ \E ro \in {dev.is_read_only, disk.read_only} :
       dev' = [dev EXCEPT !.is_read_only = ro, !.block = ~ro]
  /\ ipc' = IF dev.transport \in {"SATA", "NVME"} THEN "query" ELSE "known"
  /\ UNCHANGED <<vars, node, disk, replugged>>

\* IDENTIFY: a query that fails leaves the capabilities as they were, one that
\* succeeds replaces them, and encryption_status is set but never cleared.
Query ==
  /\ ipc = "query"
  /\ LET caps == Capabilities(dev.transport, disk)
     IN  \E answer \in IF dev.transport = "SATA" THEN AtaAnswers ELSE NvmeAnswers :
           dev' = IF answer = "data"
                    THEN [dev EXCEPT !.crypto = caps.crypto, !.native = caps.native,
                                     !.encrypted = @ \/ caps.crypto]
                    ELSE dev
  /\ ipc' = "known"
  /\ UNCHANGED <<vars, node, disk, replugged>>

\* The caller erases what the record describes.
EraseKnown(confirmed, pattern, block_size, passes) ==
  /\ ipc = "known"
  /\ Call([confirmed |-> confirmed, is_block |-> TRUE, is_read_only |-> dev.is_read_only,
           capacity_bytes |-> dev.capacity_bytes], pattern, block_size, passes)
  /\ UNCHANGED info

-----------------------------------------------------------------------------
(* The rest of the machine. *)

\* Another device appears under the name; nothing has the old one open.
Replug ==
  /\ mount = "none" /\ ~excl
  /\ disk' \in Disks
  /\ capacity' \in Capacities
  /\ media' = [s \in 0 .. capacity' - 1 |-> DATA]
  /\ replugged' = TRUE
  /\ UNCHANGED <<mount, excl, pc, args, locals, result, ret, node, dev, ipc>>

\* blockdev --setro and --setrw.
SetReadOnly ==
  /\ disk' = [disk EXCEPT !.read_only = ~@]
  /\ UNCHANGED <<vars, node, dev, ipc, replugged>>

InfoInit ==
  /\ Init
  /\ node \in Nodes
  /\ disk \in Disks
  /\ dev = Blank
  /\ ipc = "none"
  /\ replugged = FALSE

EraseStep == Erase /\ UNCHANGED info

Surroundings ==
  /\ \/ \E how \in {"listed", "mapped"} : Mount(how)
     \/ Unmount
     \/ \E s \in 0 .. capacity - 1 : FileSystemWrite(s)
  /\ UNCHANGED info

InfoNext ==
  \/ GetInfo
  \/ Scan
  \/ \E name \in DOMAIN AfterAttribute : ReadAttribute(name)
  \/ Classify
  \/ Refresh
  \/ Recheck
  \/ Query
  \/ \E c \in BOOLEAN, p \in Patterns, b \in BlockSizes, n \in PassCounts :
       EraseKnown(c, p, b, n)
  \/ EraseStep
  \/ WriteInterrupted /\ UNCHANGED info
  \/ Surroundings
  \/ Replug
  \/ SetReadOnly

InfoSpec == InfoInit /\ [][InfoNext]_ivars /\ WF_ivars(EraseStep)

-----------------------------------------------------------------------------
(* What the record is worth. *)

\* What failed reads may leave in a record of a device that was not replaced
\* since.  They err one way only: the capacity is that of the device or 0, a
\* type or flag that says it rotates and a crypto or native capability are the
\* device's own, and none of these is left from a device that the record
\* described before.  They err the other way freely: a rotating disk may pass
\* for flash, a USB disk for a SATA one, and a read-only disk for
\* a writable one with block erase, all by an attribute that could not be read.
ReadsErrOneWay ==
  /\ TypeOK
  /\ InfoTypeOK
  /\ ~replugged =>
       /\ dev.capacity_bytes \in {0, capacity}
       /\ dev.is_rotational \/ dev.device_type \in {"HDD", "USB_HDD"} => disk.rotational
       /\ dev.crypto => Capabilities(dev.transport, disk).crypto
       /\ dev.native => Capabilities(dev.transport, disk).native
  /\ ipc = "known" => /\ dev.block = ~dev.is_read_only
                      /\ dev.crypto => dev.encrypted
                      /\ dev.crypto \/ dev.native => dev.transport \in {"SATA", "NVME"}

\* ERASECURE_OK for a device that is still the one in the record means that all
\* of its sectors are overwritten, however the scan, the ioctl for the size and
\* the mounts went: OkMeansErased promises this of the capacity the call found.
WholeDeviceErased ==
  [][pc # "done" /\ ret' = "OK" /\ ~replugged =>
       \A s \in DOMAIN media : media'[s] = opts.pattern]_ivars
=============================================================================
