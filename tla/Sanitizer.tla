----------------------------- MODULE Sanitizer ------------------------------
(***************************************************************************)
(* sanitizer_run: the dispatch on the kind of device and the method to     *)
(* block_erase_image with the verification after it (ImageVerify, step by  *)
(* step), to block_erase_device, and to the methods that are stubs.        *)
(*                                                                         *)
(* block_erase_device, which DeviceErase models step by step, is one step  *)
(* here that ends in any of its codes: it shares nothing with an image.    *)
(***************************************************************************)
EXTENDS ImageVerify

CONSTANTS
  DeviceTypes   \* the values of StorageDevice.device_type

ASSUME SanitizerParameters ==
  DeviceTypes \subseteq {"UNKNOWN", "HDD", "SATA_SSD", "NVME_SSD", "USB_HDD", "USB_SSD",
                         "USB_FLASH", "SD_CARD"}

VARIABLES
  spc,      \* where the call to sanitizer_run is
  request,  \* the device and the options it still needs
  sret      \* its result_code and return value, "none" before it returns

svars == <<vars, spc, request, sret>>

Methods == {"NONE", "BLOCK_ERASE", "CRYPTO_ERASE", "DEVICE_NATIVE"}

\* verify_mode is one of VerifyModes or VERIFY_NONE.
NoVerify == "NONE"

NoRequest == [path |-> "missing", pattern |-> ZERO, block_size |-> 0,
              verify_mode |-> NoVerify]

\* What block_erase_device may answer to a caller that has confirmed: the codes
\* of the checks, of the open and the size, and of the pass loop.
DeviceCodes == {"OK", "NOT_A_DEVICE", "DEVICE_READ_ONLY", "DEVICE_MOUNTED",
                "PERMISSION_DENIED", "DEVICE_BUSY", "OPEN_FAILED", "DEVICE_SCAN_FAIL",
                "ALLOC", "SEEK_FAILED", "CRYPTO", "WRITE_FAILED", "SYNC_FAILED"}

SanitizerTypeOK ==
  /\ VerifyTypeOK
  /\ spc \in {"idle", "erase", "verify", "done"}
  /\ request.path \in Paths
  /\ request.verify_mode \in VerifyModes \cup {NoVerify}
  /\ sret \in {"none", "UNSUPPORTED", "NOT_IMPLEMENTED"}
              \cup Refusals \cup Failures \cup DeviceCodes

-----------------------------------------------------------------------------
(* The dispatch. *)

\* The handler of a type: the first of the can_handle tests that says yes, and
\* portable_sanitize hands a USB SSD on.
Handler(device_type) ==
  CASE device_type \in {"HDD", "USB_HDD"}                     -> "hdd"
    [] device_type \in {"SATA_SSD", "NVME_SSD", "USB_SSD"}    -> "ssd"
    [] device_type \in {"USB_FLASH", "SD_CARD"}               -> "portable"
    [] OTHER                                                  -> "none"

\* crypto_erase_query on what the device reports, and crypto_erase_execute,
\* which has no branch that destroys a key.
CryptoErase(reports) ==
  CASE reports = "crypto erase"     -> "NOT_IMPLEMENTED"
    [] reports = "no encryption"    -> "NOT_ENCRYPTED"
    [] reports = "encryption only"  -> "UNSUPPORTED"

Reports == {"crypto erase", "no encryption", "encryption only"}

\* The code of the methods that erase nothing.
StubCode(handler, method) ==
  CASE handler \in {"none", "portable"} \/ method = "NONE" -> {"UNSUPPORTED"}
    [] handler \in {"hdd", "ssd"} /\ method = "DEVICE_NATIVE" -> {"NOT_IMPLEMENTED"}
    [] handler \in {"hdd", "ssd"} /\ method = "CRYPTO_ERASE" ->
         {IF CryptoErase(r) = "SUCCESS" THEN "OK" ELSE "NOT_IMPLEMENTED" : r \in Reports}

\* The result goes back to the caller.
SanitizerReturn(code) ==
  /\ spc' = "done"
  /\ sret' = code
  /\ request' = NoRequest

Ready == spc \in {"idle", "done"}

\* The memset of the result record, sub-results included.
ClearSubresults ==
  /\ vpc' = "idle"
  /\ vargs' = NoArgs
  /\ vresult' = ClearResult
  /\ changed' = {}
  /\ UNCHANGED blk

\* A method that is a stub, or that the handler does not have.
RunStub(device_type, method) ==
  /\ Ready
  /\ method # "BLOCK_ERASE"
  /\ \E code \in StubCode(Handler(device_type), method) : SanitizerReturn(code)
  /\ ClearSubresults
  /\ UNCHANGED evars

\* Block erase outside test mode, with the path of the device as the token
\* that confirms it.  A device of an unknown type is refused.
RunDevice(device_type) ==
  /\ Ready
  /\ \E code \in IF Handler(device_type) = "none" THEN {"UNSUPPORTED"} ELSE DeviceCodes :
       SanitizerReturn(code)
  /\ ClearSubresults
  /\ UNCHANGED evars

\* Block erase in test mode: block_erase_image is called on the path.  A device
\* of an unknown type is erased too, but not verified.
RunImage(device_type, path, pattern, block_size, passes, verify_mode) ==
  /\ Ready
  /\ Call(path, pattern, block_size, passes)
  /\ spc' = "erase"
  /\ sret' = "none"
  /\ request' = [path |-> path, pattern |-> pattern, block_size |-> block_size,
                 verify_mode |-> IF Handler(device_type) = "none" THEN NoVerify
                                                                  ELSE verify_mode]
  /\ ClearSubresults

WantsVerification == request.verify_mode # NoVerify

\* Mutant of AfterErase: verification whatever the erasure returned.
VerifyAnyway ==
  /\ spc = "erase"
  /\ pc = "done"
  /\ IF WantsVerification
       THEN /\ VerifyCall(request.pattern, request.block_size, request.verify_mode)
            /\ spc' = "verify"
            /\ UNCHANGED <<request, sret>>
       ELSE SanitizerReturn(ret) /\ UNCHANGED vars

\* block_erase_image has returned.
AfterErase ==
  /\ spc = "erase"
  /\ pc = "done"
  /\ IF ret = "OK" /\ WantsVerification
       THEN /\ VerifyCall(request.pattern, request.block_size, request.verify_mode)
            /\ spc' = "verify"
            /\ UNCHANGED <<request, sret>>
       ELSE SanitizerReturn(ret) /\ UNCHANGED vars

\* verify_image_pattern has returned; what it returned is not looked at.
AfterVerify ==
  /\ spc = "verify"
  /\ vpc = "done"
  /\ SanitizerReturn(ret)
  /\ UNCHANGED vars

-----------------------------------------------------------------------------
\* A step of block_erase_image or verify_image_pattern within the call.
Work ==
  /\ \/ spc = "erase" /\ EraseStep
     \/ spc = "verify" /\ Verify
  /\ UNCHANGED <<spc, request, sret>>

\* The other process, the C library and the kernel, on the image.
ImageStep == SurroundingStep /\ UNCHANGED <<spc, request, sret>>

\* The program is gone with its call.
PowerLoss ==
  /\ PowerFailureStep
  /\ spc' = "idle"
  /\ request' = NoRequest
  /\ sret' = "none"

SanitizerInit ==
  /\ VerifyInit
  /\ spc = "idle"
  /\ request = NoRequest
  /\ sret = "none"

SanitizerNext ==
  \/ \E t \in DeviceTypes, m \in Methods : RunStub(t, m)
  \/ \E t \in DeviceTypes : RunDevice(t)
  \/ \E t \in DeviceTypes, path \in Paths, p \in Patterns, b \in BlockSizes,
        n \in PassCounts, v \in VerifyModes \cup {NoVerify} : RunImage(t, path, p, b, n, v)
  \/ AfterErase
  \/ AfterVerify
  \/ Work
  \/ ImageStep
  \/ PowerLoss

SanitizerSpec == SanitizerInit /\ [][SanitizerNext]_svars

-----------------------------------------------------------------------------
(* What sanitizer_run must guarantee. *)

\* When a run in test mode returns ERASECURE_OK the image is erased durably,
\* with the pattern that was asked for, at the moment of the return: after the
\* verification, whatever that found and for as long as it took.
OkMeansDestroyed ==
  sret' = "OK" /\ spc \in {"erase", "verify"} =>
    /\ promise.sectors > 0
    /\ promise.pattern = request.pattern
    /\ \A s \in Sectors : s < promise.sectors => Wiped(s, request.pattern)

\* The verdict in a result is about the erasure in the same result: it was
\* reached after that erasure was ERASECURE_OK, with its pattern.
VerdictIsOfThisErase ==
  spc = "done" /\ vresult.scope # "NOT_APPLICABLE" =>
    sret = "OK" /\ vargs.pattern = promise.pattern /\ promise.sectors > 0
=============================================================================
