-------------------------------- MODULE Cli ---------------------------------
(***************************************************************************)
(* cli_run: the commands that erase an image and that verify one, which    *)
(* call block_erase_image and verify_image_pattern themselves, without the *)
(* sanitizer.  A run of the program is one command; what the next run, or  *)
(* a program that calls sanitizer_run, finds is what it left on the disk.  *)
(* All that a script learns of a command is its exit code.                 *)
(***************************************************************************)
EXTENDS Sanitizer

VARIABLES
  cpc,   \* where the command is
  argv,  \* what its arguments were parsed to
  exit   \* the exit code, NoExit before there is one

NoExit == 3

cvars == <<svars, cpc, argv, exit>>

NoArgv == [pattern |-> ZERO, passes |-> 0, block_size |-> 0, verify_mode |-> NoVerify]

CliTypeOK ==
  /\ SanitizerTypeOK
  /\ cpc \in {"none", "erase", "check", "verify", "exit"}
  /\ argv \in [pattern: ErasePattern, passes: PassCounts \cup {0},
               block_size: BlockSizes \cup {0}, verify_mode: VerifyModes \cup {NoVerify}]
  /\ exit \in {NoExit, 0, 1, 2}

-----------------------------------------------------------------------------
(* Arguments. *)

\* Mutant of Passes: no upper end, and block_erase_image clamps differently.
PassesUnparsed(n) == IF n > 0 THEN n ELSE 1

\* --passes: what is not a number from 1 to ERASECURE_MAX_PASSES counts as 1.
Passes(n) == IF n \in 1 .. MaxPasses THEN n ELSE 1

\* --block-size: what is not a positive number is the default.
BlockSize(n) == IF n > 0 THEN n ELSE DefaultBlock

-----------------------------------------------------------------------------
(* Commands. *)

NoCommand == cpc \in {"none", "exit"}

\* A new process, while no program that uses the library runs.
NewProcess ==
  /\ NoCommand
  /\ Ready
  /\ exit' = NoExit
  /\ spc' = "idle"
  /\ sret' = "none"
  /\ UNCHANGED request

\* The process ends with its results; what is left is the image.
Exit(code) ==
  /\ cpc' = "exit"
  /\ exit' = code
  /\ argv' = NoArgv
  /\ pc' = "idle"
  /\ ret' = "none"
  /\ passes_completed' = 0
  /\ bytes_written' = 0
  /\ ClearSubresults
  /\ UNCHANGED <<image, call, promise, spc, request, sret>>

\* A command line that is incomplete, or names a pattern there is not.
Usage ==
  /\ NoCommand
  /\ Ready
  /\ \E code \in {0, 1} : Exit(code)

\* What may be asked for.  A path that is refused is refused whatever else is
\* asked, so each is asked for with the least of it only.
Requests ==
  {r \in [path: Paths, pattern: Patterns, block_size: BlockSizes, passes: PassCounts,
          verify_mode: VerifyModes \cup {NoVerify}] :
     r.path # "image" => /\ r.pattern = RANDOM /\ r.verify_mode = NoVerify
                         /\ \A b \in BlockSizes : r.block_size <= b
                         /\ \A n \in PassCounts : r.passes <= n}

\* --test-image <path> --block-erase <pattern>, and options.
EraseCommand(path, pattern, passes, block_size, verify_mode) ==
  /\ NewProcess
  /\ argv' = [pattern |-> pattern, passes |-> passes, block_size |-> block_size,
              verify_mode |-> verify_mode]
  /\ Call(path, pattern, BlockSize(block_size), Passes(passes))
  /\ ClearSubresults
  /\ cpc' = "erase"

\* block_erase_image has returned.  A random fill is not verified.
AfterErasure ==
  /\ cpc = "erase"
  /\ pc = "done"
  /\ CASE ret = "REAL_DEVICE_PATH" -> Exit(2)
       [] ret \notin {"OK", "REAL_DEVICE_PATH"} -> Exit(1)
       [] ret = "OK" ->
            IF argv.verify_mode # NoVerify /\ argv.pattern # RANDOM
              THEN /\ VerifyCall(argv.pattern, BlockSize(argv.block_size), argv.verify_mode)
                   /\ cpc' = "check"
                   /\ UNCHANGED <<argv, exit, spc, request, sret>>
              ELSE Exit(0)

\* The verification after an erasure is printed, and the exit code is 0.
AfterCheck ==
  /\ cpc = "check"
  /\ vpc = "done"
  /\ Exit(0)

\* --verify-image <path> --pattern <zero|one>: blocks of the default size, sampled.
VerifyCommand(pattern) ==
  /\ NewProcess
  /\ pattern # RANDOM
  /\ argv' = [NoArgv EXCEPT !.pattern = pattern]
  /\ VerifyCall(pattern, DefaultBlock, "SAMPLE")
  /\ cpc' = "verify"

\* Mutant of AfterVerification: the error of the verification is not looked at.
AfterVerificationVerdict ==
  /\ cpc = "verify"
  /\ vpc = "done"
  /\ Exit(IF vresult.verification_passed THEN 0 ELSE 1)

AfterVerification ==
  /\ cpc = "verify"
  /\ vpc = "done"
  /\ Exit(IF vresult.result_code = "OK" /\ vresult.verification_passed THEN 0 ELSE 1)

-----------------------------------------------------------------------------
\* A step of the call the command is in.
CommandWork ==
  /\ \/ cpc = "erase" /\ EraseStep
     \/ cpc \in {"check", "verify"} /\ Verify
  /\ UNCHANGED <<cpc, argv, exit, spc, request, sret>>

CliInit ==
  /\ SanitizerInit
  /\ cpc = "none"
  /\ argv = NoArgv
  /\ exit = NoExit

\* A program that uses the library, while no command runs.
LibraryCall ==
  /\ NoCommand
  /\ \/ \E t \in DeviceTypes, m \in Methods : RunStub(t, m)
     \/ \E t \in DeviceTypes : RunDevice(t)
     \/ \E t \in DeviceTypes, r \in Requests :
          RunImage(t, r.path, r.pattern, r.block_size, r.passes, r.verify_mode)
  /\ cpc' = "none"
  /\ argv' = NoArgv
  /\ exit' = NoExit

LibraryWork == (AfterErase \/ AfterVerify \/ Work) /\ UNCHANGED <<cpc, argv, exit>>

CliNext ==
  \/ Usage
  \/ \E r \in Requests :
       EraseCommand(r.path, r.pattern, r.passes, r.block_size, r.verify_mode)
  \/ AfterErasure
  \/ AfterCheck
  \/ \E p \in Patterns : VerifyCommand(p)
  \/ AfterVerification
  \/ CommandWork
  \/ LibraryCall
  \/ LibraryWork
  \/ ImageStep /\ UNCHANGED <<cpc, argv, exit>>
  \/ PowerLoss /\ cpc' = "none" /\ argv' = NoArgv /\ exit' = NoExit

CliSpec == CliInit /\ [][CliNext]_cvars

-----------------------------------------------------------------------------
(* What an exit code of 0 is worth. *)

\* A script that erases and goes by the exit code: the image is overwritten on
\* the disk with the pattern on the command line, as often as it asked, one to
\* MaxPasses times, or else once, and it still is after a verification that
\* the exit code says nothing of.
ExitZeroMeansErased ==
  exit' = 0 /\ cpc \in {"erase", "check"} =>
    /\ promise.sectors > 0
    /\ promise.pattern = argv.pattern
    /\ passes_completed = IF argv.passes \in 1 .. MaxPasses THEN argv.passes ELSE 1
    /\ \A s \in Sectors : s < promise.sectors => Wiped(s, argv.pattern)

\* Success means erased on the disk, whether the library's ERASECURE_OK or the
\* command's exit code reports it.
SuccessMeansErased == [][OkMeansDestroyed /\ ExitZeroMeansErased]_cvars

\* The sectors of the blocks a verification reads.
Sampled ==
  UNION {BlockSectors(b, vargs.block_size, vargs.size) :
           b \in {n \in 0 .. vresult.blocks_total - 1 :
                    n % SampleStep(vargs.mode, vresult.blocks_total) = 0}}

\* A script that verifies and goes by the exit code: every block of the sample
\* was read, the first one at least and no fewer than the sample size, and all
\* of it held the pattern when it was read, whatever happened to the rest.
ExitZeroMeansVerified ==
  [][cpc = "verify" /\ exit' = 0 =>
       /\ vresult.blocks_total > 0
       /\ \/ vresult.blocks_checked = vresult.blocks_total
          \/ vresult.blocks_checked >= SampleBlocks
       /\ \A s \in Sampled : cache[s] = argv.pattern \/ s \in changed]_cvars

\* The records agree with one another and with the image: a verdict beside a
\* result of sanitizer_run is about the erasure in it, and what was erased and
\* not written since passes whichever verification runs on it next.
ResultsAgree ==
  /\ CliTypeOK
  /\ VerdictIsOfThisErase
  /\ ErasedPasses
=============================================================================
