------------------------------- MODULE WppRows --------------------------------
(***************************************************************************)
(* Wavefront decoding of a slice on the slice-threading pool: job r of an  *)
(* execute2() call is hls_decode_entry_wpp() on CTB row r (hevc.c), and    *)
(* rows wait for one another with the counters of pthread_slice.c:         *)
(* entries[r] counts the CTBs row r has reported, plus SHIFT_CTB_WPP when  *)
(* the row is over, and row r goes on only while the row above is          *)
(* SHIFT_CTB_WPP ahead of it.                                              *)
(*                                                                         *)
(* A worker that executes a job ("run" in SliceThreads) goes through the   *)
(* steps of the row below; RunJob goes with its return.  A row's           *)
(* counter is read and written under the progress mutex of the thread      *)
(* (row modulo the number of threads) it was assigned to, so that          *)
(* ff_thread_report_progress2() is one step and one turn of the loop in    *)
(* ff_thread_await_progress2() is one step.  The pixels, and the loop      *)
(* filters that follow a CTB, are left out.                                *)
(*                                                                         *)
(* The counters are allocated once, for the rows of the first slice that   *)
(* has several.  A later slice with more rows goes on past their end       *)
(* ("overrun"): there memory is not reset, and may hold anything.          *)
(***************************************************************************)
EXTENDS SliceThreads

CONSTANTS
  Cols,         \* CTBs in a row
  CorruptRows,  \* rows whose entry point does not lie in the NAL unit
  Leftover,     \* what the memory past the counters may hold
  AllocMayFail  \* ff_alloc_entries() may fail

ASSUME ColsAssumption == Cols \in Nat /\ Cols >= 2
ASSUME EntriesAssumption == Leftover \subseteq Int /\ AllocMayFail \in BOOLEAN

VARIABLES
  row,       \* row[w]: where worker w is in its row
  pic,       \* pic[r]: CTBs of row r that are in the picture
  more,      \* more[w]: more_data of its last CTB
  entries,   \* SliceThreadContext.entries, and the memory after it
  entries_count,   \* SliceThreadContext.entries_count; 0: there are no counters
  wpp_err,   \* HEVCContext.wpp_err
  cabac,     \* the row whose contexts s->cabac_state holds; -1: none
  overrun    \* history: a slice has had more rows than there are counters

progress == <<entries, entries_count, overrun>>
rowVars == <<row, pic, more, progress, wpp_err, cabac>>
wppVars == <<vars, rowVars>>

Shift == 2                                       \* SHIFT_CTB_WPP
Rows == AllJobs
Col(w) == pic[our_job[w]]                        \* CTBs decoded in w's row
Corrupt == CorruptRows \ {0}
ThreadOf(r) == r % thread_count
LastRow == job_count - 1                         \* num_entry_point_offsets

WppInit ==
  /\ Init
  /\ row = [w \in Workers |-> "start"]
  /\ pic = [r \in Rows |-> 0]
  /\ more = [w \in Workers |-> TRUE]
  /\ entries = [r \in Rows |-> 0] /\ entries_count = 0
  /\ wpp_err = FALSE
  /\ cabac = -1
  /\ overrun = FALSE

-------------------------------------------------------------------------------
(***************************************************************************)
(* ff_thread_report_progress2(), ff_thread_await_progress2()               *)
(***************************************************************************)
Sleeping(t) == {v \in Workers : row[v] = "sleep" /\ ThreadOf(our_job[v] - 1) = t}

\* Worker w goes to `next` having reported n more for its row; the signal
\* wakes one of the rows that sleep on the condition of the row's thread.
Report(w, n, next) ==
  LET r == our_job[w]
  IN /\ entries_count > 0
     /\ entries' = [entries EXCEPT ![r] = @ + n]
     /\ UNCHANGED <<entries_count, overrun>>
     /\ \/ /\ Sleeping(ThreadOf(r)) = {}
           /\ row' = [row EXCEPT ![w] = next]
        \/ \E v \in Sleeping(ThreadOf(r)) :
             row' = [row EXCEPT ![w] = next, ![v] = "await"]

\* Without counters the report goes through a null pointer: the program is gone.
Crash(w) ==
  /\ pc[w] = "run" /\ row[w] \in {"decoded", "over"} /\ entries_count = 0
  /\ row' = [row EXCEPT ![w] = "crashed"]
  /\ UNCHANGED <<vars, pic, more, progress, wpp_err, cabac>>

\* Variant: wait for one CTB of the row above only.
AheadByOne(r) == r = 0 \/ entries_count = 0 \/ entries[r - 1] - entries[r] >= 1

RowAboveIsAhead(r) == r = 0 \/ entries_count = 0 \/ entries[r - 1] - entries[r] >= Shift

Await(w) ==
  /\ pc[w] = "run"
  /\ \/ row[w] = "await"
     \/ row[w] = "start" /\ our_job[w] \notin Corrupt
  /\ row' = [row EXCEPT ![w] = IF RowAboveIsAhead(our_job[w]) THEN "check" ELSE "sleep"]
  /\ UNCHANGED <<vars, pic, more, progress, wpp_err, cabac>>

SpuriousRow(w) ==
  /\ row[w] = "sleep"
  /\ row' = [row EXCEPT ![w] = "await"]
  /\ UNCHANGED <<vars, pic, more, progress, wpp_err, cabac>>

-------------------------------------------------------------------------------
(***************************************************************************)
(* hls_decode_entry_wpp()                                                  *)
(***************************************************************************)

\* The bit reader of every row but the first is set up from the slice's entry
\* points; when that fails the row returns at once and reports nothing.
SkipRow(w) ==
  /\ row[w] = "start" /\ our_job[w] \in Corrupt
  /\ RunJob(w)
  /\ UNCHANGED rowVars

\* Variant: wpp_err is not tested.
CheckNothing(w) ==
  /\ pc[w] = "run" /\ row[w] = "check"
  /\ row' = [row EXCEPT ![w] = "decode"]
  /\ UNCHANGED <<vars, pic, more, progress, wpp_err, cabac>>

CheckError(w) ==
  /\ pc[w] = "run" /\ row[w] = "check"
  /\ row' = [row EXCEPT ![w] = IF wpp_err THEN "over" ELSE "decode"]
  /\ UNCHANGED <<vars, pic, more, progress, wpp_err, cabac>>

\* ff_hevc_save_states() after n CTBs of a row.
SavesContexts(n) == n = 2

\* One CTB: decoded with or without more data to follow.  The second one of a
\* row leaves the CABAC contexts for the row below.
Decode(w) ==
  /\ pc[w] = "run" /\ row[w] = "decode"
  /\ more' = [more EXCEPT ![w] = TRUE] \/ more' = [more EXCEPT ![w] = FALSE]
  /\ pic' = [pic EXCEPT ![our_job[w]] = @ + 1]
  /\ cabac' = IF SavesContexts(Col(w) + 1) THEN our_job[w] ELSE cabac
  /\ row' = [row EXCEPT ![w] = "decoded"]
  /\ UNCHANGED <<vars, progress, wpp_err>>

\* hls_coding_quadtree() failed.
DecodeFails(w) ==
  /\ pc[w] = "run" /\ row[w] = "decode"
  /\ wpp_err' = TRUE
  /\ row' = [row EXCEPT ![w] = "over"]
  /\ UNCHANGED <<vars, pic, more, progress, cabac>>

Truncated(w) == ~more[w] /\ Col(w) < Cols /\ our_job[w] # LastRow

\* Report the CTB, then go on with the next one if there is one.
ReportCtb(w) ==
  /\ pc[w] = "run" /\ row[w] = "decoded"
  /\ \/ Truncated(w) /\ Report(w, 1, "truncated")
     \/ more[w] /\ Col(w) < Cols /\ Report(w, 1, "await")
     \/ ~Truncated(w) /\ ~(more[w] /\ Col(w) < Cols) /\ Report(w, 1, "over")
  /\ UNCHANGED <<vars, pic, more, wpp_err, cabac>>

TruncatedRow(w) ==
  /\ pc[w] = "run" /\ row[w] = "truncated"
  /\ wpp_err' = TRUE
  /\ row' = [row EXCEPT ![w] = "over"]
  /\ UNCHANGED <<vars, pic, more, progress, cabac>>

Return(w) == RunJob(w) /\ more' = [more EXCEPT ![w] = TRUE]

\* Every later return is preceded by a report of SHIFT_CTB_WPP.
EndRow(w) ==
  /\ row[w] = "over"
  /\ Report(w, Shift, "start")
  /\ Return(w)
  /\ UNCHANGED <<pic, wpp_err, cabac>>

-------------------------------------------------------------------------------
(***************************************************************************)
(* hls_slice_data_wpp()                                                    *)
(***************************************************************************)
\* ff_alloc_entries() for the first of these slices; its result is not looked at.
AllocEntries(n) ==
  IF entries_count = 0
    THEN entries_count' = n \/ (AllocMayFail /\ entries_count' = 0)
    ELSE UNCHANGED entries_count

\* Variant: the counters are not reset.
ResetNothing(n) == {entries}

\* ff_reset_entries(); the rows of a slice of n that have no counter find anything.
ResetEntries(n) ==
  {e \in [Rows -> {0} \cup Leftover] :
     \A r \in Rows : IF r \in entries_count' .. (n - 1) THEN e[r] \in Leftover ELSE e[r] = 0}

\* A slice with n - 1 entry points (without any it is no job for this function):
\* reset the error and the counters (the picture has none of the slice's CTBs
\* yet), then run the rows on the pool.
DecodeSlice(n) ==
  /\ n > 1
  /\ Execute(n)
  /\ AllocEntries(n)
  /\ wpp_err' = FALSE
  /\ entries' \in ResetEntries(n)
  /\ overrun' = (overrun \/ n > entries_count')
  /\ pic' = [r \in Rows |-> 0]
  /\ UNCHANGED <<row, more, cabac>>

-------------------------------------------------------------------------------
Alive == \A w \in Workers : row[w] # "crashed"

Row(w) ==
  /\ Alive
  /\ \/ SkipRow(w)
     \/ Await(w)
     \/ CheckError(w)
     \/ Decode(w)
     \/ DecodeFails(w)
     \/ ReportCtb(w)
     \/ TruncatedRow(w)
     \/ EndRow(w)
     \/ Crash(w)

PoolWorker(w) ==
  /\ Alive
  /\ WorkerEnter(w) \/ WorkerRegister(w) \/ CountJob(w) \/ Recheck(w)
  /\ UNCHANGED rowVars

PoolMain ==
  /\ Alive
  /\ CreateWorker \/ CreateFails \/ InitPark \/ MainWoken \/ Free \/ Joined
  /\ UNCHANGED rowVars

Spurious ==
  /\ Alive
  /\ \/ (SpuriousMain \/ \E w \in Workers : SpuriousWorker(w)) /\ UNCHANGED rowVars
     \/ \E w \in Workers : SpuriousRow(w)

WppNext ==
  \/ \E w \in Workers : Row(w) \/ PoolWorker(w)
  \/ \E n \in JobCounts : DecodeSlice(n)
  \/ PoolMain
  \/ Spurious
  \/ Terminated /\ UNCHANGED rowVars
  \/ ~Alive /\ UNCHANGED wppVars

\* Threads that can step do, as in SliceThreads; a spurious wakeup is not owed.
WppSpec ==
  /\ WppInit /\ [][WppNext]_wppVars
  /\ \A w \in Workers : WF_wppVars(Row(w) \/ PoolWorker(w))
  /\ WF_wppVars((CreateWorker \/ CreateFails \/ InitPark) /\ UNCHANGED rowVars)
  /\ WF_wppVars(Alive /\ MainWoken /\ UNCHANGED rowVars)
  /\ WF_wppVars(main = "freeing" /\ Free /\ UNCHANGED rowVars)
  /\ WF_wppVars(Joined /\ UNCHANGED rowVars)

-------------------------------------------------------------------------------
(***************************************************************************)
(* Properties                                                              *)
(***************************************************************************)

\* Nothing is said of the rows any more once a slice has had more of them than there
\* are counters.

\* A CTB is decoded only when the row above has decoded it, its right
\* neighbour (or its whole line): rows that end early, on an error or because
\* another row had one, raise their counter without having decoded anything,
\* and must then have raised wpp_err first (hls_decode_entry_wpp).
Wavefront ==
  overrun \/ \A w \in Workers :
    row[w] = "decode" /\ our_job[w] > 0 =>
      pic[our_job[w] - 1] >= Col(w) + 2 \/ pic[our_job[w] - 1] = Cols

\* A row starts from the CABAC contexts the row above left after its second
\* CTB, although there is one buffer for all rows (ff_hevc_save_states,
\* load_states in ff_hevc_cabac_init).
RowInheritsContexts ==
  overrun \/ \A w \in Workers :
    row[w] = "decode" /\ Col(w) = 0 /\ our_job[w] > 0 => cabac = our_job[w] - 1

\* execute2() returns to the slice decoder, although rows wait for one another on the
\* pool's own threads and workers sleep through whole slices: the rows above a waiting
\* row are with workers that go on, and every one of them reports its end.
SliceReturns == main \in {"parked", "woken"} ~> main = "idle" \/ overrun

-------------------------------------------------------------------------------
(***************************************************************************)
(* The inductive invariant behind Wavefront and RowInheritsContexts.       *)
(***************************************************************************)
RowsTypeOK ==
  /\ row \in [Workers -> {"start", "await", "sleep", "check", "decode", "decoded",
                          "truncated", "over"}]
  /\ pic \in [Rows -> 0 .. Cols]
  /\ more \in [Workers -> BOOLEAN]
  /\ entries \in [Rows -> Nat]
  /\ wpp_err \in BOOLEAN

\* Every row of the slice has a counter.
InvEntries == ~overrun /\ entries_count \in Nat /\ job_count <= entries_count

Untouched(r) == pic[r] = 0 /\ entries[r] = 0

\* Row r is over and, unless it is the last one, whole or known to be broken.
RowEnded(r) == pic[r] = Cols \/ wpp_err \/ r = LastRow

\* A row's counter follows the picture until the row is over.
InvRow(w) ==
  LET r == our_job[w]
  IN /\ row[w] # "start" => pc[w] = "run"
     /\ pc[w] = "run" /\ row[w] = "start" => Untouched(r)
     /\ row[w] \in {"await", "sleep", "check", "decode"} =>
          entries[r] = pic[r] /\ pic[r] < Cols
     /\ row[w] = "check" => RowAboveIsAhead(r)
     /\ row[w] = "decoded" => entries[r] = pic[r] - 1
     /\ row[w] = "truncated" => entries[r] = pic[r]
     /\ row[w] = "over" => entries[r] <= pic[r] /\ RowEnded(r)

InvRows == \A w \in Workers : InvRow(w)

\* Only a row that has ended counts CTBs it has not decoded.
InvCounters ==
  /\ \A r \in Todo : Untouched(r)
  /\ \A r \in Rows :
       \/ entries[r] <= pic[r]
       \/ entries[r] <= pic[r] + Shift /\ RowEnded(r)

\* Rows are begun in order; the contexts are those of the last row that is far
\* enough.
InvContexts ==
  /\ \A x, y \in Rows : x < y /\ pic[y] > 0 => pic[x] >= 2
  /\ \A x \in Rows :
       pic[x] >= 2 /\ (x + 1 \in Rows => pic[x + 1] < 2) => cabac = x

WppInv == RowsTypeOK /\ InvEntries /\ InvRows /\ InvCounters /\ InvContexts /\ Wavefront

\* It holds until a slice has more rows than there are counters.
RowsInv == overrun \/ WppInv
===============================================================================
