---------------------------- MODULE AhbAllocator ----------------------------
(***************************************************************************)
(* ahb_allocator.c: buffers for the GLES2 renderer, each of which owns an  *)
(* AHardwareBuffer and is on its allocator's list.  The list is            *)
(* libwayland's: doubly linked, circular, its head in the allocator, and   *)
(* wl_list_remove() leaves NULL in the links of what it removes.           *)
(*                                                                         *)
(* A wlr_buffer lives until wlroots drops it, before or after the          *)
(* allocator is destroyed; one that outlives it has lost its               *)
(* AHardwareBuffer and its place on the list.  All of this happens on the  *)
(* compositor thread.  The loop of allocator_destroy() is one step per     *)
(* iteration: what it does depends on the links it reads in turn.          *)
(***************************************************************************)
EXTENDS Integers, PixelFormats

CONSTANTS
  MaxBuffers,   \* bound: buffers alive at once
  Formats       \* the DRM formats wlroots asks for

ASSUME AhbAllocatorAssumption == MaxBuffers \in Nat

Buffers == 1 .. MaxBuffers
ListHead == 0                \* wlr_ahb_allocator.buffers
NULL == -1
Nodes == Buffers \cup {ListHead}

VARIABLES
  allocator,    \* is there an allocator?
  next, prev,   \* the links of the head and of every buffer
  buffers,      \* the wlr_buffers that exist
  ahb,          \* ahb[b]: is buffer->ahb set?
  asked,        \* asked[b]: the format wlroots asked for
  format,       \* format[b]: that of the AHardwareBuffer
  refs,         \* refs[b]: what Android counts, allocated less released
  locks,        \* locks[b]: locked less unlocked
  mapped,       \* the buffer under begin_data_ptr_access(), or ListHead
  loop,         \* allocator_destroy(): buf and tmp; NULL outside of it
  outlived,     \* the buffers that existed when their allocator was destroyed
  crash         \* "no", or what read through a NULL link

links == <<next, prev>>
handles == <<ahb, asked, format, refs>>
access == <<locks, mapped>>
ahbVars == <<allocator, links, buffers, handles, access, loop, outlived, crash>>

AhbTypeOK ==
  /\ allocator \in BOOLEAN
  /\ next \in [Nodes -> Nodes \cup {NULL}] /\ prev \in [Nodes -> Nodes \cup {NULL}]
  /\ buffers \subseteq Buffers
  /\ ahb \in [Buffers -> BOOLEAN]
  /\ asked \in [Buffers -> Formats \cup {Unknown}]
  /\ format \in [Buffers -> AndroidFormats \cup {Unknown}]
  /\ refs \in [Buffers -> 0 .. 1] /\ locks \in [Buffers -> 0 .. 1]
  /\ mapped \in Nodes
  /\ loop \in [buf : Nodes \cup {NULL}, tmp : Nodes \cup {NULL}]
  /\ outlived \subseteq buffers
  /\ crash \in {"no", "list", "listener"}

NoLoop == [buf |-> NULL, tmp |-> NULL]

AhbInit ==
  /\ allocator = FALSE
  /\ next = [n \in Nodes |-> NULL] /\ prev = [n \in Nodes |-> NULL]
  /\ buffers = {}
  /\ ahb = [b \in Buffers |-> FALSE]
  /\ asked = [b \in Buffers |-> Unknown]
  /\ format = [b \in Buffers |-> Unknown]
  /\ refs = [b \in Buffers |-> 0] /\ locks = [b \in Buffers |-> 0]
  /\ mapped = ListHead
  /\ loop = NoLoop
  /\ outlived = {}
  /\ crash = "no"

(* libwayland (external) *)
wl_list_init(n) ==
  /\ next' = [next EXCEPT ![n] = n]
  /\ prev' = [prev EXCEPT ![n] = n]

wl_list_insert(n, e) ==
  /\ next' = [next EXCEPT ![n] = e, ![e] = next[n]]
  /\ prev' = [prev EXCEPT ![e] = n, ![next[n]] = e]

wl_list_remove(e) ==
  IF NULL \in {next[e], prev[e]}
  THEN crash' = "list" /\ UNCHANGED links
  ELSE /\ next' = [[next EXCEPT ![prev[e]] = next[e]] EXCEPT ![e] = NULL]
       /\ prev' = [[prev EXCEPT ![next[e]] = prev[e]] EXCEPT ![e] = NULL]
       /\ UNCHANGED crash

(* AHardwareBuffer_release(); buffer->ahb is NULL or freed afterwards. *)
Forget(b) ==
  /\ ahb' = [ahb EXCEPT ![b] = FALSE]
  /\ asked' = [asked EXCEPT ![b] = Unknown]
  /\ format' = [format EXCEPT ![b] = Unknown]

-----------------------------------------------------------------------------
(* Faulty variants of the definitions below, to see that the properties    *)
(* notice the mistakes they are about.                                     *)

ReleaseAnyway(b) ==      \* no test of buffer->ahb
  /\ Forget(b)
  /\ refs' = [refs EXCEPT ![b] = @ - 1]

ReleaseNever(b) ==       \* left to whoever still has the buffer
  /\ Forget(b)
  /\ UNCHANGED refs

DestroyListed(b) ==      \* buffer_destroy() without wl_list_remove()
  /\ b \in buffers
  /\ ReleaseNever(b)
  /\ buffers' = buffers \ {b}
  /\ outlived' = outlived \ {b}
  /\ UNCHANGED <<allocator, links, crash, access, loop>>

RgbaInstead(f) ==        \* RGBA, not RGBX, for what Android does not have
  IF drm_to_android_format(f) = Unknown
  THEN "R8G8B8A8_UNORM"
  ELSE drm_to_android_format(f)

-----------------------------------------------------------------------------
MayRun == crash = "no" /\ loop = NoLoop /\ mapped = ListHead

wlr_ahb_allocator_create ==
  /\ MayRun
  /\ ~allocator
  /\ allocator' = TRUE
  /\ wl_list_init(ListHead)
  /\ UNCHANGED <<buffers, handles, access, loop, outlived, crash>>

(* The format of the AHardwareBuffer: RGBX if Android has none for f. *)
AllocatedAs(f) ==
  IF drm_to_android_format(f) = Unknown
  THEN "R8G8B8X8_UNORM"
  ELSE drm_to_android_format(f)

(* If calloc() or AHardwareBuffer_allocate() fails, nothing has changed. *)
create_buffer(b, f) ==
  /\ MayRun
  /\ allocator
  /\ b \notin buffers
  /\ buffers' = buffers \cup {b}
  /\ ahb' = [ahb EXCEPT ![b] = TRUE]
  /\ refs' = [refs EXCEPT ![b] = @ + 1]
  /\ asked' = [asked EXCEPT ![b] = f]
  /\ format' = [format EXCEPT ![b] = AllocatedAs(f)]
  /\ wl_list_insert(ListHead, b)
  /\ UNCHANGED <<allocator, access, loop, outlived, crash>>

Release(b) ==
  /\ Forget(b)
  /\ refs' = [refs EXCEPT ![b] = IF ahb[b] THEN @ - 1 ELSE @]

(* wlroots has dropped the last reference to the buffer. *)
buffer_destroy(b) ==
  /\ MayRun
  /\ b \in buffers
  /\ Release(b)
  /\ wl_list_remove(b)
  /\ buffers' = buffers \ {b}
  /\ outlived' = outlived \ {b}
  /\ UNCHANGED <<allocator, access, loop>>

(* AHardwareBuffer_lock() may fail, as it does for NULL; then the caller   *)
(* makes no use of the buffer.                                             *)
buffer_begin_data_ptr_access(b) ==
  /\ MayRun
  /\ b \in buffers
  /\ \/ /\ ahb[b]
        /\ mapped' = b
        /\ locks' = [locks EXCEPT ![b] = @ + 1]
     \/ UNCHANGED access
  /\ UNCHANGED <<allocator, links, buffers, handles, loop, outlived, crash>>

buffer_end_data_ptr_access ==
  /\ crash = "no"
  /\ mapped # ListHead
  /\ locks' = [locks EXCEPT ![mapped] = @ - 1]
  /\ mapped' = ListHead
  /\ UNCHANGED <<allocator, links, buffers, handles, loop, outlived, crash>>

(* allocator_destroy(): the loop over the list, then free(alloc). *)
Following(n) == [buf |-> n, tmp |-> next'[n]]

DestroyBegin ==
  /\ MayRun
  /\ allocator
  /\ UNCHANGED <<allocator, links, buffers, handles, access, outlived, crash>>
  /\ loop' = Following(next[ListHead])

DestroyNext ==
  /\ crash = "no"
  /\ loop.buf \in Buffers
  /\ Release(loop.buf)
  /\ wl_list_remove(loop.buf)
  /\ loop' = IF crash' = "no" THEN Following(loop.tmp) ELSE loop
  /\ UNCHANGED <<allocator, buffers, access, outlived>>

DestroyEnd ==
  /\ crash = "no"
  /\ loop.buf = ListHead
  /\ loop' = NoLoop
  /\ allocator' = FALSE
  /\ next' = [next EXCEPT ![ListHead] = NULL]
  /\ prev' = [prev EXCEPT ![ListHead] = NULL]
  /\ outlived' = buffers
  /\ UNCHANGED <<buffers, handles, access, crash>>

allocator_destroy == DestroyBegin \/ DestroyNext \/ DestroyEnd

(* attribs->stride[0] = desc.stride * 4;  *stride = desc.stride * 4;       *)
BytesPerPixel(b) == 4

-----------------------------------------------------------------------------
Listed == {b \in buffers : ahb[b]} \cup {ListHead}

(* Whoever follows the links from the head stays in S. *)
Closed(S) == ListHead \in S /\ \A n \in S : next[n] \in S

(* Line 21 of ahb_allocator.h: the list holds the buffers that have an     *)
(* AHardwareBuffer, all of them and nothing else: its links stay among     *)
(* them and are each other's inverse, and no smaller set is closed.  It is *)
(* whole at every iteration of the loop that empties it.                   *)
ListHoldsBuffers ==
  allocator /\ crash = "no" =>
    /\ Closed(Listed)
    /\ \A n \in Listed :
         prev[n] \in Listed /\ prev[next[n]] = n /\ next[prev[n]] = n
    /\ \A S \in SUBSET Listed : Closed(S) => S = Listed

(* Every AHardwareBuffer that was allocated is released once, by the       *)
(* buffer or by its allocator, whichever goes first, and is not left       *)
(* locked for the CPU.                                                     *)
HandlesBalanced ==
  \A b \in Buffers :
    /\ refs[b] = IF b \in buffers /\ ahb[b] THEN 1 ELSE 0
    /\ locks[b] = IF b = mapped THEN 1 ELSE 0

(* What get_dmabuf() and begin_data_ptr_access() say of a buffer's pixels: *)
(* the format reported is the one that was allocated, and has alpha if the *)
(* one asked for has.  What Android does not know is drawn opaque (lines   *)
(* 56 and 57).                                                             *)
FormatAgrees ==
  \A b \in buffers : ahb[b] =>
    LET reported == android_to_drm_format(format[b])
    IN  /\ drm_to_android_format(reported) = format[b]
        /\ HasAlpha(reported) <=> asked[b] \in DrmFormats /\ HasAlpha(asked[b])

(* Lines 127 and 156, "stride in bytes": a line of as many pixels as       *)
(* Android says has as many bytes as the buffer reports.                   *)
StrideInBytes ==
  \A b \in buffers : ahb[b] => BytesPerPixel(b) = BytesOf(format[b])
=============================================================================
