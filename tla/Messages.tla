------------------------------ MODULE Messages ------------------------------
(***************************************************************************)
(* What the host and the firmware tell each other: the commands that       *)
(* `proto.rs` encodes from the arguments of a call, what the driver and    *)
(* the firmware make of them, and what the call makes of the bytes it gets *)
(* back.                                                                   *)
(*                                                                         *)
(* A message is a number of bytes and fields at some of their offsets, each*)
(* with its width.  What is read where no field of that width begins is    *)
(* Garbled.  A response may be cut off anywhere.  One call is modelled;    *)
(* tags, queues and waits are the subject of DeviceCommands, the memory    *)
(* that arguments and transfers use that of DeviceMemory and Staging.      *)
(***************************************************************************)
EXTENDS Integers, Sequences, FiniteSetsExt

CONSTANTS
  U16Max, U32Max,   \* the largest values of those types, scaled down
  CacheLine,        \* size of a cache line
  DmaLimits,        \* devices: [elem, count, message] of their DMA and queues
  TransferLengths,  \* bound: lengths of transfers
  TraceRegions,     \* bound: sizes of the region a trace goes to
  Statuses,         \* bound: status codes of the firmware
  Cuts,             \* bound: lengths of responses
  Absent,           \* Option::None
  Garbled

ASSUME MessagesAssumption ==
  /\ {U16Max, U32Max, CacheLine} \subseteq Nat \ {0}
  /\ U16Max >= 88   \* the largest launch
  /\ CacheLine <= U32Max
  /\ DmaLimits \subseteq [elem : Nat, count : Nat, message : Nat]
  /\ TransferLengths \subseteq Nat \ {0} /\ TraceRegions \subseteq Nat
  /\ Statuses \subseteq Nat /\ Cuts \subseteq Nat
ASSUME AbsentAssumption == Absent \notin Nat

VARIABLES
  limits,     \* the device's DMA and queue limits
  call,       \* the call and its arguments
  phase,      \* "pushing", "waiting" or "returned"
  offset,     \* how much of a transfer has been pushed
  queue,      \* commands the firmware has yet to take
  received,   \* what the firmware has understood of each command, <<>> if nothing
  response,   \* the response on its way to the call, or <<>>
  last,       \* the response collected last, or <<>>
  result      \* what the call has returned

messageVars == <<limits, call, phase, offset, queue, received, response, last, result>>
-----------------------------------------------------------------------------
(***************************************************************************)
(* Messages.                                                               *)
(***************************************************************************)
F(width, value) ==
  [bytes |-> width, fields |-> [off \in {0} |-> [width |-> width, value |-> value]]]

\* `extend_from_slice`
m ++ n ==
  [bytes |-> m.bytes + n.bytes,
   fields |-> [off \in DOMAIN m.fields \cup {m.bytes + o : o \in DOMAIN n.fields} |->
                 IF off < m.bytes THEN m.fields[off] ELSE n.fields[off - m.bytes]]]
Empty == [bytes |-> 0, fields |-> [off \in {} |-> Garbled]]

\* What a reader finds at an offset.
At(msg, off, width) ==
  IF off \in DOMAIN msg.fields /\ msg.fields[off].width = width
  THEN msg.fields[off].value ELSE Garbled

CMN_HEADER_SIZE == 8
NodeSize == 32

\* `put_header`; flag bits are a set, and the tag is DeviceCommands' concern.
Header(size, id, flags) == F(2, size) ++ F(2, "tag") ++ F(2, id) ++ F(2, flags)

\* The size is that of the whole command.
Command(id, flags, body) == Header(CMN_HEADER_SIZE + body.bytes, id, flags) ++ body

\* `command_size` panics where this fails.
Encodable(cmd) == cmd.bytes <= U16Max
-----------------------------------------------------------------------------
(***************************************************************************)
(* Launches.                                                               *)
(***************************************************************************)

\* `TraceConfig::full` clamps the size to the lines that 32 bits can count.
FullSize(region) == Min({region, (U32Max \div CacheLine) * CacheLine})
Full(region) ==
  [buffer |-> "trace", size |-> FullSize(region), threshold |-> "zero",
   shires |-> "traced", threads |-> "all", events |-> "all", filters |-> "all"]

\* `LaunchOptions::new` and what callers may set; a trace is named by the size
\* of its region.
NewOptions(mask) ==
  [mask |-> mask, barrier |-> TRUE, flush |-> FALSE, trace |-> Absent, args |-> "none",
   stack |-> Absent, exception |-> "null"]
AnyOptions ==
  [mask : {"own"}, barrier : BOOLEAN, flush : BOOLEAN,
   trace : {Absent} \cup TraceRegions,
   args : {"none", "blob"}, stack : {Absent, "stack"}, exception : {"null", "exception"}]
WithArgs(opts, args) == [opts EXCEPT !.args = args]
WithTrace(opts, trace) == [opts EXCEPT !.trace = trace]

Untraced == {"launch", "launch_spmd_opts"}
LaunchCalls ==
  [kind : {"launch"}, entry : Untraced, opts : AnyOptions, trace : {Absent}]
    \cup [kind : {"launch"}, entry : {"launch_spmd_traced_opts"}, opts : AnyOptions,
          trace : TraceRegions]
    \cup [kind : {"launch"}, entry : {"launch_spmd"}, opts : {Absent}, trace : {Absent}]
    \cup [kind : {"launch"}, entry : {"launch_spmd_traced"}, opts : {Absent},
          trace : TraceRegions]

\* The options each entry point launches with: those of `_opts` take the mask
\* from the caller's options and overwrite their arguments and trace.
Options(c) ==
  CASE c.entry = "launch" -> c.opts
    [] c.entry = "launch_spmd" -> WithArgs(NewOptions("given"), "args")
    [] c.entry = "launch_spmd_traced" ->
         WithTrace(WithArgs(NewOptions("given"), "args"), c.trace)
    [] c.entry = "launch_spmd_opts" -> WithArgs(c.opts, "args")
    [] c.entry = "launch_spmd_traced_opts" -> WithTrace(WithArgs(c.opts, "args"), c.trace)

LaunchFlags(opts) ==
  (IF opts.barrier THEN {"barrier"} ELSE {})
    \cup (IF opts.flush THEN {"flush_l3"} ELSE {})
    \cup (IF opts.trace # Absent THEN {"trace"} ELSE {})
    \cup (IF opts.stack # Absent THEN {"stack"} ELSE {})

\* `TraceInitInfo` and `UserStackCfg`
TraceFields(t) ==
  F(8, t.buffer) ++ F(4, t.size) ++ F(4, t.threshold) ++ F(8, t.shires) ++ F(8, t.threads)
    ++ F(4, t.events) ++ F(4, t.filters)
StackFields(s) == F(4, <<s, "base">>) ++ F(4, <<s, "size">>)

\* Variant: the stack's configuration precedes the trace's.
PayloadStackFirst(opts) ==
  (IF opts.stack = Absent THEN Empty ELSE StackFields(opts.stack))
    ++ (IF opts.trace = Absent THEN Empty ELSE TraceFields(Full(opts.trace)))
Payload(opts) ==
  (IF opts.trace = Absent THEN Empty ELSE TraceFields(Full(opts.trace)))
    ++ (IF opts.stack = Absent THEN Empty ELSE StackFields(opts.stack))

\* `build_kernel_launch`; arguments go by the address of their slot.
BuildKernelLaunch(opts) ==
  Command("kernel_launch", LaunchFlags(opts),
          F(8, "entry") ++ F(8, IF opts.args = "none" THEN "null" ELSE opts.args)
            ++ F(8, opts.exception) ++ F(8, opts.mask) ++ Payload(opts))
-----------------------------------------------------------------------------
(***************************************************************************)
(* Transfers and resets.                                                   *)
(***************************************************************************)
HostBase == 1000
PhysBase(c) == IF c.phys THEN 2000 ELSE 0
DeviceBase == 3000

TransferCalls ==
  [kind : {"dma"}, id : {"dma_readlist", "dma_writelist"}, len : TransferLengths,
   phys : BOOLEAN]
ResetCalls == {[kind |-> "cm_reset"], [kind |-> "etsoc_reset"]}

AtLeastOne(n) == IF n = 0 THEN 1 ELSE n

ByField == (U16Max - CMN_HEADER_SIZE) \div NodeSize
ByMessage ==
  IF limits.message < CMN_HEADER_SIZE THEN 0
  ELSE (limits.message - CMN_HEADER_SIZE) \div NodeSize

\* Variant: only the device's own limit counts.
MaxListNodesOfDevice == AtLeastOne(limits.count)
\* `max_list_nodes`
MaxListNodes == AtLeastOne(Min({limits.count, ByField, ByMessage}))
MaxElem == AtLeastOne(limits.elem)

\* `node_phys`: zero leaves the address to the driver.
NodePhys(base, at) == IF base = 0 THEN 0 ELSE base + at

Rest == call.len - offset
NodeAt(k) == offset + (k - 1) * MaxElem
\* Variant: a node is as large as the device takes.
NodeBytesFull(k) == MaxElem
NodeBytes(k) == Min({MaxElem, call.len - NodeAt(k)})

\* `DmaReadNode` and `DmaWriteNode`
NodeFields(k) ==
  F(8, HostBase + NodeAt(k)) ++ F(8, NodePhys(PhysBase(call), NodeAt(k)))
    ++ F(8, DeviceBase + NodeAt(k)) ++ F(4, NodeBytes(k)) ++ F(4, "pad")

\* The nodes, one behind the other.
List(nodes) ==
  [bytes |-> NodeSize * Len(nodes),
   fields |-> [off \in UNION {{NodeSize * (k - 1) + o : o \in DOMAIN nodes[k].fields} :
                               k \in DOMAIN nodes} |->
                 nodes[off \div NodeSize + 1].fields[off % NodeSize]]]

\* As many nodes as the rest needs and a command may have.
NumNodes == Min({MaxListNodes, (Rest + MaxElem - 1) \div MaxElem})
BuildDmaList ==
  Command(call.id, {"barrier"}, List([k \in 1 .. NumNodes |-> NodeFields(k)]))

BuildCmReset == Command("cm_reset", {"barrier"}, F(8, "shires"))
BuildEtsocReset == Command("etsoc_reset", {}, F(8, "zero"))
-----------------------------------------------------------------------------
Returned(outcome) ==
  [outcome |-> outcome, status |-> Absent, name |-> Absent, detail |-> Absent,
   timing |-> Absent]

MessagesInit ==
  /\ limits \in DmaLimits
  /\ call \in LaunchCalls \cup TransferCalls \cup ResetCalls
  /\ phase = "pushing"
  /\ offset = 0
  /\ queue = <<>> /\ received = <<>>
  /\ response = <<>> /\ last = <<>>
  /\ result = Returned("nothing yet")

\* The driver takes a command of a kind that user space may push, if it fits a
\* message of the submission queue.
Accepted(cmd, desc) == cmd.bytes <= limits.message /\ "mm_reset" \notin desc

\* `push_cmd` with the flags of the command's descriptor; the call waits next,
\* or goes on with the transfer, or returns.
PushCmd(cmd, desc, next) ==
  IF ~Encodable(cmd)
  THEN phase' = "returned" /\ result' = Returned("panic") /\ UNCHANGED queue
  ELSE IF ~Accepted(cmd, desc)
  THEN phase' = "returned" /\ result' = Returned("io") /\ UNCHANGED queue
  ELSE /\ queue' = Append(queue, [bytes |-> cmd, desc |-> desc])
       /\ phase' = next
       /\ result' = IF next = "returned" THEN Returned("ok") ELSE result

\* `launch_async`
Launch ==
  /\ phase = "pushing" /\ call.kind = "launch"
  /\ PushCmd(BuildKernelLaunch(Options(call)), {}, "waiting")
  /\ UNCHANGED <<limits, call, offset, received, response, last>>

\* `push_dma_read_staged`, `push_dma_write_staged`: a command and its nodes.
PushDmaList ==
  /\ phase = "pushing" /\ call.kind = "dma"
  /\ PushCmd(BuildDmaList, {"dma"},
             IF Rest <= NumNodes * MaxElem THEN "waiting" ELSE "pushing")
  /\ offset' = Min({call.len, offset + NumNodes * MaxElem})
  /\ UNCHANGED <<limits, call, received, response, last>>

\* `reset_shires`, by way of the high-priority queue.
ResetShires ==
  /\ phase = "pushing" /\ call.kind = "cm_reset"
  /\ PushCmd(BuildCmReset, {"high_priority"}, "waiting")
  /\ UNCHANGED <<limits, call, offset, received, response, last>>

\* `reset_device`, which expects no response.
ResetDevice ==
  /\ phase = "pushing" /\ call.kind = "etsoc_reset"
  /\ PushCmd(BuildEtsocReset, {"etsoc_reset"}, "returned")
  /\ UNCHANGED <<limits, call, offset, received, response, last>>
-----------------------------------------------------------------------------
(***************************************************************************)
(* The firmware.                                                           *)
(***************************************************************************)
Traced(flags) == "trace" \in flags

ReadLaunch(msg) ==
  LET flags == At(msg, 6, 2)
      stackAt == IF Traced(flags) THEN 80 ELSE 40
  IN [entry |-> At(msg, 8, 8), args |-> At(msg, 16, 8), exception |-> At(msg, 24, 8),
      mask |-> At(msg, 32, 8), barrier |-> "barrier" \in flags,
      flush |-> "flush_l3" \in flags,
      trace |-> IF ~Traced(flags) THEN Absent
                ELSE [buffer |-> At(msg, 40, 8), size |-> At(msg, 48, 4),
                      threshold |-> At(msg, 52, 4), shires |-> At(msg, 56, 8),
                      threads |-> At(msg, 64, 8), events |-> At(msg, 72, 4),
                      filters |-> At(msg, 76, 4)],
      stack |-> IF "stack" \notin flags THEN Absent
                ELSE <<At(msg, stackAt, 4), At(msg, stackAt + 4, 4)>>]

\* The nodes, with host addresses that the driver has translated.
ReadNodes(msg) ==
  [k \in 1 .. (msg.bytes - 8) \div 32 |->
     LET at == 8 + 32 * (k - 1)
     IN [virt |-> At(msg, at, 8), phys |-> At(msg, at + 8, 8),
         device |-> At(msg, at + 16, 8), size |-> At(msg, at + 24, 4)]]

\* A command whose size is not its length, or that comes by another way than its
\* kind takes, is not understood.
Understood(cmd) ==
  LET id == At(cmd.bytes, 4, 2) IN
  IF At(cmd.bytes, 0, 2) # cmd.bytes.bytes THEN <<>>
  ELSE CASE id = "kernel_launch" -> <<ReadLaunch(cmd.bytes)>>
         [] id \in {"dma_readlist", "dma_writelist"} /\ cmd.desc = {"dma"} ->
              <<ReadNodes(cmd.bytes)>>
         [] id = "cm_reset" /\ cmd.desc = {"high_priority"} -> <<At(cmd.bytes, 8, 8)>>
         [] id = "etsoc_reset" /\ cmd.desc = {"etsoc_reset"} -> <<"reset">>
         [] OTHER -> <<>>

\* The firmware takes a command and, unless it does not understand it or resets
\* the device, answers it.  What it says about a failed kernel may be left out.
\* (What becomes of commands that a call leaves behind, and of responses in
\* another order, is the subject of Staging and DeviceCommands.)
FirmwareTakes ==
  /\ queue # <<>>
  /\ response = <<>>
  /\ phase = "returned" => result.outcome = "ok"
  /\ queue' = Tail(queue)
  /\ received' = Append(received, Understood(Head(queue)))
  /\ IF Understood(Head(queue)) = <<>> \/ call.kind = "etsoc_reset" THEN UNCHANGED response
     ELSE \E code \in Statuses, detail \in BOOLEAN, cut \in Cuts :
            /\ detail => call.kind = "launch" /\ code # 0
            /\ response' = <<[status |-> code, detail |-> detail, cut |-> cut]>>
  /\ UNCHANGED <<limits, call, phase, offset, last, result>>

\* The layouts of the responses.
TimingFields == F(8, "start") ++ F(8, "execute") ++ F(8, "wait")
DetailFields == F(8, "exception") ++ F(8, "trace") ++ F(8, "shires")
Encoded(rsp) ==
  Header("size", "rsp", {})
    ++ (IF call.kind = "cm_reset" THEN Empty ELSE TimingFields)
    ++ F(4, rsp.status) ++ F(4, "pad")
    ++ (IF rsp.detail THEN DetailFields ELSE Empty)
Arrived(rsp) == Min({rsp.cut, Encoded(rsp).bytes})
-----------------------------------------------------------------------------
(***************************************************************************)
(* The call collects its responses.                                        *)
(***************************************************************************)
RSP_STATUS_OFFSET == 32
CM_RESET_RSP_STATUS_OFFSET == 8
RSP_KERNEL_ERROR_PTR_OFFSET == RSP_STATUS_OFFSET + 8

\* Variant: every response has its status where that of a launch has it.
StatusOffsetLaunch == RSP_STATUS_OFFSET
StatusOffset ==
  IF call.kind = "cm_reset" THEN CM_RESET_RSP_STATUS_OFFSET ELSE RSP_STATUS_OFFSET

\* `response_status`, `cm_reset_response_status`
ResponseStatus(rsp) ==
  IF Arrived(rsp) < StatusOffset + 4 THEN Absent ELSE At(Encoded(rsp), StatusOffset, 4)

\* `parse_kernel_error_ptr`
KernelErrorPtr(rsp) ==
  LET at == RSP_KERNEL_ERROR_PTR_OFFSET IN
  IF Arrived(rsp) < at + 24 THEN Absent
  ELSE [exception |-> At(Encoded(rsp), at, 8), trace |-> At(Encoded(rsp), at + 8, 8),
        shires |-> At(Encoded(rsp), at + 16, 8)]

\* `parse_launch_timing`: what has not arrived counts as zero.
Timing(rsp) ==
  [i \in 1 .. 3 |-> IF Arrived(rsp) < 8 * i + 8 THEN "zero" ELSE At(Encoded(rsp), 8 * i, 8)]

\* `kernel_launch_status_name`, for the codes that the SDK defines.
StatusName(code) == IF code <= 14 THEN code ELSE "UNKNOWN"

Parsed(rsp) ==
  IF Arrived(rsp) < CMN_HEADER_SIZE \/ ResponseStatus(rsp) = Absent THEN Returned("protocol")
  ELSE IF ResponseStatus(rsp) = 0
  THEN [Returned("ok") EXCEPT !.timing = IF call.kind = "launch" THEN Timing(rsp) ELSE Absent]
  ELSE IF call.kind = "launch"
  THEN [Returned("kernel") EXCEPT !.status = ResponseStatus(rsp),
          !.name = StatusName(ResponseStatus(rsp)), !.detail = KernelErrorPtr(rsp)]
  ELSE [Returned("device") EXCEPT !.status = ResponseStatus(rsp)]

\* `wait_launch`, `await_dma`, the end of `reset_shires`: the first response that
\* reports a failure ends the call, as the last one does.
CollectResponse ==
  /\ phase = "waiting" /\ response # <<>>
  /\ last' = response
  /\ response' = <<>>
  /\ IF Parsed(response[1]).outcome = "ok" /\ queue # <<>>
     THEN UNCHANGED <<phase, result>>
     ELSE phase' = "returned" /\ result' = Parsed(response[1])
  /\ UNCHANGED <<limits, call, offset, queue, received>>

MessagesNext ==
  \/ Launch \/ PushDmaList \/ ResetShires \/ ResetDevice
  \/ FirmwareTakes
  \/ CollectResponse

MessagesSpec == MessagesInit /\ [][MessagesNext]_messageVars
-----------------------------------------------------------------------------
(***************************************************************************)
(* Properties.                                                             *)
(***************************************************************************)

Outcomes == {"ok", "protocol", "device", "kernel", "io", "panic", "nothing yet"}

\* Types; a call has returned when it has a result, and what waits for the
\* firmware can be encoded.
MessagesTyped ==
  /\ limits \in DmaLimits
  /\ call \in LaunchCalls \cup TransferCalls \cup ResetCalls
  /\ phase \in {"pushing", "waiting", "returned"}
  /\ result.outcome \in Outcomes
  /\ phase = "returned" <=> result.outcome # "nothing yet"
  /\ offset \in Nat
  /\ call.kind = "dma" => offset <= call.len
  /\ \A i \in DOMAIN queue : Encodable(queue[i].bytes)

Traces(seen, region) ==
  IF region = Absent THEN seen = Absent
  ELSE /\ seen = [Full(0) EXCEPT !.size = seen.size]
       /\ seen.size <= region /\ seen.size <= U32Max
       /\ seen.size = region \/ seen.size + CacheLine > U32Max
       /\ region % CacheLine = 0 => seen.size % CacheLine = 0

\* The firmware launches what the caller has asked for, through whichever entry
\* point: the options survive the flags, the optional parts of the payload and
\* the offsets that both sides compute from them (`launch_async`,
\* `build_kernel_launch`).  The trace has all of its region or as many whole lines
\* of it as 32 bits can count.
LaunchUnderstood ==
  call.kind = "launch" /\ received # <<>> =>
    LET seen == received[1][1]
        byOpts == call.entry \notin {"launch_spmd", "launch_spmd_traced"}
        traced == call.entry \in {"launch_spmd_traced", "launch_spmd_traced_opts"}
    IN /\ received[1] # <<>>
       /\ seen.entry = "entry"
       /\ seen.mask = IF byOpts THEN call.opts.mask ELSE "given"
       /\ seen.args = IF call.entry # "launch" THEN "args"
                      ELSE IF call.opts.args = "none" THEN "null" ELSE "blob"
       /\ Traces(seen.trace, IF traced THEN call.trace
                             ELSE IF byOpts THEN call.opts.trace ELSE Absent)
       /\ IF byOpts
          THEN /\ seen.barrier = call.opts.barrier /\ seen.flush = call.opts.flush
               /\ seen.exception = call.opts.exception
               /\ seen.stack = IF call.opts.stack = Absent THEN Absent
                               ELSE <<<<"stack", "base">>, <<"stack", "size">>>>
          ELSE seen.barrier /\ ~seen.flush /\ seen.exception = "null" /\ seen.stack = Absent

\* The nodes that the firmware has been given move each byte of the transfer to
\* its own place, none twice and none beyond the end, whatever the limits; a
\* transfer that succeeds has moved them all (`push_dma_read_staged`,
\* `push_dma_write_staged`).  No command has more nodes than the device takes, none
\* is too large for its size field, so that `command_size` never panics, nor for
\* the queue while a smaller one would do (`max_list_nodes`).
TransferComplete ==
  /\ MessagesTyped
  /\ result.outcome # "panic"
  /\ result.outcome = "io" => limits.message < 88
  /\ call.kind = "dma" =>
       LET nodes == UNION {{<<i, k>> : k \in DOMAIN received[i][1]} : i \in DOMAIN received}
           Node(n) == received[n[1]][1][n[2]]
           movers(b) == {n \in nodes : /\ Node(n).device - DeviceBase <= b
                                       /\ b < Node(n).device - DeviceBase + Node(n).size}
       IN /\ \A i \in DOMAIN received :
               received[i] # <<>> /\ Len(received[i][1]) <= AtLeastOne(limits.count)
          /\ \A n \in nodes :
               /\ Node(n).size \in 1 .. MaxElem
               /\ Node(n).device - DeviceBase = Node(n).virt - HostBase
               /\ Node(n).device - DeviceBase + Node(n).size <= call.len
               /\ Node(n).phys =
                    IF call.phys THEN Node(n).virt - HostBase + PhysBase(call) ELSE 0
          /\ \A b \in 0 .. call.len - 1 :
               /\ \A m, n \in movers(b) : m = n
               /\ phase = "returned" /\ result.outcome = "ok" => movers(b) # {}
          /\ result.outcome = "io" => limits.message < 8 + 32

\* A call returns what the firmware has said: success only for a command that it
\* took and completed, with the times that it measured; its status, and its
\* account of a failed kernel if all of that arrived; and no field of a response
\* that was cut off, or that has another layout.
ResultAsAnswered ==
  phase = "returned" /\ result.outcome \notin {"io", "panic"} =>
    IF call.kind = "etsoc_reset" THEN \A i \in DOMAIN received : received[i] = <<"reset">>
    ELSE LET rsp == last[1] IN
         /\ last # <<>>
         /\ result.outcome = "ok" => rsp.status = 0
         /\ result.outcome \in {"kernel", "device"} => result.status = rsp.status /\ rsp.status # 0
         /\ result.outcome = "ok" /\ call.kind = "launch" =>
              result.timing = <<"start", "execute", "wait">>
         /\ result.outcome = "kernel" =>
              result.detail = IF rsp.detail /\ rsp.cut >= 64
                              THEN [exception |-> "exception", trace |-> "trace",
                                    shires |-> "shires"] ELSE Absent
         /\ result.outcome = "protocol" <=>
              rsp.cut < (IF call.kind = "cm_reset" THEN 12 ELSE 36)
=============================================================================
