# Verification of super-gemma

super-gemma runs one Gemma 31B model on one AMD GPU: a Rust host records Vulkan
command graphs once, submits them per prompt chunk and per token, and keeps one
conversation's keys and values resident on the device. Around that core stand
the loader of the model file, the tokenizer, the sampler and the two halves of
a chat server: the template that renders a conversation and the parser that
splits a reply. This directory models all of them in TLA+, checks them with TLC
on small instances and proves the main safety properties with TLAPS. Paths below
are relative to `src/crates/`.

## 1. The system

| Component | Source | State | Operations | Model |
|---|---|---|---|---|
| KV stores and the kernels around them | `sg-gpu/shaders/kv_append*.wgsl`, `attn_*.wgsl` | a ring of 1024 slots per sliding layer, a linear store per global layer | append, prefill attention, split-K decode attention | `KvCache` |
| GPU forward driver | `sg-model/src/graph.rs` | `pos`, step buffer, staged rows, cached chunk graphs, ~60 device buffers | `prefill`, `decode_step`, `reset`, `read_logits`, recording | `GpuModel`, `ForwardPass` |
| CPU reference | `sg-model/src/reference.rs` | a KV list per layer | `forward` | `LayerReference` |
| Command graphs | `sg-gpu/src/graph.rs` | command buffers, one queue, a fence per submission | record, submit and wait | `CommandGraph` |
| Session | `sg-model/src/session.rs` | `history` | `request`, `reset` | `Session`, `StatelessApi` |
| `generate()` | `sg-model/src/generate.rs` | the reply so far | prefill, sample, decode | `Generate` |
| Evaluation path | `sg-model/src/graph.rs` | `pos`, row buffers, three caches of graphs | `prefill_all_logits`, `prefill_plain` | `Scoring` |
| Sampler | `sg-model/src/sampler.rs` | RNG state | candidate selection, draw | `Sampler` |
| Weight upload | `sg-model/src/weights.rs` | device buffers | `upload` | `WeightUpload` |
| GGUF parser, metadata, model description | `sg-gguf/src/{parse,meta,desc,tensor}.rs` | cursor, tensor table | `parse`, `validate` | `GgufParser`, `TensorTable`, `ModelDesc` |
| Weight sources | `sg-gguf/src/{weights,file}.rs` | chunk offset, bounce buffer | `load`, `read_full` | `WeightSource`, `DirectSource` |
| BPE tokenizer | `sg-tokenizer/src/{tokenizer,bpe,vocab}.rs` | linked list, merge heap | `from_metadata`, `encode`, `decode` | `Vocab`, `Tokenizer`, `MergeAll` |
| Streaming detokenizer | `sg-tokenizer/src/detok.rs` | withheld bytes | `push_byte`, `flush` | `Utf8Stream` |
| Turn parser | `sg-tokenizer/src/toolcall.rs` | parser state, collected text | `push`, `finish`, `parse_tool_call` | `TurnParser`, `ToolArgs` |
| Chat template | `sg-tokenizer/src/template.rs` | none | `render_prompt` | `ChatTemplate`, `ToolSchema`, `ToolArgs` |
| Rope tables | `sg-model/src/rope.rs` | none | one pass at start-up | not modelled |
| Buffers, context, kernels, executor | `sg-gpu/src/{buffer,context,kernel,exec}.rs` | Vulkan handles | set-up, mapping | the effect of a mapped write only |
| Quantised blocks | `sg-gguf/src/q4_0.rs`, `q6_k.rs` | none | arithmetic | not modelled |
| Benchmarks, probes, validation | `sg-bench`, `sg-probe`, `sg-validate` | none | measurement | not modelled |
| Cache, engine, server | `sg-cache`, `sg-engine`, `sg-server` | none | stubs in this repository | not modelled |

**How they interact.** `Session::request` is called with the *whole*
conversation. It compares the prompt with `history`, resets or keeps what is
resident, and calls `GpuModel::prefill` on the rest. `prefill` splits that into
chunks; for each chunk it records (or finds) the segment graphs, writes embedding
rows, rope tables and the step buffer through mapped memory, submits the segments
one after another, each time blocking on a fence, and moves `pos`. `request` then
samples from the logits, hands the token to a callback that may abort, and calls
`decode_step`, which stages one row and submits the decode graph. Everything
happens on one host thread; concurrency is inside the GPU, which may overlap
dispatches as far as barriers allow, and between host and GPU once a wait fails.

At start-up the file is mapped and parsed, its metadata and tensor table are
validated against the one model the program knows, and the tensors are copied to
the device; a loader that reads the data section with `O_DIRECT` stands beside
the mapping. The tokenizer is built from the same metadata. The tools encode a
text and call `generate`, or evaluate it with `prefill_all_logits`. A server,
still a plan, will render each conversation with `render_prompt`, feed the
reply's tokens to a `TurnParser`, and send its events to a client that makes them
the next message: what comes back in the next prompt decides what `Session` can
keep.

**What is hard in it.** The ring wraps inside multi-chunk prompts and is then
read by physical slot in decode and by position in prefill; sliding layers
attend before they append, global layers after; the two paths share one step
buffer and some intermediates; a reset clears nothing but `pos`; every GPU call
can fail in the middle of a request; buffers are reused by all sixty layers, for
every chunk and token. Outside the GPU: code points and tool calls arrive in
pieces; three branches of the template leave a turn open and must fit together
over messages; heap entries go stale; a direct read must be aligned at both
ends, after short reads too; every length in the file is untrusted.
`PROJECT.json` lists these hazards line by line, with the properties that would
catch each of them going wrong.

## 2. Modules

| Module | Stands for |
|---|---|
| `KvCache` | the stores and which rows each append writes and each query reads |
| `GpuModel` | one `prefill` / `decode_step` call, step by step, with the error of every GPU call |
| `Session` | `Session::request` and `reset` over `GpuModel`; the properties of the whole |
| `StatelessApi` | the abstract promise: every request is answered as if nothing were kept |
| `CommandGraph` | recorded dispatches, barriers, submission, and what the GPU may then do |
| `LayerReference` | the CPU oracle's forward pass as a dataflow graph |
| `ForwardPass` | every dispatch of a decode token and a prefill segment, run by `CommandGraph`'s GPU over the driver's buffers |
| `Utf8Stream`, `TurnParser`, `ToolArgs` | bytes to code points, tokens to events, arguments written and parsed |
| `ChatTemplate`, `ToolSchema` | `render_prompt` and the tool declarations, as Rust writes them |
| `JinjaTemplate`, `JinjaSchema` | the model's own template, as jinja runs it |
| `Encoding` | the encoder as a function, in the order of merges of `MergeAll` |
| `Chat` | a conversation: client, template, model, parser and encoder in a loop |
| `TensorTable`, `GgufParser`, `ModelDesc`, `WeightUpload` | a file parsed, validated and uploaded |
| `WeightSource`, `DirectSource` | the trait's promise, and the direct loader that keeps it |
| `ModelLoading` | the file, the upload and the loader together |
| `Vocab`, `Tokenizer`, `MergeAll` | vocabulary, encoder with its heap, and the textbook algorithm |
| `Sampler`, `Generate`, `Scoring` | draws, the generation loop, the evaluation path |
| `Completion` | the tools: encode and generate, or evaluate |
| `MCSession`, `MCForwardPass`, `MCChat`, `MCModelLoading`, `MCCompletion` | instances for TLC |
| `SessionProofs` < `ResidencyProofs` | proofs about the session stack: stores and control; residency, logits and the stateless API |
| `ForwardPassProofs` | proofs about the dispatch stack |
| `SequenceLemmas` | facts about recursive functions, sequences, orders and sums that the others rest on |
| `ModelLoadingProofs` | proofs about the direct loader, the parser, the validation and the upload |
| `TokenizerProofs` | proofs about the vocabulary, the merge engine, decoding and special tokens |
| `GenerateProofs`, `ScoringProofs` | proofs about the sampler and the generation loop, and about the evaluation path |

The GPU has two stacks, each precise where the other is coarse. In the **session
stack** (`KvCache` < `GpuModel` < `Session`) a layer is one step of the GPU and a
K/V row is a pair of position and token; it is about *which rows* are resident
and attended, across requests, resets and errors. In the **dispatch stack**
(`CommandGraph`, `LayerReference` < `ForwardPass`) a block - one chunk or one
token - takes one place in a store; it is about *which buffer* each dispatch
reads and writes, in which format, and what the barriers order. The other
modules form three more: **chat** (`Utf8Stream`, `ToolArgs` < `TurnParser`;
`ToolSchema` < `ChatTemplate`; `MergeAll` < `Encoding`; all < `Chat`), **weights** (`TensorTable` <
`GgufParser` < `ModelDesc` < `WeightUpload`; with `DirectSource` <
`ModelLoading`) and **completion** (`Vocab` < `Tokenizer`; `Sampler` <
`Generate`; `Scoring`; all < `Completion`).

### State and actions against the code

- `KvCache`. `RingAppend` is `kv_append.wgsl` with its ring slot: rows of one
  dispatch that hit the same slot race, so the slot is left with any of them or with
  a mixture (`NoRow`). `LinearAppend` loses rows past the end of the store.
  `PrefillSlidingReads`, `PrefillGlobalReads`, `DecodeSlidingReads` and
  `DecodeGlobalReads` return the set of reads of one query as
  `<<where, index, row>>`, so that a row read twice is two reads.
- `GpuModel`. `call.pc` walks through `prefill` (record, stage, layer by layer,
  advance, read) and `decode_step` (stage, layers, advance, read). `fed` is a
  history variable, the tokens advanced over since the last reset. `seen`
  gathers the rows that reached the last real query; `logits` is the set of rows
  the logits buffer was computed from.
- `Session`. `Request` is everything up to the call of `prefill`; `Sample` is
  one round of the loop with its stop tests in the code's order; `RequestFails`
  is any `?`. `dirty` is a history variable: a request failed after some layer had run
  or `pos` had moved, and nothing has reset the session since.
- `CommandGraph`. A queue entry is one recorded dispatch with the barrier
  `record_dispatch` puts before it. `Start` and `Finish` are the GPU's; a
  dispatch may start once every unfinished earlier one is *not* separated from it
  by a barrier. `WaitFails` leaves the GPU running, as the code does. `overrun`
  is a history variable: the host touched a buffer or submitted while the GPU was still
  busy with an earlier submission.
- `LayerReference`. `Computed(l, context)` gives each intermediate of
  `CpuModel::forward` as operation, weight and operands. A value *is* its node in
  this graph.
- `ForwardPass`. `RecordLayer`, `RecordPrefillLayer` and the two logits
  recorders list the dispatches of `graph.rs` in order, with the buffers they bind. A
  finished dispatch looks its operation, weight and operands up in the oracle's
  graph (`Yields`); no such node, a wrong format or scales and quants of
  different values make the result `Torn`.

- `TurnParser`. `mode`, `buf` and `pending` are `State`, its collected text and
  the `DetokBuffer`; `Push(t)` has one branch per `if` of `push`. `stream` and
  `began` are history variables: the tokens since the last flush and the events before them.
- `Chat`. Alternates between a client that sends messages and a model that emits
  any tokens (`Request`, `Emit`, `CutOff`). `resident` is what `Session` holds when a
  reply has ended: the ids of the prompt and the sampled tokens but the last, which
  is never decoded. `Resumes` is `request`'s test of the next prompt's ids against it.
- `Encoding`. `Encode` gives those ids: cut at special tokens, byte fallback, then the
  leftmost pair of the lowest rank, as long as there is one. That the code's scan and heap
  do this is what `completion` checks and `EncodesAsReference` proves. Encoding the text
  of a reply need not give its tokens again: `Canonical` says when it does.
- `ChatTemplate`, `ToolSchema` against `JinjaTemplate`, `JinjaSchema`. Both are
  functions from messages to text, written the way each source is: Rust decides a
  message's branches from the list of messages, jinja from a namespace it updates
  as it goes. `format_argument` is the same in both sources and is shared.
- `GgufParser`. A file is its size and the fields written in it, an array with the
  arrays nested in it one behind another, each with its depth; the cursor's
  position is in bytes, so that a file may end anywhere. One action per part of
  the file; `error` is the variant of `GgufError`.
- `WeightUpload`. A device buffer is rows of bytes from consecutive places of the
  file at a stride.
- `DirectSource`. Byte p of the file is p. `ReadAt(n)` is one `read_at` that
  returns any n the kernel may return; an interrupted read is a stutter. `whole` says
  whether the kernel's short reads are whole blocks.
- `Vocab`, `Tokenizer`. `FromMetadata` runs the checks in the code's order. A
  step of the encoder is one round of the scan for special tokens or one entry
  popped from the heap.
- `Sampler`. `Draws` is the set of tokens that some random number yields. Logits
  are natural numbers (only their differences matter) and `base ^ logit` the weight,
  by multiplication, so that masses compare exactly.
- `Generate`, `Scoring`. The GPU model is the tokens it holds (`resident`), or rows that
  say of which position they hold what. Every `?` is an action that fails.

### Abstractions

- A prompt that would pass the global capacity fails an `assert!` in `prefill`;
  the program stops there, and the model has no such step. `debug_assert!`s are
  not part of a release build and guard nothing.
- Staging (embedding rows, rope tables, step buffer) is one step, since the GPU is idle
  then. A staging error leaves the old contents; a partial write is
  overwritten whole by the next staging and reaches no reader.
- In `GpuModel` a submission may die before any layer and after the last one.
  That includes the borders of the segments the code submits one by one.
- Padding rows of a short chunk hold `NoRow`: leftovers of an earlier chunk that
  belong to no token.
- In `ForwardPass` a dispatch takes effect when it finishes and reads what the
  buffers hold then; `ConflictsOrdered` is what makes that choice immaterial.
  A block occupies one place of a ring that never overwrites; wrapping belongs to
  `KvCache`. The rows and formats of a ring are not read before its first append
  (`Unread`): the kernel has no old row to load then.
- Values, quantisation error and softmax are out of scope: two results are the
  same when the same operation was applied to the same operands.
- Text is a sequence of symbols: a marker, a punctuation mark, a byte class or a
  word. Bytes come in the classes UTF-8 tells apart: lead bytes of two and three,
  continuation bytes and the rest. JSON values keep their kinds.
- Integers of the file are bounded by `MaxU64`, a small stand-in for 2^64 - 1,
  so that overflows happen; the scaled-down model keeps the pattern of five
  sliding layers and a global one.
- The capacity assertion that `prefill` makes belongs to `GpuModel`; `Generate`
  and `Scoring` have no store that could overflow.

## 3. What TLC checks

| Run | Instance | Shows |
|---|---|---|
| `session` | window 3, capacity 6, one sliding and one global layer, chunks of 2, 2 splits, 14 requests | `TypeOK`; `AttendsExactWindow`: each query attends exactly its causal window; `ImplementsStatelessApi`: refinement of `StatelessApi`; `RequestEnds` |
| `session_faults` | window 2, capacity 4, every kind of GPU error | `AttendsExactWindow`, `HistoryResidentUnlessDirty`, `SampledFromWholeContext` and `RequestEnds` as long as no disturbed request was left behind |
| `session_poisoned` | as above, one prompt of two chunks, failing submissions | *violated*: `HistoryResident` without its proviso: the second chunk fails, `pos` stays behind the first |
| `session_overflow` | replies of up to 5 tokens, capacity 4 | *violated*: `HistoryResident` |
| `session_wide_chunk` | chunks of 3, window 2 | *violated*: `AttendsExactWindow` |
| `forward_pass` | two sliding layers and a global one, segments of 2 layers, 3 blocks, one failed submission | `ForwardIsReference`: every dispatch computes what the oracle computes and the logits are the oracle's; `ConflictsOrdered`; `BlockEnds` |
| `chat` | conversations of up to 6 messages, with thinking on and off, tool rounds, cut-off replies, split code points | `StreamingIsBatch`: the events of a stream are those of the whole stream parsed at once; `RenderIsTemplate`: prompts and tool declarations are the template's; `ArgsRoundTrip`; `AsksInsideModelTurn`; `ReplayedExactly` and `ThoughtForcesReset`: when the ids of the next prompt extend those of the session; `TypeOK` |
| `chat_turns` | as above | *violated*: `EveryTurnStartsFresh` |
| `chat_parity` | messages whose calls and results carry no id | *violated*: `RenderIsTemplate` |
| `weights` | a tiny file whole, cut at every byte, and with one thing wrong each; a model of 6 layers, right and with one disagreement each; blocks of 4, chunks of 8 | `AcceptedTableFits`, `KernelsReadTheFile`, `ValidFilesUpload`, `TensorsWhereDeclared`, `LoadIsCopy`, `ReadsAligned`, `ImplementsWeightSource`: refinement of `WeightSource`; `LoadingEnds`; `TypeOK` |
| `completion` | texts of up to 4 letters over two vocabularies in both modes, 27 files of which 24 are refused, 6 vectors of logits under 64 samplings, replies with limits 0 to 3, 162 pairs of evaluations | `RoundTrip`, `SpecialsMatched`, `ImplementsMergeAll`: refinement of `MergeAll`; `DrawsFromNucleus`; `ReplyAccounts`; `LogitsOfPositions`; `CompletionEnds` |
| `forward_staging` | 2 blocks, the host may go on after a failed wait | *violated*: `StepWrittenBetweenSubmits` |

**Bounds, and why they are enough.** A window of 3 with chunks of 2 gives
prompts that wrap the ring inside a chunk, between chunks and in decode, a
partial last chunk, and splits of unequal and of zero length. Prompts share
prefixes of different lengths, so requests extend, diverge, repeat and shrink.
Two layers, one of each kind, suffice in the session stack because a layer touches
only its own store; the proofs cover any number. In `forward_pass` the stack
sliding-sliding-global has the three kinds of neighbours that share buffers,
a full segment and a short one; three blocks let a chunk or a token follow any
mixture of two others, and the failure may strike before or during any
submission. `MayOverrun` is off in that run: once the host runs ahead of the GPU
its properties claim nothing more, and the behaviours multiply. It is on in
`forward_staging`, whose subject this is. `MaxBlocks` and `MaxFailures` are the only
counters that are cut off there.

In `chat`, the first messages of a conversation are free (`MaxHistory`), the first
`MaxFree` messages and tokens are any tokens at all, and longer conversations
follow one of ten scripts: plain replies, one of them of tokens that its text does not
encode to and one with a code point in two tokens, replies cut off by `max_tokens` or in a
code point, thoughts closed and left open, calls with and without text, two calls at
once. So every sequence of up to three tokens reaches every state of the
parser, and tool loops go on for two rounds. 459
declarations are compared, in which every field of a schema is there, empty, null
or missing and properties nest. In `weights`, a section starts and ends in the middle of a block, spans two
chunks, and lies at every phase of the destination; the table of the cut file ends
in every field. In `completion`, seven merges overlap so that entries go
stale on both sides, in the second vocabulary with a rank written twice; two special
tokens share a beginning; a working set of 2 has to be widened twice; nine rows are
three chunks, the last one short and padded, with the LM head in batches of 3.

**Fairness.** `Session`: weak fairness of the host thread's next step. It is one
thread and waits only for its own fences, which the driver signals or fails. No
fairness is assumed of callers, of the GPU's errors or of the consumer's abort.
`ForwardPass`: weak fairness of the host's steps and of the GPU, which runs what
it was given. `StatelessApi` states what it promises in the same way: it goes on
while it is serving. `ModelLoading` and `Completion`: weak fairness of the one thread
that loads, encodes or generates; system calls return, and a read is not interrupted for
ever. `Chat` has no fairness: a client may leave.

**Findings** (quoted in `PROJECT.json`, each with its run):

1. A `prefill` that fails after its first chunk leaves `pos` ahead of `history`,
   and nothing resets the session before the next request.
2. `decode_step` has no capacity check: a long reply decodes past the end of the
   global stores, where appended rows are lost.
3. `max_chunk` is only rounded to 64; above the ring's 1024 slots the rows of one
   append race.
4. `StepState::write_to` does not fail while a submission is unfinished, although
   its comment says so; a failed wait makes that state reachable.
5. `TurnParser` does not reset at an end of turn, although its comment says so: a
   call or a thought left open swallows the next reply.
6. A tool result without an id is named after its own tool name by `render_prompt`,
   after the call without an id by the template.

**Seen while modelling, without a run of their own.** `generate.rs:32` says "Generate up
to `max_tokens` tokens after `prompt`", but the loop samples a token and hands it to
`on_token` before it looks at the limit (`generate.rs:57`, and `session.rs:95` alike): with
`max_tokens` of 0 a reply has one token, and nothing rejects such a request. The run
`completion` has replies with that limit, and `ReplyAccounts` says nothing of how long
they are; every other limit is kept. Where a schema's `type` is a
list, or a description is no string, Rust and jinja write different text; the
declarations compared have neither. The template raises an error for a tool
result that answers no call and carries no name; `RenderIsTemplate` leaves those
prompts out. An empty reasoning text is written by Rust and skipped by jinja; no
message of the instance has one. `sampler.rs:17` says that `top_k` of 0 is
disabled and that top-p can expand past the working set; with top-p off the set
of 1024 is the limit all the same, and with a `top_k` above 1024 it is never
widened. `vocab.rs:8` says construction validates every assumption; that specials begin
with `<` and that merges yield no byte or control tokens is not validated. The
end tokens of `generate` are constants, not the vocabulary's.
`docs/plans/04-kv-cache.md:30` counts on the next request extending the resident
text, which `ThoughtForcesReset` rules out after a thought. Nor does it after a reply that
is not `Canonical`: the session compares ids, and a sampled tokenization that the encoder
would not choose, or a byte token left alone (U+FFFD in the text, three other bytes when
encoded), differs from what the client sends back. Such a turn is prefilled again
from the start, which costs time and no correctness; `ReplayedExactly` leaves it out. An assistant
message with text beside answered calls closes the model turn and opens none, in both
template and port; `AsksInsideModelTurn` leaves it out. `StreamingIsBatch` leaves
out a `<tool_call|>` outside a call that cuts a code point in two: the parser
then waits for the rest of it in the next segment.

## 4. What is proved

| Theorem | For every ... |
|---|---|
| `TypeCorrect` (`TypeOK`) | window, capacity, layer stack, chunk size, splits, requests, faults |
| `ControlInvariant` | the same |
| `ResidencyInvariant`, `AttentionIsExact` (`AttendsExactWindow`), `ResidentBetweenRequests` (`HistoryResidentUnlessDirty`) | the same, with `ChunkCap <= Window` |
| `WholeInvariant`, `SampledFromWhole` (`SampledFromWholeContext`), `ReuseIsInvisible` | the same, with a global layer in the stack |
| `SessionIsStateless` | the same without faults, prompts and replies that fit the stores |
| `RingAppendHolds`, `SplitsPartition`, `PrefillSlidingExact`, `DecodeSlidingExact`, `DecodeGlobalExact` | ring, context, number of keys and splits |
| `BarriersSuffice` (`ConflictsOrdered`) | set of graphs whose overlapping dispatches are independent |
| `ForwardUsesGraphs`, `ForwardConflictsOrdered` (`ConflictsOrdered`), `ForwardComputesReference` (`ForwardIsReference`) | layer stack, segment length, sequence of chunks, tokens, failures and resets |
| `DirectLoadIsCopy` (`LoadIsCopy`), `DirectReadsAligned` (`ReadsAligned`), `DirectImplementsWeightSource` (`ImplementsWeightSource`) | block, chunk, section, destination, outcome of the reads |
| `LoadingTypeOK` (`TypeOK`), `TableFits` (`AcceptedTableFits`), `LoaderInContext` (`LoadIsCopy`, `ReadsAligned`, `ImplementsWeightSource`) | file, width of integers, alignment, depth of arrays |
| `ValidFilesAreUploaded` (`ValidFilesUpload`) | file, number of layers, dimensions |
| `UploadedAsWritten` (`KernelsReadTheFile`), `LoadedWhereDeclared` (`TensorsWhereDeclared`) | the same, for files whose data section is where the format puts it |
| `EncodeInvariant`, `EncodesAsReference` (`ImplementsMergeAll`) | file, text, set of special tokens |
| `DecodesToText` (`RoundTrip`) | the same, for files that are `Readable` |
| `SpecialsAreMatched` (`SpecialsMatched`) | the same, for files with `SpecialsApart` |
| `GenerateTypes` (`GenTypeOK`), `GenerateAccounts` (`ReplyAccounts`) | prompt, logits, sampling parameters, limit, chunk, end tokens, failures |
| `DrawsAreNucleus` (`DrawsFromNucleus`) | vocabulary, logits, sampling parameters, size of the working set |
| `ScoringIsExact` (`LogitsOfPositions`) | chunk, padding, batch, sequence of calls, failures |

**Assumptions.** Those named in the modules, which TLC evaluates in every run,
and these, in the theorems that need them. `ChunkCap <= Window`: the code does not
enforce it; `session_wide_chunk` shows what happens without it. `GlobalLayers # {}`:
without a global layer the logits see a window, not the context.
`WellWritten(file)`: the writer put the data section at the first multiple of the
alignment behind the table, which nothing in the file says, so no parser could
check it. `RowsFit`: a row of the token embeddings is whole blocks and fits the
words kernels stride by, the `debug_assert!` of `upload_q6k_repacked`.
`FilesAssumption` says that lengths, counts and offsets of a file are unsigned.
`JobsAssumption` says that a list of texts in a file is one, and that every
character of a job's text is a piece of its file or is made of the bytes that the
model has: a text is UTF-8, and an accepted file has a token for every byte. It also
says that a text is whole characters: lone bytes are no letters of it.
`Readable` and `SpecialsApart` are conditions on the file that `from_metadata` does not
check (hazard `vocab.rs:195`), and every file the run `completion` accepts
meets them. `Readable`: the file has a token for U+2581, and its merges neither take nor
yield byte tokens, whose pieces, such as `<0x41>`, are not their text. `SpecialsApart`:
special tokens begin with `<` and are longer than that, and merges yield none.

**The argument for the session stack.** `AttendsExactWindow` is not inductive: it
speaks of the layer about to run and says nothing of the others. The
strengthening is `IInv == ControlInv /\ DataInv`. `ControlInv` (in
`SessionProofs`) ties the step of a call to the request, the staged rows and step
buffer to `pos`, and the length of `fed` to `pos`. `DataInv` (in
`ResidencyProofs`) says, unless the session is dirty, layer by layer what each
store holds: layers the running call has passed hold the context *with* its rows,
the others the context without; and how `fed` and `history` differ in each phase.
A layer step moves one layer across that border. That a store really holds the
longer context after an append, and that queries read exactly their window from
such a store, are the facts about rings in `SessionProofs`: the positions of a
window are pairwise distinct modulo the window's size. The error cases come
down to whether anything visible changed: a decode that fails before `advance`
has put rows above `pos`, which overwrite only what the next token's window no
longer contains.

**The argument for sampling and the stateless API.** `WholeInv == IInv /\ PromptInv
/\ SampleInv` adds what the caller sees. `PromptInv`: prompt and reply are
`history` and what is still to be advanced over. `SampleInv`: the rows gathered by
the global layers that have run are those of the whole context, and the logits
are made of them from the step that leaves logits until the next call begins; an
interior chunk leaves none. A step that samples then draws from the logits of prompt
and reply, which is what `StatelessApi` does in one step: `ReuseIsInvisible` maps
every step. Its proviso names the two ways in which the code breaks the promise
(findings 1 and 2), and `FitsInv` shows that without faults and with requests that
fit neither occurs.

**The argument for the dispatch stack.** `OrderInv == QueueInv /\
ConflictsOrdered`. `QueueInv` says that, unless the host has run ahead, the GPU
holds exactly one recorded graph. Then a conflict between two entries is one of
the recorded graph, where the contract of `dispatch_overlapping` puts a barrier
between them, and the guard of `Start` refuses the later one while the earlier is
unfinished. Across submissions nothing is recorded to order dispatches: it is the host's
wait that does, which is why `overrun` stands in the theorem. The
forward pass is an instance of this because what it submits is always a recorded
graph (`BlockInvariant`: the layer a segment starts at stays in the stack).

**The argument that the forward pass is the oracle's.** Every dispatch is recorded
with a barrier, so the GPU finishes a submission's dispatches in their order and
what a submission has done is a number n. `OracleInv` says what the buffers hold
then. `InLayer(mem, context, kind, l, i)`: after i dispatches of layer l, every
stage that has had its turn and is not yet overwritten (`Live`) has its node of the
oracle's graph, in its format, in its buffers (`Slot`), and the stores of the layers
that have appended hold one block more than the rest. `Rank` gives the stages their
places in the layer; that the dispatch recorded at each place reads, computes
and writes what its stage does is one leaf per dispatch
(`DecodeDispatches`, `PrefillDispatches`, `AttentionCalls`, `AppendCalls`), and
`StageYields` that the oracle uses an operation with that weight or input for no
other stage. A step (`LayerStep`) is then a question of which buffers differ
(`SlotsApart`, `StoresApart`). What ends a layer begins the next (`LayerEnds`);
`GraphLayout` finds the layers of a recorded graph, a concatenation defined by recursion,
at their offsets; a submission ends where the next segment starts. Between
blocks only the stores matter (`AllKept`), which staging leaves alone; after
a failed submission nothing is claimed until `reset`, after which the stores count as
empty, whatever the GPU still does to them.

**The argument for the direct loader.** `LoadInv` says that no byte of the
destination is wrong, that everything before the running chunk is there, and
that what `read_full` has so far lies where it was asked for, in the destination or in
the bounce buffer. The step that matters copies the part of a bounced chunk that
belongs to the section; the arithmetic is that of an aligned window around
`[Start, End)`. `AlignInv` carries the alignment of offset and bytes read from
one read to the next, as long as the kernel's short reads are whole blocks. The
refinement maps the loop to one step of `WeightSource`.

**The argument for parsing and uploading.** `ParseInv` says, phase by phase, that the
cursor is inside the file, that the table is the file's tensors read so far, each
with its product of dimensions and its number of bytes, with no name twice, and,
from the range checks on, that every tensor passed lies in the data section. The
arrays of the metadata, the product of dimensions and the list of layers are
functions defined by recursion on a length. That such a function
exists and satisfies its equation on `0 .. n` for every n is proved from the
well-foundedness of finite sets, since no induction theorem of the library
can be instantiated (`RecursionExists`, `RecursionIs`); with it,
`FlattenFollows` gives the entries of a flattened list of layers. So
`UploadsFacts` shows that the list the upload walks and `expected_tensors`, kept in
step by hand, name the same tensors with the same types. `UploadInv` says that
what is on the device is a prefix of that list, each buffer the bytes of its
tensor. The rest is arithmetic of rows: a row r, column c of a repacked tensor is
found at one quotient and remainder only (`DivModUnique`).

**The argument for generate().** `GenInv` says phase by phase what the model
holds: the conversation before, the prompt as far as it was prefilled, and every
token of the reply but the last. The theorem takes any task that
`IsTask` admits: a prompt of token ids, parameters and logits that are natural
numbers, one logit for each id. That draws are token ids is a lemma (`DrawsAreTokens`).

**The argument for the sampler.** The first `k` tokens of the whole vocabulary in
their order are one of the sets `select_top` may yield (`TopSelected`), every such set
contains whatever is ahead of one of its members (`SelectedIs`), and all of them
weigh the same, since they differ only in tokens of one logit (`SameMass`). So the mass
top-p is a share of is `Pool`, whichever set was selected (`PoolIs`). A token drawn at
place `i` has its rivals among the `i - 1` candidates before it, whose mass fell short
(`DrawnAreWithin`). A token that belongs to the nucleus is at its place in the first `k`
of the order, before the prefix ends (`WithinAreDrawn`). The rounds that widen
the working set are a recursion that only jumps forward, so `JumpsExist` and
`JumpsAre` give the set it ends with (`DrawsAre`): it need not be widened further.
`Mass` sums by taking out a chosen element; `Summing`, in `SequenceLemmas`,
is that recursion, and any element may be taken first (`SumAny`), from which it
follows that sums grow with the set (`SumGrows`) and that elements of equal weight may
be exchanged (`SumOfEquals`).

**The argument for the evaluation path.** `ScoreInv` says that every cached graph
works on the rows its key names, that the text left is the end of the text with
`pos` at its beginning or a chunk further, and that the rows of the running
chunk hold embedding, residual, norm and logits of their positions as far as
the call got. The keys determine the rows, so a graph found in a cache does what a
new one would; rows behind a short chunk are garbage that no result includes.

**The argument for the merge engine.** The abstract word is the ids of the symbols
that are alive (`Alive`), so a place in it has to be found from an index of the
list. `Counts(off, list)` is that correspondence, the number of symbols alive up
to an index, by recursion on the list; `MergedAt` and `SpliceAt` say what
happens to the word when the right symbol of a pair dies. `ListOK` says that `next`
and `prev` of a symbol alive are its neighbours alive, and of nothing else;
symbols that died keep their links, which is what makes entries go stale. `HeapOK`
says that every entry was a pair of the table, and that every pair of
neighbours that *is* in the table has its entry. The second half makes the engine right
and is what a missing push would break: with it an empty heap means that no pair
can be merged (`EndStep`), and the top of the heap, if not stale, is the lowest
rank and of several the leftmost place (`TopIsLowest`). A stale entry is a stutter
(`PopStaleStep`): a pair that is there is not stale, so taking the stale one out loses
no pair. An entry that looks fresh because a later merge gave its symbols the
same ids again is a pair that is there, so merging it is right. That ranks are
numbers, that results of merges and all symbols are ids, and that specials have
pieces is `VocabOK`, which is derived from the checks of `from_metadata`
(`TablesOK`) and from nothing else.

**The argument for decoding and special tokens.** What `decode` makes of a list of
ids depends on a buffer of bytes that is carried from one id to the next, so that
texts of ids cannot simply be put together. `Reads(w, chars)` says of ids that,
after any ids that leave the buffer empty, they add `chars` and leave it empty again.
Such ids can be joined (`ReadsJoin`). The bytes of one character read as it
(`ReadsBytes`), and so do a piece and its character. A merge keeps
what the word reads, since the piece of its result is the pieces of the pair joined
(`JoinsOK`, from the checks of `from_metadata`; `ReadsMerged`). `TextInv` says that
ids so far, symbols alive and the special token waiting read as texts that, joined with
the text left, are the text of the job. `SpecialInv` does the same for the special
tokens: what `SpecialsOf`, the reference, finds from a place in the text on is a function
of the place (`Finding`), and the special tokens of the ids so far followed by what it
finds in the text left is what it finds in the whole text. `SpecialAt` takes the
first match in a list sorted by length, the reference the longest (`AtIsLongest`),
and no symbol of a segment nor result of a merge is special (`InitialIdsPlain`,
`SplicePlain`). Both references are recursions from the end of a sequence,
where every place refers to a later one; that they exist and have one solution is
`JumpsExist` and `JumpsAre`.

**Model-checked only.** `RequestEnds`, `BlockEnds`, `LoadingEnds` and
`CompletionEnds` (liveness), and the fairness that `StatelessApi` includes.
The invariants of `chat`: `RenderIsTemplate`, `ArgsRoundTrip` and `AsksInsideModelTurn`
speak of recursive operators (argument syntax, schemas, the template's loops), which the
prover cannot take. `StreamingIsBatch` and `TypeOK` would hold whatever the parser of
the arguments returns, but `TurnParser` reaches it through `ToolArgs`, for the one call of
`TryParseToolCall`, and so holds no theorem as the modules are split today.

## 5. Plan

Done: the five stacks above, and the proofs of section 4. Next, in this order:

1. `GpuModel` with lost flushes of mapped writes.
2. The capacity of the stores in `Generate` and `Scoring`, by composing them with
   `GpuModel` instead of a sequence of tokens.
3. `TurnParser` with `TryParseToolCall` as a parameter, and `StreamingIsBatch` proved: the
   bytes pending and the text out are those of one `Drain` over the segment so far, and
   the merged events grow by one delta with it.

## 6. Not modelled

Floating-point arithmetic, quantised block formats and rope tables; Vulkan
set-up, timers and profiling; benchmark and probe programs, and the benchmark
variants of the shaders; the taps and the profiling entry points of `graph.rs`;
the random number generator, whose draw is a choice; `MmapSource`, one copy;
the constant buffer `norm_ones`; the crates that are stubs in this repository. Of
the template, multimodal content and Google-native tool responses, which the Rust
types cannot express.
