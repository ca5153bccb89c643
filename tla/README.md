# NDI_WIN_LINUX in TLA+

`test_NDI` plays up to eight YUV/WAV file pairs as NDI sources.  This directory
holds TLA+ models of the program, TLC runs that check them on small instances,
and TLAPS proofs for every instance.

## The system

One `Cnl` object (test_NDI/main.cpp) per channel owns a provider and a consumer
and is the callback between them.

```
   CapturePoolMgr (video pool, audio pool; 200 frames each, shared by 8 channels)
        | getNew                                         ^ shared_ptr deleter
        v                                                |
   readThread --m_queueFrame/m_queueAudio--> SendOneVideoFrm --Cnl::cb--> OutputFrames
   (provider)         under m_locker           (provider)                    |
                                                               m_listV, m_listA, semaphore
                                                                             v
                                            NDI library <--- sentToNDI in sendNDIThread (consumer)
```

| component | state | operations | how it interacts |
|---|---|---|---|
| consumer, `CFrameConsumerNDI` | two `SyncList`s, semaphore, `m_bExit`, NDI sender, thread handle | `addChannel`, `OutputFrames`, `sendNDIThread`/`sentToNDI`, `stopChannel`, destructor | filled by the provider's sending thread through the callback, emptied by its own thread, stopped by main |
| provider, `CFrameProviderYuvFile` | two `std::queue`s under `m_locker`, `m_dwTimes`, `m_frameConsumed`, `m_bStop`, `m_initDone`, file pointer, two thread handles | `addChannel`, `startCapture`, `readThread`/`buildFrame`, `SendOneVideoFrm`, `frameConsumed`, `closeChannel`, destructor | takes frames from the pools, calls the callback, is started and stopped by main |
| channel and main, `Cnl`, `main` | where main is | `init`, `start`, `cb`, `stop`, destructor | composes the two above |
| pools, `CapturePoolMgr`, `ObjectPoolEx` | free frames | `initialize`, `getNew`, `release` (from the deleter) | called by every provider's reading thread and by whatever thread drops the last reference |
| audio file, `CWaveReader` | chunk positions, read position | `open`, `getAudioFrame`, `close` | called by readThread only |
| video file, in `CFrameProviderYuvFile` | `m_fpVideo` and its position | `initVideo`, `loadVideoFrameFromDisk`, `CloseVideoFile` | called by readThread only |
| frames, `AudioFrame`, `VideoFrame` | a buffer, its size and that of its contents | `init`, `SetSampleCnt`, `SetMonoCnt`, `setBufferSize`, `VideoFrame` | made by the pools, filled by the provider, sent by the consumer |
| resampler, `CAudioProcess` | two planes of samples | `ProcessAudioToFLT` | called by `sentToNDI` for each audio frame |
| format tables, `FFMPEG_AUDIOSAMPLE`, videoFrame.cpp, `Configurator` | none | `getFrameSamples`, `getFrameRateNum`, `videoFormatToHeight`, ... | pure lookups, by the provider for each frame, by the frames and by the configuration |
| timecode, `Timecode`, `ControlerTimeCode` | hours, minutes, seconds, frames | `increase`, `decrease`, `compare`, frame conversion | pure arithmetic, unused by the threads |
| configuration, `Configurator` | the format, the cameras' files | `load`, `prepareData`, `GetInstance` | loaded on first use, then only read, by every component |
| logging, `LogWriter` | `append_list` under `m_lock`, the two settings of `LogConfig.ini`, the queues of log4cplus | `WriteLog` in its forms, `get_appender` | called from every thread |

What is hard to test here, and what has to be true:

- the pair of a video and an audio frame is handed from thread to thread in
  several steps; it must stay a pair, in order, and arrive once (`ImplementsPipe`
  of the consumer and of the provider, `ChannelImplementsPipe`);
- the semaphore announces pairs; an announcement without a pair makes the
  consumer dereference null (`NoNullFrame`);
- the queue, the lists and the pools are bounded, the bounds are tested without
  locks (`ImplementsPipe`'s capacity, `PoolSuffices`);
- threads are stopped by flags and joined, in a fixed order, while frames are on
  their way (`QuietAfterStop`, `QuietWhenClosed`, `NoReadAfterClose`,
  `NoUseAfterDelete`, `CloseReturns`, `StopReturns`, `ExitUnlessListFull`);
- a frame goes back to its pool from whatever thread drops the last reference
  (`ImplementsLoan`, `NoLeak`), and `initialize` meets each frame only because the
  free list is first in, first out (`BuffersAllocated`);
- the audio file has any chunks in any order, and is restarted when less than a
  frame is left: the position must stay on a sample (`DataFound`, `Aligned`,
  `ImplementsTape`), and nothing but data may be played (`HeardIsData`, which the code
  violates);
- a sample passes three loops, with seven pointers and counters, through buffers
  that are used again for frames of other lengths (`HeardRight`, `IInv` of `AudioPath`);
- a picture may be read partly, or from the start again, and three tables in three
  files say how large it is (`PicturesInOrder`, `TablesAgree`);
- audio frames have whole numbers of samples, the frame rates are fractions: over
  hours nothing may drift (`WithinOneSample`);
- drop-frame counting forwards, backwards and by arithmetic has to agree
  (`IncreaseCounts`, `DecreaseCounts`, `CompareOrders`, `FromFrameInverse`);
- one buffer and one loop serve all cameras of `Config.ini` (`StopsAtHole`,
  `OwnFiles`, for the Windows build; the Linux build violates them);
- threads that write to a log for the first time must share one appender, looked up
  twice under two kinds of lock; lines must not be lost but for a reason, and a disk that
  has stopped must not hold up the logs whose files are open (`OneAppender`, `ImplementsLogBook`,
  `WriteReturns`).

`PROJECT.json` lists these hazards, and those that no property covers yet, at
their lines.

## Modules

The channel:

- `FramePipe` - abstract: a FIFO of pairs with a capacity that delivers what is
  inside while it is running.
- `FrameConsumerNDI` - the consumer.  One action per step of each thread that
  another thread can observe: the two `emplace_back` calls and the `raiseEvent`
  of `OutputFrames` are three actions, `waitEvent`, the audio half and the video
  half of `sentToNDI` three more.  `SemInitial` and `TimedWait` select the build
  (below).
- `FrameProviderYuvFile` - the provider.  `m_locker` is a variable; the pushes and
  pops are separate actions between lock and unlock, so that mutual exclusion is a
  property and not an assumption.  The unlocked `m_queueFrame.size()` returns
  anything from 0 to the limit while the other thread is inside `pop` (`SizeSeen`).
  Reading a video frame has the outcomes of `loadVideoFrameFromDisk`; the failing
  one still counts `m_dwTimes`, as the code does.
- `NDIChannel` - both, with `Cnl::cb` between them and main around them.  It extends the
  provider's module, whose definitions keep their names, and instantiates the
  consumer's as `C`; what belongs to the channel begins with `Channel`.  The pool frames in use are computed from who refers to what.
  `around`, chosen at the start, is what the channel meets outside: its share of
  the pools, and whether reads of the video file may fail.

The pools:

- `FrameLoan` - abstract: a frame is lent to one borrower at a time, and only
  after it has come back.
- `CapturePool` - `ObjectPoolEx`'s list, `initialize` run by main frame by frame, and
  threads that get, copy and drop `shared_ptr`s; the deleter's `release` is a step of
  its own behind the drop.

The audio:

- `LoopingTape` - abstract: pieces played in order, and from the start again when
  less than a piece is left.
- `WaveReader` - `open` walks the chunks one action each (`GetMarkerFails`,
  `WalkOther`, `ReadFMT`, `ReadDATA`, ...), then `getAudioFrame` reads on, or again
  from the data on, or fails.  Positions are bytes; the local `offset` of `open`
  and the position of the `FILE` are separate variables, as they are in the code.
- `AudioFrame` - the buffer of an audio frame, `init`, `SetSampleCnt` and `SetMonoCnt`.
  `setBufferSize` keeps a buffer that is large enough, with what is in it.
- `WaveSamples` - `AudioFrame` being filled: `getAudioFrame` mutes it and converts
  the samples, one action per turn of the inner loop, with the pointers of the
  code.  A value is known by the frame and the sample of the file it comes from.
- `AudioPath` - `WaveSamples` and the consumer's half: `sentToNDI` describes the
  frame to NDI or, when it is too long, mutes it; `ProcessAudioToFLT` sorts the
  samples by channel, one action per turn, and `swr_convert` makes floats of them.
  Then the frame is used for the next one.
- `AudioFile` - `WaveReader` and `AudioPath`: the samples of a frame are read just when
  `fillBufferFromDisk` finds them, and the reader is opened, called and closed as the
  provider does it.

The frames that are built:

- `VideoFormat` - the tables of `AudioSampleHeader.h` and their lookups.
- `VideoFrame` - the size of a `VideoFrame`'s buffer (videoFrame.cpp), and what
  `addChannel` of the consumer tells NDI (`Described`).
- `VideoFile` - `initVideo`, and `loadVideoFrameFromDisk`, which reads on, reads again
  from the start, or makes the frame black.  It implements `LoopingTape`, as the audio
  file does.
- `BuildFrame` - `VideoFile` and the cadence as `m_dwTimes` walks through it.

The log:

- `LogBook` - abstract: each line is in its log once, before the call returns, and
  which lines may be dropped.
- `LogWriter` - `WriteLog` from the test of the level to `doAppend`.  `m_lock` has
  readers and a writer; the lookup under the shared side, the second lookup, the
  loading of the settings, the making of an appender and its entry into `append_list`
  are an action each.  Of log4cplus (external) the model has the asynchronous queue
  with its limit and its thread.

The rest:

- `Timecode` - `Timecode::increase`, `decrease` (also by a number of frames),
  `compare` and `==`, and the arithmetic of `ControlerTimeCode`; a behaviour counts
  in one direction from a given timecode.
- `Configurator` - `load`'s loop over the cameras, with the Windows call and the
  Linux reader of `.ini` files behind `readStringValue`, `prepareData`, and the
  channels main then opens.  Of a text only its length, its quotation marks and
  the line it comes from are kept: enough to say whose file name is found.  What the
  copy of a text uncovers behind the end of the one before is left open (`Behind`).
- `Playback` - `Configurator` and then `BuildFrame`, with the format that load has read.

`...Proof` hold the proofs, `MC...` the TLC instances.  Definitions whose comment
begins with "Mutant:" are plausible errors in the operator below them, none of
which is part of a specification: `PROJECT.json` says which property each one breaks.

History variables (`accepted`, `airedV`, `airedA`, `built`, `sent`, `was`, `counted`,
`skipped`, `heard`, `picture`) record what happened; no guard reads them but for the bounds
`MaxFrames`, `MaxBuilds`, `MaxTimes` and `MaxLines`.

The two builds: on Windows the semaphore starts at 0 and `waitEvent` times out
(`SemInitial = {0}`, `TimedWait = TRUE`).  On Linux `sem_init` is given
`LONG_MAX`, which it refuses, so the count is what the memory held, and `waitEvent`
never times out (`TimedWait = FALSE`, any `SemInitial`).

## Runs

| run | instance | what it shows |
|---|---|---|
| `consumer` | list bound 3 (the code's), 7 pairs, Windows | the invariant of the proofs; no null frame; stopping falls between pairs; implements `FramePipe`; nothing is sent after a stop; a stop returns |
| `provider` | queue limit 2, 5 pairs | the invariant of the proofs, mutual exclusion in it; implements `FramePipe`; nothing is read after the close; a closed channel is quiet; frame numbers grow; a close returns |
| `channel` | queue limit 2, list bound 1, 6 pairs; a pool share of 6, or one of 2 with reads that may fail | a share of limit + bound + 3 always suffices; no use after delete; the channel implements `FramePipe`; it shuts down unless its callback is stuck on full lists |
| `pool` | 3 frames, 3 threads | a frame is lent to one at a time, has a buffer, and comes back when nobody holds it |
| `audio` | 45 files, nothing behind the data in those that `open` accepts; 3 frames of 1 to 4 samples of 3 channels, 16, 24 and 32 bits, 1 to 3 channels in the file; buffers made for 2 and 3 samples | the invariant of the proofs; the data is found; audio frames start and end between samples; the reader implements `LoopingTape`; what NDI is given is the audio of the file, channel by channel, whatever frames have used the buffers before |
| `playback` | Windows build; any lines for the cameras 1, 2, 3, 10, every format; 25 frames of each listed format, 8 video files | the cameras stop at the first hole; each channel gets its own video and audio; audio and video stay within one sample; the tables of the formats agree; pictures are whole and in order |
| `timecode` | 7 rates, 4 calls around every carry | counting forwards, comparing, and the arithmetic agree; so does counting backwards until it meets the frame numbers named under Departures |
| `logger` | 2 threads, 2 logs, 3 lines, a queue of 1 | the invariant of the proofs; one appender per log; implements `LogBook`; a call returns although the other log's disk has stopped, if that log's file is not being opened |
| `consumer_linux` | violation | a null frame is dereferenced in the Linux build |
| `channel_shutdown` | violation | main never returns: the callback is stuck |
| `audio_tagged` | violation; a file with tags behind its data | the tags are played as audio |
| `config_linux` | violation; a Linux `Config.ini` without a line for camera 2 of 3 | camera 2 gets the files of camera 1, and camera 3 is found behind the hole |

Bounds.

- `FRAME_BUFFER_SIZE` is the code's 3 in `consumer`; 7 pairs fill the lists (4),
  and leave three to be accepted while they drain.  In the compositions the
  queue limit 15 is 2 and the list bound 1: each queue can be empty, partly filled
  and full independently of the other, and the 6 pairs of `channel` are what fills
  everything at once: 2 in the queue, 1 in the sender, 2 in the lists, 1 being
  sent; after them the pool gives no more (`MayBuild`).  The code never compares the two limits, so nothing depends on their
  values.  The ample pool share is the least with which `PoolSuffices` holds.
- Three frames in `pool` let one be free, one held by two threads and one on its
  way back; three threads are those of a channel.  The code has 200 frames.
- The files of `audio` have up to two chunks before the data, data of no, less than
  one, one and several audio frames, with and without a rest; they are cut off in
  the data and in the format, without data, or refused.  The lengths 1 to 4 of a
  frame alternate freely, as 1601 and 1602 do in the cadences, and are shorter and longer than
  what each of the two buffers is made for (2 and 3); with 3 channels the file has
  fewer or as many.  The proofs are for the code's 16 channels and 2000 samples as well.
- 25 frames are five cadences; the video files have no, part of one, and up to three
  pictures of the formats' sizes.  The proof is for any number and any file.
- The timecodes lie on both sides of every change of second, minute, ten
  minutes, hour and day, at every frame of the second; four calls reach across
  the numbers that are left out.  The proof is for every timecode of the day.
- In `logger` two threads can both miss the same log, two logs let one be stopped,
  and a queue of one line is full after one; the three lines are enough to find
  a log made, its queue full and a third line waiting for it.
- `NbRecorders` is 3 instead of 16 in `playback` so that the loop can fill the list.

Deadlock is checked but where the program really stops: a closed reader, the end
of a loop, the bound of a count or of the lines, a loaded configuration.

Fairness.  Every thread of the channel is scheduled (WF of its steps).  The two
lock operations of the provider get SF: both threads sleep for milliseconds outside
the lock in every round, so neither can be kept from it for ever.  Nothing is
assumed of the user (`Getchar`), of the owner beyond finishing the operation it is
in, of the file or of the pools.  `CloseReturns` of the provider alone assumes that
the callback returns; `NDIChannel` replaces that by the real callback, which may not.
In `LogWriter` each thread finishes its call (WF of its steps); the two lock operations
get SF, because other calls take the lock again and again but the lock of the code
lets none wait for ever; so does `doAppend`, whose room in the queue others compete
for.  Of the disk of a log in `Stuck` nothing is assumed: neither that it takes a line nor
that its file can be opened.  The opening is done with `m_lock` held exclusively
(LogWriter.cpp:43, 57), and a disk that stops just then does hold up the writers of all
logs; `WriteReturns` is about the behaviours in which it is not opening for ever.
In `CapturePool` main finishes `initialize` and a thread that is inside `getNew` or
the deleter goes on; whether anybody ever drops a frame is left open.

## Proofs

All proofs are for every value of the constants.

`FrameConsumerNDIProof`:

- `TypeCorrect`: `TypeOK`, in both builds and for any initial count;
- `PairsInvariance`: `PairsInv`, in both builds too.  `ListCounts` says where each accepted
  pair is, for each list on its own, because a pair is pushed and popped in two steps;
  `Contents` which pairs they are, `Lifetime` which thread may still run.  A null
  frame stops the thread before anything is popped, so none of this needs the count of the
  semaphore to be right;
- `EndsOnPair`, `StoppedIsQuiet` and `PipeSafety` (the safety part of `FramePipe`, under
  the mapping of `ImplementsPipe`) follow from it, in both builds;
- `Invariance`: `IInv`, which adds `EventCounts`: the semaphore counts the pairs that
  are complete in the lists.  It needs `SemInitial = {0}` (Windows, or a Linux build whose
  `sem_init` works), and `NeverNull`, which is not inductive alone, follows from it.

`CapturePoolProof`:

- `Invariance`: a frame is in one place at a time (`OnePlace`), and `Filling`: while
  `initialize` runs, the frames it has still to meet are at the front of the list,
  in front of those it has put back.  Without `Filling`, `BuffersAllocated` is not
  inductive;
- `AllBuffersAllocated` and `Implementation` (of `FrameLoan`) follow.

`WaveReaderProof`:

- `Invariance`: `Walk` (`offset` is the position of the `FILE`, at the start of a chunk)
  and `Position` (what is played lies in the file, behind the start of the data);
- `OffsetCorrect` and `ChannelsStay` hold for all files; `Implementation` (of
  `LoopingTape`) assumes `DataIsLast`, that nothing follows the data, because the code
  plays what does (`audio_tagged`).

`NDIChannelProof`, the provider:

- `Invariance`: `IInv`, the provider's counterpart of the consumer's: `VideoInv` and
  `AudioInv` place each pair that was built, for each queue on its own; `RoomInv` says why
  the size that was read without the lock may be stale and the limit still holds;
  `ThreadInv` and `OwnerInv` which thread lives in each phase of opening and closing.
  `MutualExclusion` and `QuietWhenClosed` are not inductive without them;
- `QueuesExclusive`, `OpenWhileRead`, `ClosedIsQuiet`, `SentNumbersGrow` follow;
- `PipeSafety`: the safety part of `FramePipe`.

`NDIChannelProof`, the channel, in both builds:

- every step of the channel is a step of the provider or leaves it alone
  (`ChannelDrivesProvider`), so that `ProviderInChannel` holds: what is proved of a provider
  with an arbitrary callback and owner holds inside the channel.  Each step is one of the
  consumer's too (`ConsumerStep`), but with pairs that the callback chooses, so that
  its `PairsInv` is proved once more, for any pairs;
- `ChannelInvariance`: `ChannelInv`, the two invariants and what ties them together.
  `MainInv` says what is left of threads and objects at each place of main; `CallInv`
  that `OutputFrames` runs only inside the callback, and that the consumer has accepted
  what the sender has given to the callback, but for the pair that it still refuses;
  `LocalsInv` that readThread refers to no frame while it waits for room or builds;
- `DeletedUnused` (`NoUseAfterDelete`) follows from `MainInv` and `CallInv`;
- `ShareSuffices` (`PoolSuffices`): the frames of a pool in use are those of the queue, the
  lists and the hands of the threads; the sender's and the one being accepted are
  the same, which makes QueueLimit + FRAME_BUFFER_SIZE + 3 of them and not more;
- `ChannelPipeSafety`: from `buildFrame` to NDI the channel is a `FramePipe`: the provider's
  numbers reach NDI in order, in pairs, and once;
- `ChannelStopIsQuiet`: once main has stopped the consumer nothing reaches NDI, although
  the provider is stopped later; `ChannelNeverNull`: with `SemInitial = {0}` no null frame
  is met inside a channel.

`AudioPathProof`:

- `Invariance`: each pointer is where the counters of its loop say (`AtCounters`,
  `SortAtCounters`), the buffer has room (`BufferFits`), and every sample that has been
  passed is in its place (`ChannelsConverted`, `ChannelsSorted`), the rest still mute.
  `HeardRight` alone is not inductive: it says nothing before the frame is sent;
- `NDIHearsTheFile`, for any numbers of channels and samples.  The places of samples
  are products; `PlaceInside`, `PlaceBefore` and `PlaceUnique` are what the proofs
  need of them;
- `PathInFile` and `ReaderInFile`: `AudioFile` is an `AudioPath` and a `WaveReader`, so that
  what is proved of each, and assumes nothing of when the other steps, holds of both.

`BuildFrameProof`: `Invariance` (`InPhase`: the lead of the audio depends on the
place in the cadence only, `Lead`; and the position of the video file), hence
`NoDrift` and `PicturesPlayed` (of `LoopingTape`); `OneFormatEverywhere` goes through
the listed formats.

The same module has the proofs about `Configurator`.  `ConfigInvariance` (`ConfigInv`) says of
both builds what is in the list, the buffer and the channels that are opened, and
of the Windows build that each camera found is one the file gives files to, and has those.
Hence `NoCameraBehindHole` and `OwnFilesOpened`, which are about the Windows build, for any file
and any buffer: there a value is that of the first line with the key (`OwnLine`).
In the Linux build both are false (`config_linux`, and Departures).  `FramesInPlayback` and
`ConfigInPlayback`: `Playback` is a `BuildFrame` and a `Configurator`.

`LogWriterProof`:

- `Invariance`: who holds `m_lock`, what a thread knows of `append_list` in each of its
  steps (`CallInv`), that every appender is in the list or being put there
  (`RegistryInv`), and that the settings come first (`ConfigInv`);
- `OneAppenderEach` follows, and `Implementation`: each step is one of `LogBook` or none.

`TimecodeProof`: `Invariance` (each call moves round the day by one, a call of `decrease` at
the numbers named under Departures excepted; `Increases`, `Decreases`), `ComparesAsCounted` and `FoundBack`, for every timecode at all seven rates.
The lemmas `IncreasedCounts`, `DecreasedCounts`, `BeforeCounts` and `FromFrameBack` treat
the units as unknown numbers with the relations that `SetFps` gives them.

Assumptions: the named `ASSUME`s of the modules (sizes are positive, formats are listed,
rates are known, `Null` is no frame, there are at most 99 cameras), `SemInitial = {0}` and
`DataIsLast` where they are named above.

Every invariant and every action property of the runs is proved.  Only model-checked is
liveness, which TLAPS cannot treat: `StopReturns`, `CloseReturns`, `ExitUnlessListFull`,
`NoLeak`, `WriteReturns`, and the liveness part of `ImplementsPipe` and
`ChannelImplementsPipe`, whose safety part is proved.  The runs that end in a violation
are checked, not proved.

## Departures from what the code says of itself

Four are kept as runs, see `PROJECT.json` for the lines they quote:
`consumer_linux`, `channel_shutdown`, `audio_tagged` and `config_linux`.  The others below
were met while modelling; the models do what the code does, and the properties are
stated so that they exclude exactly these cases, or that the code satisfies them.

- `closeChannel` calls `fclose` and keeps the pointer
  (FrameProviderYuvFile.cpp:265); `removeChannel`, the destructor's `closeChannel`
  and its `CloseVideoFile` (lines 26, 27) each close the same file.
- The comment of FrameProviderYuvFile.cpp:145 gives a channel 15 frames; it also
  holds those in its sender, in the lists and being sent, 15 + 1 + 4 + 1 in all.
- The Linux `waitEvent` ignores its timeout (SemaphoreClock.cpp:37), so a consumer
  that no frame reaches never sees `m_bExit`, and `stopChannel` waits for ever.
- `fillBufferFromDisk` reads to the end of the file, not of the data
  (WaveReader.cpp:230); chunks behind the data are played (`audio_tagged`).
- A chunk of an odd size is followed by a byte that pads it, which `open` does not pass
  over (WaveReader.cpp:193); the files of `WaveReader` have their chunks one right behind the
  other (`Consecutive`), as `open` takes them.
- With a format and no data chunk `getMarker` has closed the file, and `open` calls
  `fseeko64` for a null `FILE` (WaveReader.cpp:203).  What that does is undefined; the
  model lets it do nothing and goes on with the reader that plays silence.
- The raw buffer has room for 2000 samples of 16 channels of 32 bits
  (WaveReader.cpp:14); at 23.98 frames a second a frame has 2002.
- Files of 16 bits: two samples are read at once and halves are written
  (WaveReader.cpp:274), while the missing channels are muted through another
  pointer.  `HeardRight` is about 24 and 32 bits.
- `decrease` takes frame 2 (4 at 59.94) of any second of a minute that is no tenth one for
  the first frame of the minute, because it does not ask for the second, and passes over two
  (four) frames that `increase` and `ControlerTimeCode` count (timecode.cpp:42; `SkipsBack` in
  `Timecode`, whose ghost variable `skipped` says that it has happened).  `DecreaseCounts` counts
  calls, and says nothing of the number of the frame from there on.  No doc, comment or
  test says what `decrease` does there, and the program never calls it.
- The Linux `.ini` reader ends a value by looking at the wrong string
  (Configurator.cpp:1074), so that a quotation mark of the camera before can
  be taken for the end of an audio name, and takes `Cam10` for `Cam1` (line 1055).  `OwnFiles`
  is false in that build.
- `prepareData` divides by zero for the format without a frame rate, `UNKNOWN`
  (Configurator.cpp:793).  For the two SD formats, and any number that is no format, the
  getters loop over `FP_FORMAT_MAX` (33) rows of a table of 31 (AudioSampleHeader.h:75, 84, 93,
  103, 113) and compare with what lies behind it.  `VideoFormat` has zeros for these formats; where
  a step depends on what is found there (`prepareData`, `is4K`) the model allows for any of it, and
  `Playback` follows the frames of listed formats only.
- Debug lines that are wanted are lost until a line of another level has loaded the
  settings (LogWriter.cpp:93 reads `enable_debug_log`, line 55 loads it).  `LogBook` allows
  it while every log is empty.
- A line longer than the buffer is dropped although `_TRUNCATE` is passed: the call
  then returns -1, which the code takes for a failure (LogWriter.cpp:99-106).
- `initVideo` reads 8 bytes and does not ask how many it got
  (FrameProviderYuvFile.cpp:68-72): a video file of less than 8 bytes is judged by what
  `id` held before.
- On Linux a file with one camera gives sixteen: the buffer keeps the text of the
  camera before (Configurator.cpp:610, 1030), so that the loop does not meet the hole for
  which it says "break;// don't support config hole" (line 620): `config_linux`.
- `get_appender` opens the file of a log with `m_lock` held exclusively
  (LogWriter.cpp:57), so that a disk that stops then holds up every log (Fairness, above).

## Not modelled

`PROJECT.json` has a note for each part.

- Vendored libraries (fmt, log4cplus, the NDI and ffmpeg headers).  They are most of
  the lines of the repository, which is why the map covers a small part of them;
  of the program's own sources it covers most of what changes state.
- The clocks and tick counts: nothing depends on their values.
- `FrameList`, `SyncQueue` and the frames that no thread of the program uses
  (`GPUFrame`, compressed video).
- The creation of the two singletons: main makes both before it starts a thread.
- `Synchronized` and the reader/writer lock of Lib.Base, which only wrap what the
  models have as locks.
- Of `Configurator` the masks and maps of cameras that the program does not read; of
  `ControlerTimeCode` the duration fields, which are floating point.

A composition of eight channels is left out: they share the pools and the log
only, and `around` of `NDIChannel` and the threads of `CapturePool` and `LogWriter` stand
for the others.
