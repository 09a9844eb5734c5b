# TLA+ models of opae-libs: libdfl and the UIO plugin

This directory holds TLA+ models of the C sources under `src/`, the TLC
configurations that check them, and `PROJECT.json`, which lists the components,
runs, mutants, the source lines each definition models, findings and hazards.

## 1. Inventory

### Components

| Component | Source | State it keeps | Operations |
|---|---|---|---|
| udev context | `src/libdfl/opae_dfl.c` 88-90, 144-173 | `_udev_ctx` (process-wide `struct udev *`), `_udev_ctx_lock` (recursive pthread mutex) | `dfl_initialize`, `dfl_finalize`; the lock is also taken by `dfl_device_new`, `dfl_device_enum` and `dfl_device_get_compat_id` |
| Attribute reader | `opae_dfl.c` 175-292, 528-536, 683-695, 709-721 | none of its own: it reads the udev attribute cache and, when the cached value is empty, the sysfs file | `dfl_parse_attr32/64`, `dfl_direct_read_attr(32/64)`, `dfl_string_rtrim`, `dfl_device_get_attr`, `dfl_device_set_attr`, `dfl_device_read_attr64`, `dfl_device_write_attr64`, `dfl_device_get_ports_num`, `dfl_device_get_bbs_id` |
| PCI address parser | `opae_dfl.c` 44-45, 92-131 | the segment, bus, device and function fields of a record | `parse_pcie_addr` |
| Error-indicator enumerator | `opae_dfl.c` 55, 319-358 | `errors` list and `num_errors` of a record | `dfl_get_errors` |
| Device constructor | `opae_dfl.c` 360-452, 497-505 | one `dfl_device` record: udev handle, type, pci and region ancestors, ids, numa node, errors, object id | `dfl_device_new`, `dfl_device_clone` |
| Device enumerator | `opae_dfl.c` 454-495, 507-521 | the `next` chain of records | `dfl_device_enum`, `dfl_device_destroy` |
| Topology / parent lookup | `opae_dfl.c` 538-572 | none (reads the region directory) | `dfl_device_get_parent` |
| Identity resolver | `opae_dfl.c` 574-676, 697-707 | none (reads compat_id / afu_id) | `dfl_parse_guid`, `dfl_device_get_compat_id`, `dfl_device_get_afu_id`, `dfl_device_guid_match` |
| UIO plugin token list | `src/plugins/uio/token.c` 26-191 | per PCI device, a linked list of `uio_token`s; handles with a mutex | `find_token`, `get_token`, `clone_token`, `free_token_list`, `token_check`, `handle_check`, `handle_check_and_lock` |
| UIO plugin entry points | `src/plugins/uio/*.c` | none in the live code | `uio_fpgaOpen/Close/Enumerate/...`: bodies are `#if 0`; the live code returns `FPGA_OK`. `get_guid` reverses 16 bytes; `dump_csr` writes a file |
| udev mock and tests | `src/tests/...` | the mock registry loaded from YAML | test double of libudev; gtest cases |

### How the parts interact

`dfl_device_enum` takes the context lock, scans udev for devices whose DRIVER
is `dfl-fme` or `dfl-port` and calls `dfl_device_new` on each, which takes the
same recursive lock again around `udev_device_new_from_syspath`. The
constructor classifies the sysname, walks the parents to the `fpga_region`
and the `dfl-pci` device, parses the PCI address, reads `vendor`, `device` and
`numa_node` through the attribute reader and builds the error list. Any failure
unwinds: the constructor frees what it built, and the enumerator destroys the
whole batch. `dfl_device_get_parent` lists the region directory without the
lock and calls `dfl_device_new` on the first `dfl-fme.*` entry.
`dfl_device_get_compat_id` scans all `fpga_region` devices under the lock and
reads `compat_id` from the first one below the card's PCI path that is not the
device's own region. `dfl_device_guid_match` compares the result with a
caller's GUID.

The UIO plugin is not connected to libdfl: its discovery code (`pci_discover`,
`uio_walk`, the enumeration loop) is compiled out.

### What is hard

* Failure unwinding. Every step of `dfl_device_new` and `dfl_get_errors` can
  fail, and each failure path frees a different subset of what was allocated.
  The batch in `dfl_device_enum` must be all or nothing.
* Layered parsing of semi-structured text: a cached value, a fallback file
  read with trimming, `strtoul` with and without an end check, `sscanf` per
  GUID byte, and a regex for PCI addresses. Each layer has edge cases at
  empty, whitespace-only, partial, short and overlong inputs.
* Concurrency on the one shared context. The lock guards only creation of
  handles and scans. Handles are used after the lock is released, and
  `dfl_finalize` may run at any time. Initialization is not reference
  counted. The lock is taken again while it is already held, so it must be
  recursive.
* Order dependence. The first enumerated region under the PCI device wins in
  `dfl_device_get_compat_id`. The first `readdir` entry wins in
  `dfl_device_get_parent` too, but a DFL region directory holds one
  `dfl-fme.*` entry, so that order cannot change the result.

### What makes each component correct

* Constructor: a record is returned only if its kind matches its sysname,
  its pci is the nearest `dfl-pci` ancestor and its region is an
  `fpga_region` between the device and that PCI device. Otherwise NULL is
  returned and nothing stays allocated.
* Enumerator: the result is NULL or one record per matching device. No
  partial list is returned and nothing leaks.
* Destroy: it releases exactly what construction allocated.
* Parent: it returns only for a port, and the result is the FME of the same
  region and card.
* Identity: success means a GUID was written, and that GUID is the device's
  own. `guid_match` returns 0 only for the device's own GUID
  (not checked: it fails on a card without a PR region, see `compat_no_pr`).
* Attribute reader: a value is reported only when the text is a number. The
  cached path and the file path agree on the same text. Allocation failure
  becomes an error, never a crash.
* Context: the lock holder is unique, the lock is released on every return
  path, nesting does not deadlock, and no handle or scan uses a context that
  `dfl_finalize` has released.
* UIO token list: `get_token` gives at most one token per region. A clone is
  a deep copy of the parent chain.

## 2. Plan

Modules, most important first (status as of this version):

1. **`DflDevice`** (done): the libdfl API as one client sees it.
2. **`DflAttr`** (done): the layered attribute reader and the hex64 writer,
   checked against the spec's reading of a number.
3. **`DflGuid`** and **`DflPci`** (done): `dfl_parse_guid` and
   `parse_pcie_addr`, each checked against a reference definition over
   bounded inputs. `CLib` holds the C library routines they share.
4. **`DflContext`** (done): the udev context and its recursive lock under
   two threads.
5. **`UioToken`** (done, partly): the UIO plugin's token list helpers.
6. **`DflEnumAbstract`** (done): the record-list contract of spec.md 3,
   4.1, 4.2 and 4.6. A call either hands the client one whole list of the
   records the spec defines, or changes nothing. `DflDevice` implements it
   through `INSTANCE ... WITH lists <- owned`.
7. Remaining: the `uio_handle` checks in `token.c`, which no live code
   reaches (section 4).

The 12 runs are one per question. Some runs are shared:
- `attr_parse` and `guid_short` each state one spec contract that two flaws
  break, and TLC reports the shorter trace;
- `attr_fail` covers two flaws with one property.

The stale context after `dfl_finalize` is a flaw the model reaches but no run
checks. `PROJECT.json`'s hazards say so.

## 3. Modules and runs

| Run | Module / cfg | Expect | Checks |
|---|---|---|---|
| `device_api` | `MCDflDevice` / `DflDevice.cfg` | pass | `TypeOK`, `ParentSameCard`, `NoLeak`, `ImplementsEnumContract` |
| `compat_no_pr` | `MCDflDevice` / `DflDevice_compat_nopr.cfg` | violation | `CompatIdSound` |
| `region_nested` | `MCDflDevice` / `DflDevice_nested.cfg` | violation | `ImplementsEnumContract` |
| `attr_api` | `MCDflAttr` / `DflAttr.cfg` | pass | `TypeOK`, `RoundTrip` |
| `attr_parse` | `MCDflAttr` / `DflAttr_parse.cfg` | violation | `ReadMatchesSpec` |
| `attr_fail` | `MCDflAttr` / `DflAttr_fail.cfg` | violation | `DirectReadFailureSafe` |
| `guid_parse` | `MCDflGuid` / `DflGuid.cfg` | pass | `TypeOK`, `GuidComplete` |
| `guid_short` | `MCDflGuid` / `DflGuid_short.cfg` | violation | `GuidSound` |
| `pci_addr` | `MCDflPci` / `DflPci.cfg` | pass | `PciAddrOfName` |
| `pci_vmd` | `MCDflPci` / `DflPci_vmd.cfg` | violation | `PciAddrOfName` |
| `uio_token` | `MCUioToken` / `UioToken.cfg` | pass | `UniqueRegion`, `NoLostToken`, `ClonesDisjoint`, `ImplementsTokenTable` |
| `context_api` | `MCDflContext` / `DflContext.cfg` | pass | `LockReleasedOnReturn`, `ScanSeesOneContext`, `ContextNotLeaked`, `LockEventuallyReleased` |

Each property of a passing run has a mutant in `PROJECT.json`: a plausible
bug in the mapped definition, under which TLC finds the property violated.

### DflDevice (`DflDevice.tla`, `MCDflDevice.tla`)

State: `owned` is the lists the client holds, one per returned head.
`handles`, `records` and `errNodes` count live udev references,
`dfl_device` structs and `dfl_error` nodes. `last` is the last call, with its
argument, result and output. Each call is one atomic action, which is what
the code does under one thread. The faults the environment can inject are
chosen by `\E`: calloc, `udev_device_new_from_syspath`, the PCI id/address
parse (`dfl_device_parse_id` is abstracted to its outcome, since the ids are
data no property reads), the numa read, the m-th error-node malloc, `udev_enumerate_new`,
`opendir`, the candidate handle in compat_id, and the junk in an unwritten
GUID buffer.

`dfl_device_new` is the ordered sequence `ConstructSteps`. The first failing
step selects the failure path. The error nodes built before that step stay
allocated because `err_unref_dfl_dev` does not free them. The ancestor walk
`WalkParents` is the code's loop: every `fpga_region` ancestor overwrites
`region`, and the first `dfl-pci` ancestor stops the walk.
`dfl_device_enum` constructs each listed device in order and, at the first
failure, destroys what it built. Attribute texts are abstracted to pass or
fail here; their parsing is `DflAttr`'s job.

Bounds: at most 2 lists held (`MaxOwned`) and malloc failing at the 1st or
2nd error node (`MaxErrs`). That is enough for every failure path of every
call: an enumeration fails at its first, middle and last device, and a clone
or parent lookup runs while a list is held. Two cards are the fewest that
can tell one card's PR region from another's.

**Refinement.** `DflEnumAbstract` is the contract a client relies on. Its
only state is `lists`, the record lists the client holds. `RecordOf(n)` is
the record the spec defines for device `n`:
- the kind named by the sysname;
- the nearest `dfl-pci` ancestor;
- the nearest `fpga_region` ancestor below it;
- the error attributes, in registry order.

Its actions:
- `Enumerate` hands over the records of every matching device in one list.
- `Construct` hands over the record of a constructible device.
- `CloneRecord` hands over a re-resolved copy of a held record.
- `Parent` hands over the record of an FME in a held port's region.
- `DestroyList` takes back one whole list.

Every failure is a stutter. `DflDevice` defines
`Abs == INSTANCE DflEnumAbstract WITH lists <- owned`, and
`ImplementsEnumContract == Abs!Spec` is checked as a PROPERTY. It subsumes
the earlier all-or-nothing and well-formed-record invariants: a partial
list, a record with a missing or wrong ancestor, or a clone that differs from
its source is a step the abstract spec does not allow. `ParentSameCard` stays
separate, because a parent lookup that returned the FME itself would look
like a clone to the abstract spec.

* `device_api` (pass): every call with every fault on the two-card registry.
* `compat_no_pr` (violation): card B has no PR region.
  `dfl_device_get_compat_id` on its FME finds no candidate and still returns
  `FPGA_OK` without writing the GUID. The spec says "No candidate ... →
  NotFoundError". `dfl_device_guid_match` then compares an uninitialized
  buffer.
* `region_nested` (violation): a port `portA1` sits below card A's PR region
  `regA1`, which is inside `fmeA` inside `regA0`. The code's walk records
  `regA0`, the outermost region below the PCI device. Spec 4.2 step 3 says
  the walk tracks the nearest region, `regA1`. The first `dfl_device_enum`
  does not refine the contract.

### CLib (`CLib.tla`)

The C library routines the parsers call, as operators over sequences of
one-character strings: `isspace`, hex and decimal digit values, `strtoul`
and `strtoull` (white-space skip, base 0/10/16 with the `0x` prefix and the
leading-0 octal rule, and the end pointer), and the `%x`/`%d` formatting the
kernel and `dfl_device_write_attr64` use. Signs are not modelled.

### DflAttr (`DflAttr.tla`, `MCDflAttr.tla`)

State: `cache` is udev's cached value of one attribute (NULL, or a text).
`file` is the sysfs file (absent, or a text). `written` is the value of the
last successful `dfl_device_write_attr64` still in place. `pages` counts page
buffers left allocated. `last` holds the call and its result.

Operators translate the reader function by function:
* `dfl_string_rtrim`;
* `dfl_direct_read_attr`, which returns the byte count, the buffer, whether
  it is terminated, and a leaked page;
* `dfl_direct_read_attr64`, with its whole-text end check;
* `dfl_parse_attr64`: the cache first, `strtoull` base 0 with a
  nothing-converted check, then the file fallback when the cache is empty.

Actions:
* `ReadAttr`: `dfl_device_read_attr64`, `get_bbs_id` and `get_ports_num`.
  The last two return `FPGA_INVALID_PARAM` unless the device is an FME.
* `WriteAttr64`: formats `"0x%lx\n"` and calls `SetSysattr`, which is
  libudev's `set_sysattr_value` (trailing newlines dropped, file written,
  cache updated).
* `SetAttr`: `dfl_device_set_attr` with any text.
* `SysfsChange`: the kernel changing the file under the cache.

calloc success is chosen by `\E`.

Bounds: texts of up to 2 characters over `0 7 8 a x`, space and newline.
Those characters reach every branch: a leading-0 octal, a non-octal digit, a
non-decimal digit, the hex prefix and both kinds of white space. `PgSize = 8`,
and written values need one and two hex digits, so a write of `0xff\n` (5
bytes) fits. `MaxPages = 1` bounds the leaked pages.

* `attr_api` (pass): every read after any sequence of writes, sets and
  kernel changes. `RoundTrip`: while a written value is in place, every
  read returns it.
* `attr_parse` (violation): `ReadMatchesSpec` is spec 4.3's reading
  contract, and two flaws break it. TLC reports the first, the shorter trace:
  - An empty cache with a missing file gives `FPGA_EXCEPTION`, and a
    white-space-only file reads as `FPGA_OK` with value 0. The spec says
    either case is NotFound.
  - A cached `"0a"` reads as `FPGA_OK` with value 0. `strtoull` with base 0
    stops after the leading 0 (octal), and the cached path accepts the
    partial parse. The spec says partial consumption is a ParseError.
* `attr_fail` (violation): a calloc failure in `dfl_direct_read_attr` is
  returned as a non-zero byte count with a NULL buffer, and
  `dfl_direct_read_attr64` calls `strlen(NULL)`. The same property covers
  the page leaked when `fopen` fails. TLC reports the calloc case first.

### DflGuid (`DflGuid.tla`, `MCDflGuid.tla`)

`dfl_parse_guid` is the RECURSIVE `ParseGuidFrom`. It calls `Sscanf02hhx`:
skip white space, EOF (-1) at the end of the string, then at most two hex
digits. `ptr += 2` follows whatever was consumed. A byte of the buffer that
no parse wrote is `Junk`. A call that starts `sscanf` past the terminator
returns `Overread`. `SpecGuid`/`IsGuidText` are the reference: exactly
2×GuidBytes hex characters, read in pairs.

Bounds: `GuidBytes = 2` and texts of up to 4 characters over `0 f g` and
space. The loop treats each byte alike, so two bytes reach every path:
- a full text;
- a short one, where EOF counts as success;
- an odd one, which leaves a one-digit last byte;
- a bad digit in the first and in the second pair;
- a text shorter than one pair, which reads past the NUL.

* `guid_parse` (pass): `GuidComplete`: every text of exactly 2×GuidBytes hex
  characters parses to its bytes.
* `guid_short` (violation): `GuidSound` says no text is read past its
  terminator and only a full GUID text is accepted. TLC reports the empty
  text: the first `sscanf` returns EOF, the loop goes on, and the second
  starts past the NUL. The same property catches `"00"` accepted as a 2-byte
  GUID, which corresponds to the spec's 30- and 31-character cases that must
  fail.

### DflPci (`DflPci.tla`, `MCDflPci.tla`)

`PciName` formats an address as the kernel does (`%04x:%02x:%02x.%d`).
`parse_pcie_addr` finds the leftmost match of the unanchored
`PCIE_PATH_PATTERN` and converts each group with `strtoul`. `PciAddrOfName`:
the name of an address with a 16-bit segment parses back to that address.
A name whose segment does not fit is refused.

Bounds: segments 0, 1 and 65535, plus a VMD domain 65536 in the violation
run. Buses 0, 0x3b and 0xff; devices 0 and 31; all functions.

* `pci_addr` (pass).
* `pci_vmd` (violation): `10000:e1:00.0` matches from its second character
  and parses to segment 0.

### UioToken (`UioToken.tla`, `MCUioToken.tla`)

The heap is `mem`, over `MaxCells` blocks. malloc returns the lowest free
block, and a full heap makes malloc fail. `free` clears only `live`: a freed
block keeps its bytes, its magic included. `tokens[d]` is `p->tokens` of
device `d`.

Actions:
* `GetToken`: `find_token`, then malloc, memset and a push at the head.
* `CloneToken`: the RECURSIVE `clone_token`. It memcpys the whole token
  (`next` included) and replaces `parent` by the parent's clone, or by NULL
  when that malloc fails. The failing level is chosen by `\E`.
* `FreeTokenList`: frees the list along `next`. The device is torn down and
  gets no further calls.
* `LinkParent`: stands for the compiled-out walk code, which sets an AFU
  token's `parent` to its FME token.

None of the helpers has a live caller (every caller is `#if 0`), so the
model drives them as the walk code would.

Bounds:
* two devices and two regions;
* five blocks, enough for two device tokens and a two-level clone, with one
  block spare;
* parent chains of two.

Once every device is freed the helpers have nothing to act on, so the cfg
disables the deadlock check.

* `uio_token` (pass):
  * `UniqueRegion`: one token per region and device.
  * `NoLostToken`: every live block is on a live list or a held clone's
    chain.
  * `ClonesDisjoint`: a clone's parent chain shares no block with a list or
    another clone, including after a partial clone failure.
  * `ImplementsTokenTable`: the helpers refine `UioTokenTable`
    (see below).

**Refinement.** `UioTokenTable` is what the helpers promise, with the heap
layout left out. `table[d][r]` is the token of region `r` of device `d`, and
`inuse` is the blocks handed out and not freed. Its actions:
- `Get` gives a region with no token a fresh block.
- `Clone` takes fresh blocks and leaves the table alone.
- `Free(d)` releases exactly `d`'s tokens.

A `get_token` that finds its token, a failed malloc and `LinkParent` are
stuttering steps. The mapping is:
- `table[d][r]` is `find_token(mem, d, r)` for a device not yet released,
  and NULL after;
- `inuse` is the live blocks.

The check shows three things a state invariant cannot:
- a region's token never changes from one step to the next while its device
  lives;
- no block is handed out twice;
- `free_token_list` releases nothing but that device's tokens.

`find_token` without its region comparison breaks it.

### DflContext (`DflContext.tla`, `MCDflContext.tla`)

State:
* `ctx`: `_udev_ctx`, as a generation number; 0 is NULL.
* `live`: the generations not yet released by `udev_unref`.
* `owner` and `depth`: the recursive `_udev_ctx_lock`.
* Per thread: `pc`, `hctx` (the context its handle or scan came from), the
  enumeration loop's `idx` and `batchOk`, and `rec` (the generations of the
  lists it holds).
* `nullOk`: whether the libudev build accepts a NULL context. It is chosen
  in `Init`, because the code passes `_udev_ctx` unchecked.
* `staleUse`: records a use of a handle after its context was released.

A step runs from one lock operation to the next, or is one unlocked use of a
handle. Code inside a locked region is atomic to the other threads, which
can only take unlocked steps meanwhile.

Actions:
* `Initialize` and `Finalize`: one locked step each.
* `dfl_device_new`: `NewOpen` (calloc, then lock, open and unlock) and
  `NewWalk` (unlocked). `DeviceNew`, `GetParent` and `Clone` enter it.
* `dfl_device_enum`: `EnumScan` (lock, then `udev_enumerate_new`), then
  `EnumNew` once per device (the nested `dfl_device_new`, whose lock nests
  in the held one), then `EnumDone` (unlock).
* `GetCompatId`: one locked step.
* `Destroy`: unlocked.

Bounds: two threads, two context lifetimes (`MaxGen`), and two devices per
scan. Threads call forever, and the state space is finite. Two threads are
enough for every race here: each race is between one thread inside a call and
one other thread calling `dfl_initialize` or `dfl_finalize`. A third thread
with one device per scan passed 7 million distinct states within two minutes,
beyond what a run can finish in.

Fairness: weak fairness of each thread's steps. The OS runs a runnable
thread. Nothing is assumed about which waiter gets the mutex, because
pthread mutexes are not fair. So the liveness property is about the lock's
holder, whose steps are always enabled.

* `context_api` (pass):
  * `LockReleasedOnReturn`: a thread between calls holds no lock.
  * `ScanSeesOneContext`: during a whole enumeration, `_udev_ctx` is the
    context the scan opened, and it is alive.
  * `ContextNotLeaked`: only `_udev_ctx` is alive.
  * `LockEventuallyReleased`: the holder of the lock releases it, so the
    nested lock does not block its holder.
* The model also reaches the race the spec lists as an open question:
  1. a thread opens a handle;
  2. the other thread calls `dfl_finalize`;
  3. the first thread walks the handle's parents without the lock.

  That gives `staleUse`. It is a hazard, not a run, because the spec
  documents it as the behaviour to preserve.

## 4. Not modelled

* UIO entry points (`open.c`, `mmio.c`, `properties.c`, `enum.c`'s
  `uio_fpgaEnumerate`, `plugin.c`): their bodies are `#if 0` and the live code
  only returns `FPGA_OK`, so there is no state to model. `get_guid` is a byte
  reversal and `dump_csr` is file output.
* `handle_check` and `handle_check_and_lock` (`token.c`): no live code
  creates a `uio_handle`. Their one check, a handle magic of
  `~UIO_TOKEN_MAGIC`, which no token carries, holds by the constants alone,
  so a model of it would check nothing.
* Signs in attribute and GUID texts, and the `(uint16_t)` and `(uint32_t)`
  casts of `dfl_device_parse_id` and `dfl_parse_attr32`. The modelled texts
  are at most two characters long, so no value reaches the cast widths. A
  `numa_node` of `"-1"` reads as 0xFFFFFFFF with `FPGA_OK`; the spec says
  nothing of negative values, so no property could tell it apart.
* `udev_print_list` (a debug printer marked for removal) and the one-line
  getters `dfl_device_get_pci_addr`, `dfl_device_get_attr` and
  `dfl_device_get_devnum`. They pass a udev value through and change no
  state.
* The race of the unlocked walk in `dfl_device_new` with `dfl_finalize`
  (`udev_device_get_parent` builds the parents from the handle's context).
  `dfl_device_get_parent` and `dfl_device_clone` read only the record's own
  `udev_device` before their nested `dfl_device_new`, so they are not part
  of it. `DflContext` reaches it:
  `staleUse` becomes TRUE. No run asserts against it, because the spec keeps
  it as an open question, and whether the stale pointer is dereferenced
  depends on the libudev build.
* A text attribute that fills the whole page buffer in `dfl_direct_read_attr`
  (no NUL before `dfl_string_rtrim`). The model keeps the `Overread`
  outcome, but sysfs caps a text attribute's `show()` output at
  PAGE_SIZE-1 bytes, so `fread` never fills the `pg_size` buffer and no run
  gives it such a text.
* Destroying a record reached by walking `next` of an enumeration list.
  `dfl_device_destroy` frees the chain from that record, so the head later
  frees it again. The spec makes batch destruction walk `next` from the
  head, and the model's client destroys only the heads it was handed, as
  the tests do.
* The udev mock and the gtest file are a test double and tests. They guide
  the registry in `MCDflDevice` (the n3000-x2 fixture) and are not modelled.
  The tests call `udev_direct_read_attr` and `udev_direct_read_attr64`, but
  the library defines those functions as `dfl_direct_read_attr*`.

What remains unmapped is license headers, includes, `#if 0` bodies and the
items above. Nothing more of the live code can be modelled without
modelling those stubs or the libudev internals.
