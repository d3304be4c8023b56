# ArcFS in TLA+

ArcFS is a deduplicating FUSE filesystem written in Rust (`src/src/`, about
3600 lines): files are cut into content-defined chunks, each chunk is a
compressed file named by its SHA-256 hash, and everything else (inodes, directory
entries, recipes, snapshots, tags) is a row of an embedded `sled` tree. This
directory holds TLA+ models of it, the TLC runs that check them, and proofs that
TLAPS checks.

## Inventory

| Component | Code | State | Operations that change it |
|---|---|---|---|
| Chunk files | `storage.rs` | one file per hash under `<store>/cas` | write_chunk (with deduplication), delete_chunk |
| Chunker | `chunker.rs`, `create_recipe_from_data` | rolling gear hash, bytes since the last cut | feed_byte, should_cut, reset |
| Recipes and legacy names | `file_manager.rs` | `ino_recipe:<id>`, `legacy_name:<name>`, `legacy:next_ino` | write_file(_by_id), delete_file, rename_file |
| Garbage collector | `file_manager.rs` `run_gc` | the active set, the listed hashes | mark, list, sweep |
| Namespace rows | `file_manager.rs` | `ino_meta:<id>`, `dirent:<parent>:<name>`, `snapshot:<name>` | save_ and delete_ of each: one insert or remove, one flush |
| Namespace in memory | `fuse_handler.rs` | `root`, `inode_registry`, `next_inode` | mount (hydrate_tree), create, mkdir, unlink, rmdir, rename, get_mutable_inode (copy on write) |
| Snapshots | `fuse_handler.rs` | `snapshots` (frozen trees in memory), cloned rows | create_snapshot_named, restore_live_from_snapshot, removal, restore_snapshots at mount |
| Page cache | `fuse_handler.rs` | `page_cache`, `cache_lru`, sizes in the registry | read, write, setattr, fsync/release/flush, evict_under_pressure, flush_all_dirty_cache |
| Tag rows | `file_manager.rs` | `ino_tags:<id>`, `tag_index:<tag>` | set_file_tags, delete_file_tags |
| Tag directories | `fuse_handler.rs` | `tag_virtual_dirs`, `tag_virtual_files` and their key maps | lookup, readdir, create, mkdir, unlink, rmdir under `@tags` |
| Command line | `main.rs` | none | one call of the above per process |

**How they interact.** A mount runs a single session thread: FUSE requests are
dispatched one at a time, in `&mut self` handlers of `ArcFS`, so the locks in it are
never contended. A handler edits the registry and the page cache, and calls
`FileManager`, whose calls are inserts and removes in one `sled` tree; most of them
flush. `write_file_by_id` cuts the bytes into chunks, stores each with
`Storage::write_chunk` and saves the recipe last. Snapshots call the page cache
(everything dirty is flushed), then clone rows; a restore calls the snapshot code for
its backup, then empties and rebuilds registry, cache and rows. Create, write, unlink
and rename call the tag rows. The collector is a separate process, run while nothing
is mounted.

**What is hard.** There is no concurrency between requests; the hazards are in
*durability and ordering*. Every operation is several durable writes (chunk files that
are not synced, rows that are), so errors and crashes cut operations in the middle, and
the next mount rebuilds the memory from the rows. Several structures hold the same fact
twice: buffer and recipe, registry and rows, registry and `self.root`, row and index of
tags, size in memory and in `ino_meta`. Ids are handed out by a counter that a mount
computes anew. Queues and the cache are bounded.

**What makes each part correct.**

- Chunk files and recipes: a recipe is committed after its chunks; what was readable
  stays readable; two names never share an inode.
- Collector: deletes exactly the chunks no recipe names.
- Page cache: invisible to clients; a clean buffer is what is saved; bounded; every
  request ends; sizes agree with bytes.
- Namespace: between requests and after every mount, rows and memory show the same
  entries.
- Snapshots: a snapshot shows the tree at the time it was taken and never changes; a
  restore shows the snapshot; a backup exists before the live tree is touched.
- Tag rows: the row of a file and the sets of the index agree.
- Tag directories: an id means one thing for as long as the kernel may hold it; a tagged
  file is shown in the directories of its tags, and what is shown is a file; a request
  through a tag directory touches the file the client saw.
- Chunker: the chunks are the file; they are within their bounds; where one ends depends
  on its own bytes only, so that equal data has equal chunks.

## Modules

| Module | Models | State corresponds to |
|---|---|---|
| `SledMap` | the sled tree as a map, and what a crash leaves of it | external library |
| `ContentStore` | `storage.rs`, the recipe, name and GC parts of `file_manager.rs` | `disk` = files under `cas/`, `unsynced`/`lost` = what the kernel has not written, `db` = rows, `past` = values of `db` since the last flush, `job` = the write or collection in progress, `linked` = inodes with an entry |
| `FileBytes` | the byte arithmetic of write and truncate | pure operators |
| `WriteBackFile` | abstract specification: a file with current and durable bytes | no code |
| `PageCacheHistory` | what clients asked for and were told; extends `PageCache` | `shown` = the bytes that the edits sent so far make of each file, `synced` = the files last acknowledged as durable (history, no code) |
| `PageCache` | the cache of `fuse_handler.rs` | `cache`, `lru`, `size` = `page_cache`, `cache_lru`, `attr.size`; `saved`, `meta` = what recipes and `ino_meta` hold; `job` = an eviction loop or a flush of everything in progress |
| `Namespace` | the tree, its rows, snapshots and mounts | `db` = rows, `node` = `inode_registry`, `top` = `self.root` (shared with the registry or a copy), `frozen` = `snapshots`, `dirty` = dirty buffers, `next` = `next_inode`, `job` = a clone in progress |
| `NamespaceFaults` | `Namespace` with calls that return an error in a request; extends it | `faults` = bound, `torn` = entries that an error left different in rows and memory (history) |
| `SnapshotStore` | abstract specification: one live tree, and names of trees that do not change | no code; `Store` in `NamespaceFaults` maps `listed` to `frozen`, `stored` to the snapshot rows |
| `TagStore` | the tag rows and the requests that write them | `db`, `past` = rows, `home` = parents in the registry, `live` = files with an entry, `calls` = history |
| `TagTree` | `@tags` and the real tree under it; extends `TagStore` | `virt` = the two `tag_virtual_` maps, the two key maps and `next_vnode`; `dirs` = directories in `inode_registry`, `kids` and `entry` = the directories and the files in their `children`, `made` = the directories that dirents lead to, `shared` = `self.root` is the registry's node, `fname` = `name` of the registry's nodes of files, `removing` = an rmdir in progress, `ghosts` = history |
| `Chunker` | `chunker.rs` and the loops over it | `job` = local variables of the loop, `recipe`, `sizes` = what the loops returned, `ends` = history |
| `MC...` | small instances for TLC | |
| `...Docs` | what documents, comments and tests say where the code does otherwise | |
| `...Proofs` | the theorems about a component and their proofs | |

The modules meet at narrow interfaces. `PageCache.saved` stands for what
`ContentStore` keeps in recipes and chunks: `RoundTrip` and `ReadableStays` are what
the cache assumes of the store, and a `Flush` of the cache is a `SaveFile` of the store.
`Namespace.dirty` and `recipe` are the same fact again with contents reduced to a small
set, because snapshots only need to tell contents apart. `ContentStore` takes the chunks
of a file as given and stores them one by one; `Chunker` says which they are.

`SnapshotStore` says what all of `Namespace` is for as far as snapshots go: trees as
values, with no ids, rows, clones or caches. It has two maps from names to trees, what
clients see (`listed`) and what the next mount finds (`stored`), because a row that could not
be written or deleted shows only then. A snapshot is taken in the one step that registers
it, however many rows its clone took and wherever crashes cut that; a restore is a
time in which the live tree may show anything, begun by a snapshot and ended by the tree
restored if there were no errors. That a restore which *completes* shows the
snapshot whatever happened before is `RestoreFaithful`: to the abstract specification a
crash in a restore is as good an end.

`TagTree` is composed with `TagStore`: each of its requests that changes tag rows is the
conjunction of an action of `TagStore` (`Create`, `Unlink`, `Rename`, `Write`,
`SetByCommand`, `RemoveTagDir`, `Crash`), which says what happens to rows, registry
parents and crashes, and of what the request does to entries, names and virtual ids.
What `TagStore` leaves open (which files a create or an unlink takes names from) is a
parameter there and computed in `TagTree`. A directory of `@tags` is the set of its tags. A
real directory is an id, which stands at a path (`PathOf`, the names on the way of its
parents), and a file created in it gets the normalized names on that path as tags. `Norm`
is trim and lowercase (`A` for `a`).

Two things in `TagTree` look at the same real directories and need not see the same ones.
A rename or mkdir calls `get_mutable_inode` on its directory (`Mutable`), which puts a clone
with a new id in the place of each directory on the way, in the `children` of the node
before it (`Clone`); then the request goes on in the old node, whose id the client sent,
and so do all clients that looked it up before. `ensure_real_path_for_tags` (`WalkTo`)
follows `children` and so comes to the clones. A walk is a record of the nodes
(`Start`, `Ensure`, `CloneChild`): what it leaves is what the request does to them. `made` has
the directories whose ids the rows lead to: those are what clients and the next mount walk
through, and a live file is one with an entry in one of them (`Names`). An unlink or a
create in `@tags` that takes a name away from a directory takes all below it out of `made`
(`Without`).

One action stands for one request, except where a request is a loop that errors and
crashes can cut: then each turn is an action (`DedupChunk`, `CreateChunk`,
`FinishChunk`, `GcSweep`, `EvictClean`, `EvictDirty`, `FlushNext`, `CloneNode`, `TakeTags`,
`StoreByte`, `StoreChunk`, `CountByte`). Where a
request makes a few durable writes, the action has a second disjunct in which the
process dies after any proper prefix of them (`CutShort` in `Namespace`, `Write` in
`ContentStore`, `Cut` in `TagStore`). Requests of the namespace in which a call returns
an error and the process goes on are actions of their own, in `NamespaceFaults`: they
leave rows and memory different in ways that follow the early returns and the ignored
results of each handler. The write of a failed call is there or it is not, since an
insert may succeed and the flush after it fail.

## Runs

| Run | Question | Result |
|---|---|---|
| `content_store` | Are recipes backed, files readable, names separate, and orphans reclaimed, when writes, collections, renames and deletions are cut anywhere? | holds |
| `page_cache` | Do replies and crashes agree with what clients wrote and were told? Does the cache implement `WriteBackFile`, keep its bound and sizes, and does every request end? | holds |
| `namespace` | Do rows and memory show the same entries after every request and mount, with copy on write of two directories, and after errors but for the names they were about? Do snapshots and backups show what clients see, are snapshots frozen and restores faithful, and is that an implementation of `SnapshotStore`? | holds while no id is used twice, with the exceptions below |
| `tags` | Do the two tag tables agree, and does a later call repair an earlier cut one? Are virtual ids stable and one to one, are tagged files shown and named files kept? | holds, with the exceptions below |
| `chunker` | Are chunks the file, bounded, and cut by their own bytes only? Does cdc-stats count what storing makes? | holds |
| `torn_chunk` | "Orphaned chunks ... are ignored until the offline Garbage Collector runs" | violated |
| `power_loss` | "previous disk state remain perfectly consistent" when power is lost | violated |
| `gc_unlinked` | "GC recovers the CAS chunks" of unlinked files | violated |
| `cache_read` | a miss loads the file and returns its bytes | violated |
| `cache_size` | metadata stays consistent when the cache is lost | violated |
| `snapshot_reuse` | "snapshot content persisted after remount" | violated |
| `dir_shadow` | "namespace consistency after crashes" | violated |

The violated ones, in the code's terms:

- `torn_chunk`: `write_chunk` asks only whether the path exists. A file that a failed
  write left short is taken for the chunk by every later write of the same bytes.
- `power_loss`: chunk files are not synced, the recipes naming them are.
- `gc_unlinked`: unlink leaves the recipe row and the collector marks from every row.
- `cache_read`: flushing a victim puts its id back on the queue; the id outlives the
  buffer, and when the file is read next its own buffer is the first victim.
- `cache_size`: rename saves the size in the registry, whatever was flushed.
- `snapshot_reuse`: the mount computes `next_inode` from the live tree alone.
- `dir_shadow`: `get_mutable_inode` counts the registry's reference and gives a
  directory a new id that is saved by a later rename of it and by nothing else.

Four properties hold with exceptions that are part of their statement, and each exception
happens in the run:

- `SnapshotFaithful` and `BackupTaken` compare a snapshot with the tree clients see
  (`LiveTree`). Snapshots are cloned from the rows (`fuse_handler.rs:294-347`), and two
  things that clients see have no rows there: entries that a failed request left
  different in rows and memory (`torn`), and what is in a directory that
  `get_mutable_inode` replaced by a clone and that was renamed since (`Shadowed`: the dirent
  has the clone's id, clients work in the original). A snapshot taken then lacks those, and
  a restore, which empties the registry behind its backup, loses them. The paper's "The
  clone then recursively deep-copies the live inode tree"
  (`research_paper/paper_journal.tex:655-656`) is true of the tree in the rows.
- `OnlyGhosts`: `@tags` shows files that have no name any more, in four cases. A rename
  over a file removes its entry and keeps its tags (`2005-2014`). The same happens when a
  create or an unlink in `@tags` takes its name, or that of a directory it is in. A write
  through a handle after the unlink derives tags anew (`1504-1509`). And a create in `@tags`
  after a rename or mkdir in the real directory, or below a directory so copied, puts the
  file into the clone (`774`, `825-830`): clients do not find it in the real directory, and
  the next mount does not find it at all. (`tests/regression_e2e.sh:200`, "created tag file
  visible in live tree", creates in a directory that no request has copied; there it is
  visible.) The registry still knows the name, so a ghost is listed until the next mount and
  queries find it for ever.
- `NamesKept`: an unlink of a ghost in `@tags` removes the real entry its stale parent and
  name lead to (`1849-1869`), which is by then another file's, or that of a directory made
  there since; then all files below lose their names. A create in `@tags` puts its file in
  place of what has the name in the real directory (`825-830` does not look): a file that
  was moved there and has other tags, or again a directory with all that is in it. No other
  file loses its name to a request through `@tags`.

`CreatedIsShown` and `RemovedTagGone` speak of calls that are not cut. `RemovedTagGone` is
about the normalized name: `rmdir @tags/A` takes the tags of the files with tag `a` and then
looks for a directory under the key `A`, which there is none of.

One document describes a hazard that the code does not have: `.planning/codebase/CONCERNS.md:64-68`
says that a write, as it does not call `get_mutable_inode`, changes a file "also referenced
by a snapshot" in place. A snapshot's files are clones with ids and nodes of their own
(`fuse_handler.rs:294-347`), and a write to the live file leaves them alone: this is
`SnapshotFrozen`, checked and proved for as long as no id is handed out twice.

What a failed call of the namespace leaves, none of which is repaired by itself
(`EntriesDurable` excepts the names the request was about, `NextRequestRepairs` says that
the next request giving or taking the name makes rows and memory agree again):

- an unlink or rmdir whose `delete_dirent` fails answers OK, and the name is back after
  the next mount (`fuse_handler.rs:1890`);
- a rename whose `save_inode` fails has taken the file, and the one it would replace,
  out of memory (`1997`, `2008`): the file is gone until the next mount; when the entry's
  rows fail, it is under the new name in memory and under the old one, or none, on disk;
- a create that fails after the dirent is a file from the next mount on;
- a snapshot whose row fails answers EIO and is there until the next mount (`366-376`), one
  whose removal fails is back after it (`1936`);
- a restore whose clone fails has lost the rest of the live tree, which the backup has;
  an old entry that could not be deleted comes back at the next mount (`392`).

Each property of a passing run has a mutant in `PROJECT.json`: a plausible bug in a
definition (a dropped guard, a missing write, another order) under which TLC finds the
property violated.

### Bounds

- `content_store`: two chunks and two contents that share one (deduplication, and a
  chunk that survives one of its files), two inodes and two names (rename over another,
  counter), `MaxFaults = 1`: errors and power losses in one behaviour; crashes are not
  limited. Two inodes and two names are symmetric.
- `page_cache`: two files, `Capacity = 1` (so every second file means an eviction),
  `MaxLen = 2` (writes at, before and past the end, a hole), `MaxFaults = 1`. With one
  fault all of the properties that speak of "no failure" are also exercised after it. A
  failed flush may leave the rows old, or new, or only the recipe new, and a failed rename
  any of what its writes had done. The history variables of `PageCacheHistory` record requests and
  replies only (`HistoryWatches` proves that they change nothing).
- `namespace`: five kinds of instance in one run, told apart by the variable `pick`, all
  with one file name. "live" has two directory names, empty files, no errors, and four
  ids, what a rename between two directories takes (two made, two clones); the last id
  stays unused; `MaxReuse = 1`. A directory name as the pick stands for an instance with
  this one only, one content besides the empty one, which one file gets (in that directory; in
  "clones" in the root), one snapshot and one backup, and five ids: a snapshot of a directory with a file in it, cut anywhere; a restore of a snapshot
  that has an entry into an emptied tree, and of an empty one over a tree that has an
  entry, both behind a backup. "requests" is "live" with three ids and one error
  (`MaxFaults = 1`): it falls in a create, mkdir, unlink, rmdir or rename, with the
  other requests and mounts before and after it. "clones" has one error too and no
  directories: it falls in any step of a snapshot, its removal, a backup or a restore.
  "shadows" has both directory names and six ids and no errors: a snapshot of the empty
  tree, two ids made, renames that copy a directory and then move it, and the restore with
  its backup, so that backups are taken where rows and clients' tree differ.
  No id is reused but in "live": the properties speak of ids handed out once; the reuse
  itself is the run `snapshot_reuse`. Two directory names are symmetric: no directory has
  two names in `self.root`, so the `CHOOSE` of a path in `Mutable` has one candidate.
- Directories are made in the root only (requests work in the root and in directories of
  it); `Depth = 3` is the depth of the trees compared, one more than this.
- `tags`: two tags, one of them with a second spelling, the directories `/`, `/a`, `/b` and
  `/a/b`, two names of files, one of which (`b`) is also a tag, so that a file can stand
  in the way of a directory. Six instances told apart by `pick`: "cut" has two files
  and calls cut by errors and crashes, without virtual ids (this is what the
  properties of the tables need; the second file has one tag at most); "rmdir" cuts the calls of an rmdir; "names" has two
  files with two names in three directories, two virtual ids and one tag (enough for
  ghosts, for a create over a file moved in and for the wrong entry); "dirs" has one
  file, both tags, all directories and three virtual ids. "clones" has two ids for each of
  `/a` and `/a/b`, so that each can be copied once (and a directory be made in a copy), with
  one file; "below" has two files of the name `b` and directories of that name in `/a`, so that an
  unlink or a create in `@tags` takes a directory with a file in it. A request that needs
  an id that is not left is not made: ids bound how often directories are copied or made
  again. `MaxPast = 1`: a call may be cut
  only while at most one older value of the rows could come back, so that cut calls
  follow each other without the set of those values exploding. The proofs do not use
  it. A request whose ids would pass `LastVnode` is not made.
- `chunker`: two bytes, with words 5 and 14 of a 4-bit hash, a mask of two bits, chunks of
  three to five bytes, all files of up to seven bytes and all that become of one by
  inserting, removing or replacing a byte: a file has up to two full chunks and a tail,
  chunks end at the minimum, at the maximum and in between, and the hash overflows.
  The code has 64 bits, 12 of them in the mask, and 2048 to 65536 bytes; `MaskBits <= Min`
  holds there too, which is why the reset of the hash has no effect on a cut.

### Fairness

Only `RequestsEnd` is a liveness property. `FairSpec` has weak fairness of
`EvictStep \/ FlushStep` alone: a request that has begun runs on the session's only
thread and nothing in its loop waits. No fairness of clients, of write-back or of
errors is assumed. Deadlock is checked in every run: there is always a request to make
or a crash to suffer.

## Proofs

Eight modules hold theorems, all checked by TLAPS for every value of the constants that
the named assumptions of the modules allow. The assumptions give types to constants and
otherwise exclude what the program excludes or the models leave out: empty writes
(`WritesAssumption`), a cache of no buffers and an empty range of ids (the
`BoundAssumption` of each module, `VnodeAssumption`), names that stand for a file and for a
directory (`NameAssumption` of the namespace), a directory whose automatic tags are not the
normalized names on its path (`DirAssumption`). The bounds of the models (`MaxFaults`, `MaxPast`, `MaxReuse`, `LastIno`)
are arbitrary there.

- `ContentStoreProofs`: `TypeOK`, `RecipesBacked`, `RoundTrip`, `NamesOwnFiles`,
  `ReadableStays`, `GcReclaims`. `RecipesBacked` is not inductive: a store in progress has
  chunks no recipe names yet, the collector works from a set it computed earlier, and
  a crash brings back an older tree. `IInv` adds that the chunks stored so far are on
  disk, that the collector's active set still covers every recipe and that what it has
  not yet visited is listed, and says all of it of every value in `past`.
- `PageCacheProofs`: `TypeOK`, `CleanIsSaved`, `SizeExact`, `CacheBounded`, `ReadsNeverStale`
  and `SyncedStays`, and that every step of the cache is a step or a stutter of
  `WriteBackFile`. `IInv` (in `PageCache`) adds what a request in progress knows
  (`JobReady`) and the size a write is still to record (`SizeInFlight`). The bound is
  inductive only with `RoomInFlight`: every buffer is on the queue, but for one a read is
  loading, so an eviction always has a victim, and only a request that is making room
  holds one buffer more than fit. The last two are about `HistorySpec`: `HInv` adds that what
  the clients' edits make of a file is what the cache, or else the recipe, holds of it
  (`Agreed`), that synced files have no dirty buffer (`SyncedClean`) and that a flush of
  everything has every dirty buffer on its list (`AllListed`), which is why its end
  acknowledges all files.
- `TagStoreProofs`: `TypeOK`, `IndexExact`, `TaggedFound`. The rows a crash may bring back
  have to be as good as those of the running process, so the invariant is about
  `past \cup {db}`; each of the two writers changes what the tables say of one inode only
  (`OnlyOf`), which is why a failure never spreads to other files.
- `TagTreeProofs`: every behaviour of the two trees implements `TagStore` (`TreeSpec =>
  Spec`), so that `IndexExact` holds under all requests of both; and all of the properties
  of `TagTree` itself: `TreeTypeOK`, `VirtualIdsAgree`, `VirtualIdsKept`, `TaggedShown`,
  `OnlyGhosts`, `NamesKept`, `CreatedIsShown`, `RemovedTagGone`. `TreeIInv` adds that the nodes
  hang together and that the names clients can walk to are those of the live files, as the
  registry has them (`NamesHold`), that whatever lost its name in one of the four known ways is
  in `ghosts`, and that the files an rmdir has not come to yet include all that have the tag.
  Walks are proved first, step by step along the path: making directories adds nodes and takes
  no name (`EnsureWalks`), copying them leaves every name clients can walk to (`CloneWalks`,
  `MutableCopies`), and what `Without` takes are the names of the child and of what is below it
  (`LostIs`); whatever a request does is one of those and an entry put in or moved
  (`EnterNames`, `RenameNames`, `MkdirNames`).
- `ChunkerProofs`: `TypeOK`, `ChunksCover`, `SizesBounded`, `SizesPredicted`,
  `SameAfterSync` and `CutsAreLocal`, for all contents, gear tables, masks and limits with `1 <= Min <= Max`. `IInv` adds what the loop knows between two bytes
  (`Made`): the chunks so far cover the file up to where the last one ends, the buffer
  holds the bytes from there to where it reads, and it is shorter than `Max`. The other two
  compare two runs of a loop, so `ScanIInv` adds that both loops follow one function of the
  bytes (`Scan`: the hash and the ends of the chunks after each byte), and that the ends
  and the sizes kept are its result: this is `SizesPredicted`. For `SameAfterSync`, wherever
  `Scan` has put an end its hash was just reset (`Settled`), and from two such places
  the same bytes bring the same hashes, and ends the same distance on (`ScansAlign`); the
  proof would fail if anything but the ends outlived a cut. For `CutsAreLocal`, the ends up
  to a place are those the whole file has up to there (`UpTo`), so nothing was reset
  since the last of them; and a hash is congruent, modulo `Target`, to the weighed sum of
  the last `j` bytes plus `2^j` times the hash before them (`LastBytesDecide`), where
  `j = MaskBits` leaves the sum alone. It needs that a chunk has at least as many bytes as
  the mask has bits and that the mask divides the word (`MaskAssumption`; 12 bits, 2048 bytes
  and 2^64 in the code). The provers do not know that `2^(n + 1)` is `2 * 2^n`:
  `PowerDoubles` gets it by counting subsets.
- `NamespaceProofs`: `TypeOK` of the namespace, with errors and without. `IInv` says what a
  mount can rely on (`RowsHold`: the parent and the target of every entry have metadata)
  and what a request can rely on (`MemoryHolds`: children are registered, each id the
  kernel knows is registered under itself and its kind is the one of its row; what a
  clone has still to copy has rows). A request may be cut after any of its writes, so
  `RowsHold` is proved write by write, which depends on the order in the code:
  metadata before the entry that leads to it.
- `NamespaceEntriesProofs`: `EntriesDurable` and `NextRequestRepairs`. That rows and memory
  agree is not inductive, because a mount descends only into directories: it needs that
  rows and memory agree about kinds and that names tell them apart (`RowKinds`,
  `MemoryKinds`), that clones of a snapshot in progress are not registered and those of a
  restore are registered under their own id (`JobKinds`), and that what is restored
  exists (`JobNames`). Each step is shown to leave every entry as it was, or in agreement,
  but for those its request was about (`Only`); this is where a write that a handler
  forgets, or another order, would make the proof fail. `reuses = 0` is part of it: with an id
  handed out twice the statement is false (run `snapshot_reuse`).
- `NamespaceSnapshotProofs`: `SnapshotFrozen`, `SnapshotFaithful`, `BackupTaken`,
  `RestoreFaithful` and `ImplementsStore`. For the first, a set of ids apart from all others (`Held`: no
  entry leads into it or out of it, none of its ids has two entries, and every snapshot has
  its root in it) exists in every state where no id was used twice. It is the history of the
  snapshots there are: it grows when a clone is finished, by what that clone made (`JobApart`),
  and only a removal takes from it. No request reaches it, as a request names ids the
  mount listed or fresh ones (`LiveOutside`); every step is shown to leave its rows as they
  were, also when it fails or is cut short (`Seals`), and so the trees below its ids
  (`TreeStays`). For the others, `FInv` adds what a clone has achieved (`Copying`): there is
  a map from the clones to a closed set of ids that holds none of them, and every clone
  has the kind and the contents of its source and, under the same names, the clones of
  what the source lists, but for those that are still to be made. The source is everything there was
  when a snapshot began, and for a restore the set of `SnapshotFrozen`. With
  nothing left, two trees that such a map relates show the same (`MapsShown`). It needs that only files
  have recipes and buffers (`FilesHold`): a directory's clone gets no recipe. That rows are what
  clients see, but for torn entries and shadowed directories, is `EntriesDurable` with the
  contents: where the row of an entry leads to the id that memory has, both show the same
  (`ShowsLive`).
  The refinement puts these together. Each step is sorted by what it does to names
  (`NextSorts`, `FailsSort`, `NamesStep`: it takes one, removes one, mounts, or leaves them), the
  trees below them are those of before (`StepKeepsAll`), and each sort is an action of
  `SnapshotStore` (`StoreTakes`, `StoreRemoves`, ...). `WInv` adds that without errors no entry is
  left over, which the end of a restore needs. `SnapshotsRefine` concludes that a
  behaviour in which no id is used twice is a behaviour of `SnapshotStore`.

A mount (`Reached`), the making of directories and the virtual ids of a listing are
recursive functions. Where a proof needs what they compute, the function is shown to
exist by looking at the least level at which it would not (`LevelsExist`), and what holds
at every level by looking at the least at which it would not: a mount ends because a
level that adds nothing is reached before the entries run out (`ReachedClosed`).

Every property of a passing run but one is stated by a theorem. Model-checked only is
`RequestsEnd`, which is liveness under fairness and out of the provers' reach.

## Not modelled

- Compression (a bijection on contents) and collisions of SHA-256. The gear table is a
  constant: nothing depends on its values but how often a chunk ends.
- Errors of the reads a request of the namespace begins with (it ends before it has
  changed anything), and of a flush of a buffer in the namespace (they are in `PageCache`).
- Directories below depth two, hard links (there are none), symbolic links (none),
  times, owners and permissions.
- In `TagTree` real directories are not renamed, nor removed by rmdir (`Namespace` does
  both); a directory goes when an unlink or a create in `@tags` takes its name. Requests of
  a client that holds an id of a directory taken away so, or of a clone, are left out: a
  client comes by an id by walking there. Once `self.root` is a copy of its own, what
  `get_mutable_inode` does to it is seen by no request of this module; ids of clones that a
  mount hands out again are in `Namespace` (run `snapshot_reuse`). The key of a virtual directory is its
  tags joined by `/`; a tag with a slash, which the control file accepts, can share a key
  with two tags, and no tag has one here. `create` is written as if a file in the way of
  the real path were its only error.
- Legacy inodes, virtual ids and inodes are kept apart as they are below 1,000,000 files.
- That "edits only affect nearby chunks" (`src/README.md:97`) is true from the first chunk
  end that old and new data share (`SameAfterSync`); whether and when there is one depends
  on the data, as the limits are counted from the last cut.
- getattr, statfs, access, xattr, the listings of the real tree and the printing of
  `main.rs` compute replies and change no state.
- `fuse_handler.rs.backup` is not compiled; benchmarks, scripts and the paper are no
  part of the program.

## Plan

Done, in this order: the content store (what everything rests on), the page cache with
its abstract file, the namespace with its snapshots and its errors, the tag rows, the tag directories
over them, the chunker, and the store of snapshots that the namespace implements. Nothing
of the plan is left.
