------------------------------- MODULE Session -------------------------------
(***************************************************************************)
(* The helper process git talks to: it connects to the bucket and settles  *)
(* the storage engine (cli/src/lib.rs, protocol/backend.rs), then answers  *)
(* the lines git sends until stdin closes (protocol/mod.rs and the handler *)
(* of each command).  Several helpers share the bucket.                    *)
(*                                                                         *)
(* A push is reduced to its visible writes (the ref, HEAD, FORMAT) in the  *)
(* order of its engine; BundleEngine, Packchain and FetchBatch model what  *)
(* pushes and fetches do beyond that.                                      *)
(***************************************************************************)
EXTENDS RemoteUrl

CONSTANTS Helpers, Refs, Shas,
          Formats,     \* what the bucket's FORMAT may hold at first
          HelperUrls,  \* the URLs that helpers are started with
          Depths,      \* operands of option depth, 0 for any other option
          Kinds,       \* the kinds of lines git sends to each helper
          MaxLines,    \* bound: lines git sends, to all helpers together
          MaxBatch,    \* bound: commands of one batch
          MaxFaults    \* bound: failed requests and closed pipes

ASSUME SessionAssumption ==
  /\ None \notin Engines \cup Refs \cup Shas \cup {"unknown"}
  /\ HelperUrls \subseteq Urls
  /\ Formats \subseteq Engines \cup {None, "unknown"}
  /\ Depths \subseteq Nat
  /\ Kinds \in [Helpers -> SUBSET STRING]
  /\ MaxLines \in Nat /\ MaxBatch \in Nat /\ MaxFaults \in Nat

VARIABLES
  format,   \* the bucket: the FORMAT key
  head,     \* the bucket: the HEAD key
  refs,     \* the bucket: the tip each ref has in the keys of each engine
  h,        \* per helper: the process
  lines, faults,
  hist,     \* history, per helper: the lines about batches that git sent
  ran,      \* history, per helper: the last batch it ran
  acked,    \* history, per ref: the value a push was answered ok for, None
            \* once another push has written the ref
  assumed   \* history: the engines that helpers chose because FORMAT was absent

bucket  == <<format, head, refs>>
ghosts  == <<hist, ran, acked, assumed>>
results == <<acked, assumed>>
vars    == <<bucket, h, lines, faults, ghosts>>

-----------------------------------------------------------------------------
(* Lines.  A push carries the ref and the new value, None to delete it; a  *)
(* fetch or push line that does not parse has the ref None.                *)

Push(r, v) == [c |-> "push", ref |-> r, arg |-> v]
Fetch(r)   == [c |-> "fetch", ref |-> r, arg |-> None]
Line(c, n) == [c |-> c, ref |-> None, arg |-> n]

Blank    == Line("blank", None)
Batching == {Push(r, v) : r \in Refs, v \in Shas \cup {None}} \cup {Push(None, None)}
              \cup {Fetch(r) : r \in Refs \cup {None}}

\* parse_command: everything else is an invalid command.
Lines == Batching \cup {Blank} \cup {Line("depth", n) : n \in Depths}
           \cup {Line(c, None) : c \in {"capabilities", "list", "bundle-uri", "invalid"}}

NoBatch == [cmds |-> <<>>, depth |-> 0, told |-> <<>>]

-----------------------------------------------------------------------------
(* The helper.  A reply that git waits for is owed until it is flushed.    *)

Fresh == [at |-> "start", url |-> None, engine |-> None, line |-> Blank,
          owed |-> FALSE, cmds |-> <<>>, depth |-> 0, next |-> 1, step |-> 1, outs |-> <<>>]

Places == {"start", "format", "read", "handle", "push", "fetch", "ended", "failed"}

Goto(p, new) == h' = [h EXCEPT ![p] = new]
End(p, how)  == /\ Goto(p, [Fresh EXCEPT !.at = how])
                /\ hist' = [hist EXCEPT ![p] = <<>>]
                /\ ran' = [ran EXCEPT ![p] = NoBatch]
Fail(p)      == End(p, "failed")

\* The batch commands that wait for the blank line are all of one mode.
Mode(p) == IF h[p].cmds = <<>> THEN None ELSE h[p].cmds[1].c

\* Types.  Commands of both modes are never waiting together (the
\* debug assertions in BatchState::accumulate).
TypeOK ==
  /\ format \in Engines \cup {None, "unknown"}
  /\ head \in Refs \cup {None}
  /\ refs \in [Refs -> [Engines -> Shas \cup {None}]]
  /\ \A p \in Helpers :
       /\ h[p].at \in Places
       /\ h[p].url \in Engines \cup {None} /\ h[p].engine \in Engines \cup {None}
       /\ h[p].line \in Lines
       /\ \A i \in DOMAIN h[p].cmds : h[p].cmds[i] \in Batching /\ h[p].cmds[i].c = Mode(p)
       /\ h[p].depth \in Depths \cup {0}
       /\ h[p].at = "read" => h[p].outs = <<>>
       /\ h[p].at \in {"read", "handle", "push", "fetch"} => h[p].engine # None
  /\ lines \in 0..MaxLines /\ faults \in 0..MaxFaults
  /\ acked \in [Refs -> Shas \cup {None}]
  /\ assumed \subseteq Engines

Init ==
  /\ format \in Formats /\ head = None
  /\ refs = [r \in Refs |-> [e \in Engines |-> None]]
  /\ h = [p \in Helpers |-> Fresh]
  /\ lines = 0 /\ faults = 0
  /\ hist = [p \in Helpers |-> <<>>]
  /\ ran = [p \in Helpers |-> NoBatch]
  /\ acked = [r \in Refs |-> None]
  /\ assumed = {}

Fault == faults < MaxFaults /\ faults' = faults + 1

-----------------------------------------------------------------------------
(* Connecting.                                                             *)

\* What a URL comes to; a URL that does not parse or whose store cannot be
\* constructed is not ok.
Start(u, env) ==
  LET r == parse(u, env.http)
  IN IF r # Refused /\ Built(r, env)
     THEN [ok |-> TRUE, engine |-> r.flags.engine]
     ELSE [ok |-> FALSE]
Starts == {Start(u, env) : u \in HelperUrls, env \in Envs}

\* run_main up to the probe in build, which may fail (classify).
Connect(p) ==
  /\ h[p].at = "start"
  /\ \E s \in Starts :
       \/ /\ s.ok
          /\ Goto(p, [h[p] EXCEPT !.at = "format", !.url = s.engine])
          /\ UNCHANGED <<faults, hist, ran>>
       \/ ~s.ok /\ Fail(p) /\ UNCHANGED faults
       \/ s.ok /\ Fault /\ Fail(p)
  /\ UNCHANGED <<bucket, lines, results>>

\* Mutant: the URL's engine wins over the bucket's.
ResolveUrl(url) ==
  CASE url # None         -> url
    [] format = "unknown" -> None
    [] OTHER              -> IF format = None THEN "bundle" ELSE format

\* The engine that validate_format settles on, None when it refuses.
Resolve(url) ==
  CASE format = None                -> IF url = None THEN "bundle" ELSE url
    [] format = "unknown"           -> None
    [] format \in Engines           -> IF url \in {None, format} THEN format ELSE None

\* validate_format reads FORMAT once; the engine holds for the session.
ReadFormat(p) ==
  /\ h[p].at = "format"
  /\ LET e == Resolve(h[p].url)
     IN \/ /\ e # None
           /\ Goto(p, [h[p] EXCEPT !.at = "read", !.url = None, !.engine = e])
           /\ assumed' = IF format = None THEN assumed \cup {e} ELSE assumed
           /\ UNCHANGED <<faults, hist, ran>>
        \/ e = None /\ Fail(p) /\ UNCHANGED <<faults, assumed>>
        \/ Fault /\ Fail(p) /\ UNCHANGED assumed
  /\ UNCHANGED <<bucket, lines, acked>>

-----------------------------------------------------------------------------
(* The loop.                                                               *)

\* Git sends its next line, once it has the reply to the last one.
GitSends(p, l) ==
  /\ h[p].at = "read" /\ ~h[p].owed
  /\ lines < MaxLines /\ lines' = lines + 1
  /\ l \in Batching => Len(h[p].cmds) < MaxBatch
  /\ Goto(p, [h[p] EXCEPT !.at = "handle", !.line = l, !.owed = l \notin Batching])
  /\ hist' = [hist EXCEPT ![p] = IF l \in Batching \cup {Blank} \/ (l.c = "depth" /\ l.arg # 0)
                                 THEN Append(@, l) ELSE @]
  /\ ran' = [ran EXCEPT ![p] = NoBatch]
  /\ UNCHANGED <<bucket, faults, results>>

\* Git closes stdin: a batch that waits for its blank line is dropped.
GitCloses(p) ==
  /\ h[p].at = "read"
  /\ End(p, "ended")
  /\ UNCHANGED <<bucket, lines, faults, results>>

\* The handler has written and flushed its reply.
Ready(p, new) == Goto(p, [new EXCEPT !.at = "read", !.owed = FALSE, !.line = Blank, !.outs = <<>>])
Reply(p, new) == Ready(p, new) /\ UNCHANGED <<hist, ran>>

Handling(p, cs) == h[p].at = "handle" /\ h[p].line.c \in cs

\* handle_capabilities; handle_list, which skips the refs whose key vanishes
\* or does not parse and ends the session when the listing or HEAD fails.
Answer(p) ==
  /\ Handling(p, {"capabilities", "list"})
  /\ \/ Reply(p, h[p]) /\ UNCHANGED faults
     \/ h[p].line.c = "list" /\ Fault /\ Fail(p)
  /\ UNCHANGED <<bucket, lines, results>>

\* handle_bundle_uri: a hint, so that failed requests only shorten the
\* reply, and the blank line is written even where it was not advertised.
BundleUri(p) ==
  /\ Handling(p, {"bundle-uri"})
  /\ Reply(p, h[p])
  /\ UNCHANGED <<bucket, lines, faults, results>>

\* handle_option: ok or unsupported.  Depth 0 does not parse; it stands for
\* all the options without an effect on the session.
SetOption(p) ==
  /\ Handling(p, {"depth"})
  /\ Reply(p, [h[p] EXCEPT !.depth = IF h[p].line.arg # 0 THEN h[p].line.arg ELSE @])
  /\ UNCHANGED <<bucket, lines, faults, results>>

Invalid(p) ==
  /\ Handling(p, {"invalid"})
  /\ Fail(p)
  /\ UNCHANGED <<bucket, lines, faults, results>>

\* BatchState::accumulate: a change of mode drops what was collected.
Accumulate(p) ==
  /\ Handling(p, {"fetch", "push"})
  /\ Goto(p, [h[p] EXCEPT !.at = "read", !.line = Blank,
                          !.cmds = IF Mode(p) = h[p].line.c THEN Append(@, h[p].line)
                                   ELSE <<h[p].line>>])
  /\ UNCHANGED <<bucket, lines, faults, ghosts>>

\* Mutant: the depth of one fetch applies to the next one too.
FlushKeepsDepth(p) ==
  /\ Handling(p, {"blank"})
  /\ IF h[p].cmds = <<>>
     THEN Reply(p, h[p])
     ELSE LET d == IF Mode(p) = "fetch" THEN h[p].depth ELSE 0
          IN /\ Goto(p, [h[p] EXCEPT !.at = Mode(p), !.next = 1, !.step = 1, !.outs = <<>>])
             /\ ran' = [ran EXCEPT ![p] = [cmds |-> h[p].cmds, depth |-> d, told |-> <<>>]]
             /\ UNCHANGED hist
  /\ UNCHANGED <<bucket, lines, faults, results>>

\* flush_batch: take_pending, and the depth with a fetch batch only.
Flush(p) ==
  /\ Handling(p, {"blank"})
  /\ IF h[p].cmds = <<>>
     THEN Reply(p, h[p])
     ELSE LET d == IF Mode(p) = "fetch" THEN h[p].depth ELSE 0
          IN /\ Goto(p, [h[p] EXCEPT !.at = Mode(p), !.next = 1, !.step = 1, !.outs = <<>>,
                                     !.depth = IF Mode(p) = "fetch" THEN 0 ELSE @])
             /\ ran' = [ran EXCEPT ![p] = [cmds |-> h[p].cmds, depth |-> d, told |-> <<>>]]
             /\ UNCHANGED hist
  /\ UNCHANGED <<bucket, lines, faults, results>>

\* fetch_batch of either engine: one failed ref ends the session.
RunFetch(p) ==
  /\ h[p].at = "fetch"
  /\ \/ /\ \A i \in DOMAIN h[p].cmds : h[p].cmds[i].ref # None
        /\ Reply(p, [h[p] EXCEPT !.cmds = <<>>])
        /\ UNCHANGED faults
     \/ (\E i \in DOMAIN h[p].cmds : h[p].cmds[i].ref = None) /\ Fail(p) /\ UNCHANGED faults
     \/ Fault /\ Fail(p)
  /\ UNCHANGED <<bucket, lines, results>>

-----------------------------------------------------------------------------
(* push_batch: one command after the other.                                *)

Cmd(p) == h[p].cmds[h[p].next]

Pushing(p) == h[p].at = "push" /\ h[p].next <= Len(h[p].cmds)

Outcome(p, ok) ==
  Goto(p, [h[p] EXCEPT !.next = @ + 1, !.step = 1,
                       !.outs = Append(@, [ref |-> Cmd(p).ref, ok |-> ok])])

\* The writes of a push: each engine's order.  A delete writes the ref only.
Writes(p) ==
  IF Cmd(p).arg = None THEN <<"ref">>
  ELSE IF h[p].engine = "bundle" THEN <<"ref", "HEAD", "FORMAT">>
  ELSE <<"FORMAT", "HEAD", "ref">>

\* A line that does not parse ends the session; what the earlier commands of
\* the batch did is not reported.
PushMalformed(p) ==
  /\ Pushing(p) /\ Cmd(p).ref = None
  /\ Fail(p)
  /\ UNCHANGED <<bucket, lines, faults, results>>

\* Another helper holds the ref's lock, or the push is refused as stale.
PushRefused(p) ==
  /\ Pushing(p) /\ Cmd(p).ref # None /\ h[p].step = 1
  /\ Outcome(p, FALSE)
  /\ UNCHANGED <<bucket, lines, faults, ghosts>>

\* The holder of a ref's lock is in the middle of its writes.
Locked(r) == \E p \in Helpers : Pushing(p) /\ Cmd(p).ref = r /\ h[p].step > 1

PushWrite(p) ==
  /\ Pushing(p) /\ Cmd(p).ref # None
  /\ h[p].step = 1 => ~Locked(Cmd(p).ref)
  /\ h[p].step <= Len(Writes(p))
  /\ LET c == Cmd(p)
         w == Writes(p)[h[p].step]
     IN /\ refs' = IF w = "ref" THEN [refs EXCEPT ![c.ref][h[p].engine] = c.arg] ELSE refs
        /\ head' = IF w = "HEAD" /\ head = None THEN c.ref ELSE head
        /\ format' = IF w = "FORMAT" /\ format = None THEN h[p].engine ELSE format
        /\ acked' = IF w = "ref" THEN [acked EXCEPT ![c.ref] = None] ELSE acked
  /\ Goto(p, [h[p] EXCEPT !.step = @ + 1])
  /\ UNCHANGED <<lines, faults, hist, ran, assumed>>

PushOk(p) ==
  /\ Pushing(p) /\ Cmd(p).ref # None
  /\ h[p].step > Len(Writes(p))
  /\ Outcome(p, TRUE)
  /\ acked' = [acked EXCEPT ![Cmd(p).ref] = Cmd(p).arg]
  /\ UNCHANGED <<bucket, lines, faults, hist, ran, assumed>>

\* Mutant: a failed request ends the batch (before the per-ref error lines).
PushFailsBatch(p) ==
  /\ Pushing(p) /\ Cmd(p).ref # None
  /\ Fault
  /\ Goto(p, [h[p] EXCEPT !.next = Len(h[p].cmds) + 1])
  /\ UNCHANGED <<bucket, lines, ghosts>>

\* A request fails, or the lock cannot be released: an error line for this
\* ref, and the batch goes on.  Writes that have landed stay.
PushFails(p) ==
  /\ Pushing(p) /\ Cmd(p).ref # None
  /\ Fault
  /\ Outcome(p, FALSE)
  /\ UNCHANGED <<bucket, lines, ghosts>>

\* write_push_outcomes and the blank line; a closed pipe ends the helper.
PushReport(p) ==
  /\ h[p].at = "push" /\ h[p].next > Len(h[p].cmds)
  /\ \/ /\ Ready(p, [h[p] EXCEPT !.cmds = <<>>])
        /\ ran' = [ran EXCEPT ![p].told = h[p].outs]
        /\ UNCHANGED <<faults, hist>>
     \/ Fault /\ End(p, "ended")
  /\ UNCHANGED <<bucket, lines, results>>

Work(p) ==
  \/ Connect(p) \/ ReadFormat(p)
  \/ Answer(p) \/ BundleUri(p) \/ SetOption(p) \/ Invalid(p) \/ Accumulate(p) \/ Flush(p)
  \/ RunFetch(p)
  \/ PushMalformed(p) \/ PushRefused(p) \/ PushWrite(p) \/ PushOk(p) \/ PushFails(p)
  \/ PushReport(p)

Next == \E p \in Helpers : Work(p) \/ GitCloses(p) \/ \E l \in Lines : l.c \in Kinds[p] /\ GitSends(p, l)

Spec == Init /\ [][Next]_vars

-----------------------------------------------------------------------------
(* Properties.                                                             *)

\* What a push answered ok has written is what every helper that connects
\* from then on lists: the bucket names an engine and that engine's keys
\* hold the value.
Visible == \A r \in Refs :
  acked[r] # None => format \in Engines /\ refs[r][format] = acked[r]

\* Two helpers found no FORMAT and went by their URLs, which disagree.
Mixed == Cardinality(assumed) > 1

\* A push answered ok is visible, unless helpers with different engines
\* connected before the first push (protocol/backend.rs, validate_format).
OkIsListed == Mixed \/ Visible

\* Git and a helper never wait for each other, and no push is dropped
\* silently: a helper that reads the next line has answered the last one,
\* advertised or not, failed or not (handle_bundle_uri), and a batch of
\* pushes with one outcome per command, in order, although a request of an
\* earlier one failed (push_batch).
EveryLineAnswered ==
  \A p \in Helpers :
    h[p].at = "read" =>
      /\ ~h[p].owed
      /\ ran[p].cmds # <<>> /\ ran[p].cmds[1].c = "push" =>
           /\ Len(ran[p].told) = Len(ran[p].cmds)
           /\ \A i \in DOMAIN ran[p].told : ran[p].told[i].ref = ran[p].cmds[i].ref

\* What git has asked for with its first n lines: the commands of one mode
\* that no blank line has run yet, up to the last one.
Asked(s, n) ==
  {i \in 1..n : s[i] \in Batching /\ \A k \in i..n : s[k] # Blank /\ (s[k] \in Batching => s[k].c = s[i].c)}

\* The lines of s at these places, each once and in order.
Picks(cmds, s, at) ==
  \E pos \in [DOMAIN cmds -> at] :
    /\ \A i \in at : \E j \in DOMAIN cmds : pos[j] = i
    /\ \A j, k \in DOMAIN cmds : j < k => pos[j] < pos[k]
    /\ \A j \in DOMAIN cmds : cmds[j] = s[pos[j]]

\* The blank lines that have run a fetch, and the last depth that git has
\* given since.
Fetched(s, n) == {i \in 1..n : s[i] = Blank /\ \E j \in Asked(s, i - 1) : s[j].c = "fetch"}

AskedDepth(s, n) ==
  LET given == {i \in 1..n : s[i].c = "depth" /\ \A k \in i..n : k \notin Fetched(s, n)}
  IN IF given = {} THEN 0 ELSE s[Max(given)].arg

\* A batch that runs is the one git asked for: commands of a batch that was
\* abandoned for the other mode are not run, nor those of an earlier batch,
\* and a depth holds for one fetch (BatchState and flush_batch).
RunsWhatIsAsked ==
  /\ TypeOK
  /\ \A p \in Helpers :
       LET n == Len(hist[p]) - 1 IN
       h[p].at \in {"push", "fetch"} =>
         /\ Picks(ran[p].cmds, hist[p], Asked(hist[p], n))
         /\ h[p].at = "fetch" => ran[p].depth = AskedDepth(hist[p], n)

\* One bucket, one address: the URL that is shown for a remote is read back
\* as the same remote; the object of a key is the URL, as it is written, with
\* the key appended, whatever the parser took off the host or the path as a
\* name and whatever the SDK encodes (normalize_endpoint, build_container_url,
\* path_segments); the address git is told for a bundle finds that object when
\* it is signed or the prefix has no percent-encoding; requests are signed for
\* the region of the endpoint they are sent to, which extract_aws_region finds
\* in the whole host and normalize_endpoint by taking the bucket off.
OneAddress ==
  \A p \in Helpers : h[p].at = "format" => RoundTrips /\ AddressesAgree /\ RegionsAgree
=============================================================================
