------------------------------ MODULE RemoteUrl -------------------------------
(***************************************************************************)
(* The remote's URL (url.rs) and what is derived from it: the endpoint and *)
(* region the S3 client is built with (object_store/s3.rs), the container  *)
(* URL and credentials of the Azure client (object_store/azure.rs and      *)
(* azure/), and the address of a bundle that bundle-uri tells git          *)
(* (protocol/bundle_uri.rs).                                               *)
(*                                                                         *)
(* A host, a bucket name and a path segment are sequences of the labels    *)
(* between their dots, so that the searches for ".s3." and ".s3-" in the   *)
(* code become searches for a label.  The empty segment is <<>>, which     *)
(* also stands for an absent name.  A label "s3-<region>" is a member of   *)
(* DOMAIN Hyphen, which gives its region.                                  *)
(***************************************************************************)
EXTENDS Integers, Sequences, FiniteSets, FiniteSetsExt, SequencesExt

CONSTANTS Hyphen,     \* the labels "s3-<region>", with their regions
          BadLabels,  \* labels with a character or an affix names may not have
          Digits,     \* labels of digits only
          MaxTtl,     \* MAX_BUNDLE_URI_PRESIGN_TTL_SECONDS
          Urls, Envs, \* the URLs and environments the properties range over
          RefKeys,    \* and the refs, each one segment of a key
          Encode,     \* the segments that are percent-encoded, and how
          Decode,     \* the segments that a server reads as another one
          Unsafe,     \* the refs with one of FRAMING_AND_URL_UNSAFE
          None

Engines == {"bundle", "packchain"}

\* How the SDKs write a segment of a key, and how a server reads it.
encoded(segment) == IF segment \in DOMAIN Encode THEN Encode[segment] ELSE segment
decoded(segment) == IF segment \in DOMAIN Decode THEN Decode[segment] ELSE segment

\* A server reads what an SDK has written.  A segment that is read as another
\* one has a "%", which no name may have, and makes a ref unsafe.
ASSUME EncodingAssumption ==
  /\ \A s \in RefKeys \cup UNION {ToSet(u.path) : u \in Urls} : decoded(encoded(s)) = s
  /\ \A s \in DOMAIN Decode : \E i \in DOMAIN s : s[i] \in BadLabels
  /\ RefKeys \cap DOMAIN Decode \subseteq Unsafe

ASSUME UrlAssumption ==
  /\ None \notin Engines \cup {"1", "0", "path", "virtual"}
  /\ MaxTtl \in Nat \ {0}
  /\ "s3" \notin DOMAIN Hyphen
  /\ \A u \in Urls : /\ Len(u.query) \in Nat /\ DOMAIN u.query = 1..Len(u.query)
                     /\ u.host \in Seq(ToSet(u.host)) /\ u.path \in Seq(ToSet(u.path))

Refused == [kind |-> "error"]

-----------------------------------------------------------------------------
(* The query.                                                              *)

FlagKeys == {"zip", "profile", "credential", "region", "addressing", "engine",
             "bundle_uri", "bundle_uri_presign_ttl"}

\* parse_bool_value's eight words are "1" and "0".
FlagOk(pair) ==
  CASE pair.key \in {"zip", "bundle_uri"}             -> pair.value \in {"1", "0"}
    [] pair.key = "addressing"                        -> pair.value \in {"path", "virtual"}
    [] pair.key = "engine"                            -> pair.value \in Engines
    [] pair.key = "bundle_uri_presign_ttl"            -> pair.value \in 1..MaxTtl
    [] pair.key \in {"profile", "credential", "region"} -> TRUE
    [] OTHER                                          -> FALSE

\* A key given twice has its last value.
extract_flags(query) ==
  [k \in FlagKeys |->
     LET at == {i \in DOMAIN query : query[i].key = k}
     IN IF at = {} THEN None ELSE query[Max(at)].value]

\* reject_inapplicable_presign_ttl and the reject_inapplicable_flag calls of
\* finish_s3 and finish_azure.
Applicable(kind, flags) ==
  /\ flags.bundle_uri_presign_ttl # None => flags.bundle_uri = "1"
  /\ kind = "S3" => flags.credential = None
  /\ kind = "Azure" => flags.profile = None /\ flags.region = None

-----------------------------------------------------------------------------
(* Names.                                                                  *)

is_valid_bucket(b) ==
  /\ b \notin {<<>>, <<"s3">>}
  /\ \A i \in DOMAIN b : b[i] \notin BadLabels
  /\ ~(Len(b) = 4 /\ \A i \in DOMAIN b : b[i] \in Digits)

is_valid_account(a)   == Len(a) = 1 /\ a[1] \notin BadLabels \cup DOMAIN Hyphen \cup {"s3"}
is_valid_container(c) == Len(c) = 1 /\ c[1] \notin BadLabels \cup {"s3"}

-----------------------------------------------------------------------------
(* S3.                                                                     *)

AWS_HOST_SUFFIXES == {<<"amazonaws", "com", "cn">>, <<"amazonaws", "com">>}

\* The host without the partition's suffix, <<>> for other hosts.
strip_aws_host_suffix(host) ==
  LET of == {s \in AWS_HOST_SUFFIXES : Len(s) < Len(host) /\ IsSuffix(s, host)}
  IN IF of = {} THEN <<>> ELSE SubSeq(host, 1, Len(host) - Len(CHOOSE s \in of : TRUE))

\* AWS_S3_INFIXES: where a label follows a dot and is "s3" before another
\* dot, or begins with "s3-".
Infixes(host) ==
  {i \in 2..Len(host) : host[i] \in DOMAIN Hyphen \/ (host[i] = "s3" /\ i < Len(host))}

check_aws_s3_host(host) ==
  LET t == strip_aws_host_suffix(host)
  IN \/ t = <<>>
     \/ t[1] \in {"s3"} \cup DOMAIN Hyphen
     \/ t[Len(t)] = "s3"
     \/ Infixes(t) # {}

\* The labels before the rightmost infix.
s3_virtual_hosted_bucket(host) ==
  IF Infixes(host) = {} THEN <<>> ELSE SubSeq(host, 1, Max(Infixes(host)) - 1)

leftmost_label(host) == SubSeq(host, 1, 1)

\* resolve_s3_components: addressing style, bucket and prefix segments.
resolve_s3_components(host, segments, override) ==
  LET aws     == s3_virtual_hosted_bucket(host)
      virtual == override = "virtual" \/ (override = None /\ aws # <<>>)
  IN CASE virtual -> [addressing |-> "virtual", prefix |-> segments,
                      bucket |-> IF aws # <<>> THEN aws ELSE leftmost_label(host)]
       [] ~virtual /\ segments = <<>> -> [addressing |-> "path", prefix |-> <<>>, bucket |-> <<>>]
       [] ~virtual /\ segments # <<>> ->
            [addressing |-> "path", prefix |-> Tail(segments), bucket |-> Head(segments)]

\* The path that replaces the given one.
S3Canonical(c) == IF c.addressing = "virtual" THEN c.prefix ELSE <<c.bucket>> \o c.prefix

finish_s3(endpoint, segments, flags) ==
  LET c == resolve_s3_components(endpoint.host, segments, flags.addressing)
  IN IF check_aws_s3_host(endpoint.host) /\ is_valid_bucket(c.bucket)
     THEN [kind |-> "S3", endpoint |-> [endpoint EXCEPT !.path = S3Canonical(c)],
           bucket |-> c.bucket,
           prefix |-> c.prefix, addressing |-> c.addressing, flags |-> flags]
     ELSE Refused

-----------------------------------------------------------------------------
(* Azure.                                                                  *)

detect_azure_addressing(host) == IF Len(host) >= 2 /\ host[2] = "blob" THEN "virtual" ELSE "path"

\* resolve_azure_components: the names come from the host's first label and
\* the path, or from the path alone; a name that is missing is <<>>.
resolve_azure_components(addressing, host, segments) ==
  LET names == IF addressing = "virtual" THEN <<leftmost_label(host)>> \o segments ELSE segments
      at(i) == IF i <= Len(names) THEN names[i] ELSE <<>>
  IN [account |-> at(1), container |-> at(2), prefix |-> SubSeq(names, 3, Len(names))]

finish_azure(endpoint, segments, flags) ==
  LET addressing == IF flags.addressing # None THEN flags.addressing
                    ELSE detect_azure_addressing(endpoint.host)
      c          == resolve_azure_components(addressing, endpoint.host, segments)
      canonical  == IF addressing = "virtual" THEN <<c.container>> \o c.prefix
                    ELSE <<c.account, c.container>> \o c.prefix
  IN IF is_valid_account(c.account) /\ is_valid_container(c.container)
     THEN [kind |-> "Azure", endpoint |-> [endpoint EXCEPT !.path = canonical],
           account |-> c.account, container |-> c.container, prefix |-> c.prefix,
           addressing |-> addressing, flags |-> flags]
     ELSE Refused

-----------------------------------------------------------------------------
(* parse and Display.  allow: http_allowed_by_env.                         *)

\* The segments that are not empty.
path_segments(path) ==
  LET kept(s) == IF s = <<>> THEN <<>> ELSE <<s>>
      S[i \in 0..Len(path)] == IF i = 0 THEN <<>> ELSE S[i - 1] \o kept(path[i])
  IN S[Len(path)]

is_loopback(host) == host = <<"localhost">>

parse(u, allow) ==
  LET flags    == extract_flags(u.query)
      segments == path_segments(u.path)
      endpoint == [scheme |-> u.scheme, host |-> u.host, path |-> u.path, query |-> u.query]
  IN CASE \/ u.kind \notin {"S3", "Azure"}
          \/ u.host = <<>>
          \/ u.scheme = "http" /\ ~is_loopback(u.host) /\ ~allow
          \/ \E i \in DOMAIN u.query : ~FlagOk(u.query[i])
          \/ ~Applicable(u.kind, flags)   -> Refused
       [] OTHER -> IF u.kind = "S3" THEN finish_s3(endpoint, segments, flags)
                   ELSE finish_azure(endpoint, segments, flags)

\* What the user sees of a remote, and may give back as a URL.
Display(r) == [kind |-> r.kind, scheme |-> r.endpoint.scheme, host |-> r.endpoint.host,
               path |-> r.endpoint.path, query |-> r.endpoint.query]

-----------------------------------------------------------------------------
(* The clients.  An address is a host and a path.                          *)

\* Mutant: the endpoint loses one label, whatever the bucket's name.
NormalizeFirstLabel(r) == IF r.addressing = "path" THEN r.endpoint.host ELSE Tail(r.endpoint.host)

\* The host that the S3 client is given; <<>>, an error, for a virtual host
\* of one label.
normalize_endpoint(r) ==
  LET host == r.endpoint.host
      aws  == s3_virtual_hosted_bucket(host)
  IN IF r.addressing = "path" THEN host
     ELSE SubSeq(host, IF aws # <<>> THEN Len(aws) + 1 ELSE 2, Len(host))

\* A key as the SDKs write it.  path_segments leaves the prefix encoded as
\* the URL has it: its "%" is encoded again.
Encoded(key) == [i \in DOMAIN key |-> encoded(key[i])]

\* The SDK adds the bucket to the host or to the path.
S3Address(r, key) ==
  IF r.addressing = "virtual" THEN [host |-> r.bucket \o normalize_endpoint(r), path |-> Encoded(key)]
  ELSE [host |-> normalize_endpoint(r), path |-> <<r.bucket>> \o Encoded(key)]

\* The label after the infix at i, if it is the only one.
RegionAfter(t, i) ==
  CASE i = Len(t) /\ i > 1 /\ t[i] \in DOMAIN Hyphen -> Hyphen[t[i]]
    [] i = Len(t) - 1 /\ i > 1 /\ t[i] = "s3"        -> t[i + 1]
    [] OTHER                                         -> None

\* The arms of the match for one, two and three labels, and the rightmost
\* infix for the others.
extract_aws_region(t) ==
  CASE t = <<"s3">>                             -> None
    [] Len(t) = 2 /\ t[1] = "s3"                -> t[2]
    [] Len(t) = 3 /\ t[2] = "s3"                -> t[3]
    [] Len(t) = 1 /\ t[1] \in DOMAIN Hyphen     -> Hyphen[t[1]]
    [] OTHER                                    -> RegionAfter(t, Max(Infixes(t) \cup {0}))

resolve_region(r) ==
  LET t == strip_aws_host_suffix(r.endpoint.host)
  IN IF r.flags.region # None THEN r.flags.region
     ELSE IF r.endpoint.host = <<"amazonaws", "com">> THEN None
     ELSE IF t = <<>> THEN "us-east-1"
     ELSE extract_aws_region(t)

\* AzureStore: build_container_url, and the blob's path below it.
build_container_url(r) ==
  IF r.addressing = "virtual" THEN <<r.container>> ELSE <<r.account, r.container>>

AzureAddress(r, key) == [host |-> r.endpoint.host, path |-> build_container_url(r) \o Encoded(key)]

\* resolve_alias: the first variable of the alias that is set decides, also
\* when its value is not usable.  A connection string brings its own account.
resolve_alias(r, env) ==
  LET set == SelectSeq(<<"KEY", "CONNECTION_STRING", "SAS">>, LAMBDA v : env.vars[v] # None)
  IN IF set = <<>> \/ env.vars[set[1]] = "bad" THEN Refused
     ELSE CASE set[1] = "KEY"               -> [kind |-> "key", account |-> r.account]
            [] set[1] = "CONNECTION_STRING" -> [kind |-> "key", account |-> env.account]
            [] set[1] = "SAS"               -> [kind |-> "sas"]

\* auth::resolve: without an alias, the developer tools' token.
resolve(r, env) == IF r.flags.credential = None THEN [kind |-> "token"] ELSE resolve_alias(r, env)

\* from_remote_url of either store: can the client be built?
Built(r, env) ==
  \/ r.kind = "S3" /\ (r.addressing = "virtual" => normalize_endpoint(r) # <<>>)
  \/ r.kind = "Azure" /\ resolve(r, env) # Refused

Address(r, key) == IF r.kind = "S3" THEN S3Address(r, key) ELSE AzureAddress(r, key)

-----------------------------------------------------------------------------
(* bundle-uri.                                                             *)

bundle_key(r, ref) == Append(r.prefix, ref)

is_safe_for_bundle_uri_emission(ref) == ref \notin Unsafe

\* The key as it is, not encoded.
canonical_bundle_url(r, ref) ==
  LET key == bundle_key(r, ref)
  IN [host |-> r.endpoint.host,
      path |-> CASE r.kind = "S3" /\ r.addressing = "virtual"    -> key
                 [] r.kind = "S3" /\ r.addressing = "path"       -> <<r.bucket>> \o key
                 [] r.kind = "Azure" /\ r.addressing = "virtual" -> <<r.container>> \o key
                 [] r.kind = "Azure" /\ r.addressing = "path"    -> <<r.account, r.container>> \o key]

\* presigned_get_url of either store, build_blob_sas_url: the signed resource
\* and the protocols it may be fetched with.
SasUrl(r, key, account) ==
  [at |-> AzureAddress(r, key), resource |-> <<account, r.container>> \o key,
   protocols |-> IF r.endpoint.scheme = "https" THEN {"https"} ELSE {"https", "http"}]

\* collect_entries and bundle_url_for_emission: the addresses of the lines
\* written for a ref, no line for an unsafe one or when the store cannot sign.
bundle_url_for_emission(r, ref, env) ==
  IF ~is_safe_for_bundle_uri_emission(ref) THEN {}
  ELSE IF r.flags.bundle_uri_presign_ttl = None THEN {canonical_bundle_url(r, ref)}
  ELSE IF r.kind = "S3" THEN {S3Address(r, bundle_key(r, ref))}
  ELSE IF resolve(r, env).kind = "key"
       THEN {SasUrl(r, bundle_key(r, ref), resolve(r, env).account).at}
  ELSE {}

-----------------------------------------------------------------------------
(* What Session states of every URL of Urls in every environment of Envs,  *)
(* with cleartext HTTP allowed.                                            *)

Remotes == {parse(u, TRUE) : u \in Urls} \ {Refused}

RoundTrips ==
  \A r \in Remotes : parse(Display(r), TRUE) = r

\* The object that a server finds at an address.
ObjectAt(at) == [host |-> at.host, path |-> [i \in DOMAIN at.path |-> decoded(at.path[i])]]

\* The object of a ref: the URL, as it is written, with the ref appended.
ObjectOf(r, ref) == [host |-> r.endpoint.host, path |-> Append(r.endpoint.path, ref)]

\* A prefix that a server reads as it is written.
PlainPrefix(r) == \A i \in DOMAIN r.prefix : r.prefix[i] \notin DOMAIN Decode

Signed(r) == r.flags.bundle_uri_presign_ttl # None

AddressesAgree ==
  \A r \in Remotes, env \in Envs, ref \in RefKeys :
    Built(r, env) =>
      /\ ObjectAt(Address(r, bundle_key(r, ref))) = ObjectOf(r, ref)
      /\ Signed(r) \/ PlainPrefix(r) =>
           \A at \in bundle_url_for_emission(r, ref, env) : ObjectAt(at) = ObjectOf(r, ref)

\* The regions that an AWS endpoint can have, after the bucket is taken off.
RegionOf(e) ==
  CASE Len(e) = 2 /\ e[1] = "s3"             -> {e[2]}
    [] Len(e) = 1 /\ e[1] \in DOMAIN Hyphen  -> {Hyphen[e[1]]}
    [] e = <<"s3">>                          -> {None}
    [] OTHER                                 -> {}

\* A bucket whose name ends in the label s3: extract_aws_region may take
\* that label for the service, and what follows it for the region.
Shadowed(r) == r.bucket[Len(r.bucket)] = "s3"

RegionsAgree ==
  \A r \in Remotes :
    LET e == strip_aws_host_suffix(normalize_endpoint(r))
    IN r.kind = "S3" /\ r.flags.region = None /\ ~Shadowed(r) /\ e # <<>> /\ RegionOf(e) # {}
         => resolve_region(r) \in RegionOf(e)
=============================================================================
