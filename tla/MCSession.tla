------------------------------ MODULE MCSession -------------------------------
EXTENDS Session

AllFormats == {None, "unknown"}

\* One helper is sent any dialogue, the others push.
Talker == CHOOSE p \in Helpers : TRUE
AllKinds ==
  [p \in Helpers |->
     IF p = Talker THEN {"capabilities", "list", "bundle-uri", "depth",
                         "fetch", "push", "blank", "invalid"}
     ELSE {"push", "blank"}]

Url(kind, scheme, host, path, query) ==
  [kind |-> kind, scheme |-> scheme, host |-> host, path |-> path, query |-> query]
Flag(k, v) == [key |-> k, value |-> v]

Aws      == <<"amazonaws", "com">>
Minio    == <<"bkt", "minio">>
AllPaths == {<<>>, <<<<"bkt">>>>, <<<<>>, <<"bkt">>, <<>>, <<"bkt">>, <<"p">>, <<>>>>,
             <<<<"bkt">>, <<"bkt">>, <<"a%20b">>>>, <<<<"bkt">>, <<"a=b">>, <<"p">>>>}

\* Every host of one to three labels, in both partitions and outside of AWS,
\* with each addressing style.
AllHosts == {l \o s : l \in SeqOf({"bkt", "s3", "s3-r1", "r1", "blob"}, 3) \ {<<>>},
                      s \in {<<>>, Aws, Append(Aws, "cn")}}
HostUrls == {Url(k, "https", host, path, q) :
               k \in {"S3", "Azure"}, host \in AllHosts, path \in AllPaths,
               q \in {<<>>, <<Flag("addressing", "virtual")>>, <<Flag("addressing", "path")>>}}

\* Every query of up to two flags, on a few hosts.
AllFlags == {Flag(k, v) : k \in {"zip", "bundle_uri"}, v \in {"1", "0", "x"}}
              \cup {Flag(k, "x") : k \in {"profile", "credential", "region", "addressing", "typo"}}
              \cup {Flag("engine", v) : v \in {"bundle", "packchain", "x"}}
              \cup {Flag("bundle_uri_presign_ttl", n) : n \in 0..3}
FlagUrls == {Url(k, scheme, host, <<<<"bkt">>, <<"bkt">>, <<"Bad">>>>, q) :
               k \in {"S3", "Azure", "other"}, scheme \in {"https", "http"},
               host \in {Minio, <<"localhost">>, <<"1", "1", "1", "1", "s3">> \o Aws},
               q \in SeqOf(AllFlags, 2)}

Plain(q)   == Url("S3", "https", <<"s3">> \o Aws, <<<<"bkt">>>>, q)
SomeUrls   == {Plain(<<>>), Plain(<<Flag("engine", "bundle")>>),
               Plain(<<Flag("engine", "packchain"), Flag("bundle_uri", "1")>>),
               Plain(<<Flag("typo", "x")>>)}
AllUrls    == HostUrls \cup FlagUrls \cup SomeUrls

Vars    == {"KEY", "CONNECTION_STRING", "SAS"}
Env(http, f) == [http |-> http, vars |-> f, account |-> <<"other">>]
AllEnvs == {Env(FALSE, [v \in Vars |-> None]), Env(TRUE, [v \in Vars |-> "good"]),
            Env(FALSE, [v \in Vars |-> IF v = "KEY" THEN None ELSE "good"]),
            Env(FALSE, [v \in Vars |-> IF v = "SAS" THEN "good" ELSE None]),
            Env(FALSE, [v \in Vars |-> IF v = "KEY" THEN "bad" ELSE "good"])}
AllRefKeys == {<<"ref">>, <<"a@b">>, <<"a=b">>, <<"a%20b">>}
AllEncode  == (<<"a@b">> :> <<"a%40b">>) @@ (<<"a=b">> :> <<"a%3Db">>) @@ (<<"a%20b">> :> <<"a%2520b">>)
AllDecode  == (<<"a%40b">> :> <<"a@b">>) @@ (<<"a%3Db">> :> <<"a=b">>)
                @@ (<<"a%2520b">> :> <<"a%20b">>) @@ (<<"a%20b">> :> <<"a b">>)
AllUnsafe  == {<<"a=b">>, <<"a%20b">>}
AllHyphen == [l \in {"s3-r1"} |-> "r1"]

\* A fifth line only in a dialogue that began with a depth and has had a
\* blank line: a second batch after the one that the depth was for.
MCFifth(p) ==
  hist[p] # <<>> /\ hist[p][1].c = "depth" /\ \E i \in DOMAIN hist[p] : hist[p][i] = Blank
MCNext == Next /\ \A p \in Helpers : lines = 4 /\ h[p].at = "read" /\ h'[p].at = "handle" => MCFifth(p)
MCSpec == Init /\ [][MCNext]_vars
===============================================================================
