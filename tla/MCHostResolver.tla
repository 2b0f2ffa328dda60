---------------------------- MODULE MCHostResolver ----------------------------
EXTENDS HostResolver

RequestInfo(host, family, p, cached) ==
    [hostname |-> host, address_family |-> family, priority |-> p,
     allow_cached_response |-> cached]

\* Two requests whose keys differ or agree with the default family, and one for
\* another host.
ThreeRequests ==
    <<RequestInfo("a", UNSPECIFIED, 0, TRUE), RequestInfo("a", IPV4, 1, FALSE),
      RequestInfo("b", IPV4, 1, TRUE)>>

\* Two jobs and a long queue are the default; with one job the queue holds
\* two requests, or gets too long.
OneJob == {<<1, 1>>, <<1, 2>>}
===============================================================================
