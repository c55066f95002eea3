--------------------------- MODULE MCGenMaciState ---------------------------
EXTENDS GenMaciState

\* All blocks, an end block that the chain may have reached or not, and a
\* first block that leaves events out.
MCRanges == {<<0, 0>>, <<0, 3>>, <<2, 0>>}

\* One message, and messages whose order the sorting by type reverses.
MCLists == {<<"PublishMessage">>, <<"TopupMessage", "PublishMessage">>}

\* Two kinds of chains: short ones, cut into blocks anyhow, which may go on
\* during the call, and longer ones in one block, of which the call is given
\* every block; these have time to merge in several calls, late and again.
ShortChain == transactions <= 6
OneBlock ==
  /\ \A k \in DOMAIN chain : chain[k].block <= 2 /\ chain[k].type # "TopupMessage"
  /\ gen.at # "idle" => gen.fromBlock = 0 /\ gen.lastBlock = 2
ShortOrOneBlock == ShortChain \/ OneBlock
=============================================================================
