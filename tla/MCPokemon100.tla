---------------------------- MODULE MCPokemon100 ----------------------------
EXTENDS Pokemon100

\* All 24 orders, from both halfwords, up to the largest word.
MCPersonalities ==
    {<<n, 1>> : n \in 0..7} \cup {<<65520 + n, 65535>> : n \in 0..15}

MCTrainerIds == {<<0, 0>>, <<4660, 40001>>}

=============================================================================
