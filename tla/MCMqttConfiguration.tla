------------------------ MODULE MCMqttConfiguration ------------------------
EXTENDS MqttConfiguration, TLC
\* Every operation may meet every other one.
Todas == {Operacoes}
Simetria == Permutations(Pedidos)
=============================================================================
