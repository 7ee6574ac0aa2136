\* three pss deliveries (one received, one in flight when the pump returns,
\* one after the handler is unregistered); Ping with two greetings, so that
\* a reset or a cancellation can fall between two exchanges
CONSTANTS
    Deliveries = {d1, d2, d3}
    Greetings = 2
SPECIFICATION MCSpec
\* both the pump and the pingpong exchange finish
CHECK_DEADLOCK FALSE
INVARIANT ShortPingOnlyAfterHandlerEnded
PROPERTY QuitEndsPump
PROPERTY PingPongEnd
