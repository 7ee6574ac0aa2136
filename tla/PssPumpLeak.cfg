CONSTANT Deliveries = {d1, d2, d3}
SPECIFICATION Spec
CHECK_DEADLOCK FALSE
PROPERTY DeliveriesReturn
